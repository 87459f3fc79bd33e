----------------------------- MODULE Collections -----------------------------
(* Chasing one customer for money (packages/collections) over the            *)
(* notifications (packages/platform/src/notifications.ts).  Every request    *)
(* builds the plan afresh from what is owed, disputed, promised and already  *)
(* sent; a message to the customer goes once per bill and rung of the ladder *)
(* and never within MinGap days of the last one; when the ladder is spent,   *)
(* or the bill is large, the owner is told instead.  A message is first a    *)
(* notification; the limit on sending may leave it queued for a later pass.  *)
(*                                                                           *)
(* A request runs in one unit of work with one company's requests one at a   *)
(* time, but the provider is called inside it: when the unit fails, what was *)
(* delivered stays delivered and what was written is gone.                   *)
(*                                                                           *)
(* Left out: wording, levels (a promise broken raises the tone), channels    *)
(* and quiet notification preferences, which nothing in the API sets.        *)
EXTENDS Integers, Sequences, FiniteSets

CONSTANTS
    Bills,        \* the open bills of the customer
    Offset,       \* policy.steps: days overdue at which each rung is reached
    MinGap, Grace, Minimum, Large,
    None,
    Billed, DueOn, \* what each bill is for, and the day it is due
    MaxDay, MaxRollbacks, MaxHeld \* bounds; MaxHeld: disputes, promises and an opt-out at once

Rungs == 1..Len(Offset)
Escalation == Len(Offset) + 1
Keys == Bills \X (Rungs \cup {Escalation})
Days == 0..MaxDay

VARIABLES
    day, owed,
    disputed,     \* bills in dispute, and None when the whole account is
    promised,     \* for each bill the day it was promised for, or None
    optedOut,     \* the customer asked to be left alone, or cannot be reached
    reminder,     \* collection_reminders by reminder key
    note,         \* notifications by deduplication key
    received,     \* how many messages reached their reader
    rollbacks

facts == <<day, owed, disputed, promised, optedOut>>
vars == <<facts, reminder, note, received, rollbacks>>

Rows == [state : {"SENT", "FAILED"}, asOf : Days] \cup {None}

TypeOK ==
    /\ day \in Days /\ \A b \in Bills : owed[b] \in 0..Billed[b]
    /\ disputed \subseteq Bills \cup {None} /\ promised \in [Bills -> Days \cup {None}] /\ optedOut \in BOOLEAN
    /\ reminder \in [Keys -> Rows]
    /\ note \in [Keys -> {None, "scheduled", "delivered", "failed"}]
    /\ received \in [Keys -> 0..(1 + MaxRollbacks)] /\ rollbacks \in 0..MaxRollbacks

Init ==
    /\ day = 0 /\ owed = Billed
    /\ disputed = {} /\ promised = [b \in Bills |-> None] /\ optedOut = FALSE
    /\ reminder = [k \in Keys |-> None] /\ note = [k \in Keys |-> None]
    /\ received = [k \in Keys |-> 0] /\ rollbacks = 0

-----------------------------------------------------------------------------
(* The plan: a function of the facts and of what was sent, for the date the  *)
(* request is about, which for a scheduled job is its slot's.                *)

\* What a request has written so far, and what has gone out.
Now == [rows |-> reminder, notes |-> note, got |-> received]

SentAlready(s, k) == IF s.rows[k] = None THEN FALSE ELSE s.rows[k].state # "FAILED"

SentToCustomer(s) == {k \in Bills \X Rungs : SentAlready(s, k)}

RungOn(b, t) == Cardinality({r \in Rungs : t - DueOn[b] >= Offset[r]})

Escalates(s, b, t) ==
    LET final == <<b, Len(Offset)>>
    IN owed[b] > Large \/ (IF SentAlready(s, final) THEN t - s.rows[final].asOf >= MinGap ELSE FALSE)

\* A settled bill, a dispute and a live promise outrank the ladder.
LeftAlone(b, t) ==
    \/ owed[b] < Minimum
    \/ b \in disputed \/ None \in disputed
    \/ (IF promised[b] = None THEN FALSE ELSE t - promised[b] <= Grace)

\* The gap is counted only from messages of days gone by.
TooSoonToday(s, t) == \E k \in SentToCustomer(s) : t - s.rows[k].asOf \in 1..(MinGap - 1)

TooSoon(s, t) == \E k \in SentToCustomer(s) : t - s.rows[k].asOf < MinGap

\* The reminder a bill is due, or None; quiet hours and the gap hold back
\* messages to the customer only.
KeyFor(s, b, t, quiet) ==
    IF owed[b] = 0 \/ LeftAlone(b, t) THEN None
    ELSE IF Escalates(s, b, t)
         THEN IF SentAlready(s, <<b, Escalation>>) THEN None ELSE <<b, Escalation>>
         ELSE IF RungOn(b, t) = 0 \/ optedOut \/ quiet \/ TooSoon(s, t) THEN None
              ELSE IF SentAlready(s, <<b, RungOn(b, t)>>) THEN None ELSE <<b, RungOn(b, t)>>

IsToCustomer(k) == k[2] # Escalation

(* Oldest bill first, and one message to a customer in a run.                *)
Plan(s, t, quiet) ==
    LET wanted == {KeyFor(s, b, t, quiet) : b \in Bills} \ {None}
        toCustomer == {k \in wanted : IsToCustomer(k)}
        oldest == {k \in toCustomer : \A l \in toCustomer : DueOn[k[1]] <= DueOn[l[1]]}
    IN IF toCustomer = {} THEN {wanted} ELSE {(wanted \ toCustomer) \cup {k} : k \in oldest}

-----------------------------------------------------------------------------
(* Sending                                                                   *)

\* A key seen before is scheduled anew, as if it were not looked up.
ScheduledAnew(notes, k) == [notes EXCEPT ![k] = "scheduled"]

\* schedule: a key seen before gives back the notification it made; one that
\* failed is scheduled again.
Scheduled(notes, k) == [notes EXCEPT ![k] = IF @ = "delivered" THEN @ ELSE "scheduled"]

(* deliverDue: what is queued is tried as far as the limit, which is one for *)
(* each channel, lets it; the provider takes some of it.                     *)
Delivered(s) ==
    LET queue == {k \in Keys : s.notes[k] = "scheduled"}
    IN UNION {{[s EXCEPT !.notes = [k \in Keys |-> IF k \in taken THEN "delivered" ELSE IF k \in tried THEN "failed" ELSE @[k]],
                         !.got = [k \in Keys |-> IF k \in taken THEN @[k] + 1 ELSE @[k]]] :
                  taken \in SUBSET tried} : tried \in SUBSET queue}

\* A queued message is taken for one that went.
SettledHoping(s, k, t) ==
    [s EXCEPT !.rows[k] = [state |-> IF s.notes[k] = "failed" THEN "FAILED" ELSE "SENT", asOf |-> t]]

\* A message that went is SENT; one refused, or left in the queue, is FAILED.
Settled(s, k, t) ==
    [s EXCEPT !.rows[k] = [state |-> IF s.notes[k] = "delivered" THEN "SENT" ELSE "FAILED", asOf |-> t]]

(* #dispatch and the transport: what may come of sending one reminder.  A    *)
(* notification already delivered is not sent again.                         *)
Dispatch(s, k, t) ==
    LET asked == [s EXCEPT !.notes = Scheduled(s.notes, k)]
    IN {Settled(o, k, t) : o \in IF asked.notes[k] = "delivered" THEN {asked} ELSE Delivered(asked)}

\* The reminders one by one, in an order.
InTurn(keys) ==
    CHOOSE order \in [1..Cardinality(keys) -> keys] : \A k \in keys : \E i \in 1..Cardinality(keys) : order[i] = k

\* One reminder after another: what may have come of the first n of them.
DispatchAll(s, keys, t) ==
    LET after[n \in 0..Cardinality(keys)] ==
            IF n = 0 THEN {s} ELSE UNION {Dispatch(o, InTurn(keys)[n], t) : o \in after[n - 1]}
    IN after[Cardinality(keys)]

(* The request is saved whole; or its unit of work fails after the calls.    *)
Ends(s) ==
    /\ UNCHANGED facts
    /\ received' = s.got
    /\ \/ reminder' = s.rows /\ note' = s.notes /\ UNCHANGED rollbacks
       \/ rollbacks < MaxRollbacks /\ rollbacks' = rollbacks + 1 /\ UNCHANGED <<reminder, note>>

\* A person sends one reminder, for today.
Send(b, t) ==
    \E quiet \in BOOLEAN : \E keys \in Plan(Now, t, quiet) :
        \E k \in {l \in keys : l[1] = b} : \E s \in Dispatch(Now, k, t) : Ends(s)

\* Everything the plan agreed to: a person today, the daily job for its slot.
SendPlanned(t) ==
    \E quiet \in BOOLEAN : \E keys \in Plan(Now, t, quiet) :
        /\ keys # {}
        /\ \E s \in DispatchAll(Now, keys, t) : Ends(s)

(* A failed reminder is tried again, at the rung its bill has reached by     *)
(* now; its row moves there, unless that rung has a row of its own.          *)
Retry(k, t) ==
    /\ IF reminder[k] = None THEN FALSE ELSE reminder[k].state = "FAILED"
    /\ \E quiet \in BOOLEAN : \E keys \in Plan(Now, t, quiet) :
          \E l \in {m \in keys : m[1] = k[1]} :
             /\ l # k => reminder[l] = None
             /\ \E s \in Dispatch([Now EXCEPT !.rows[k] = None], l, t) : Ends(s)

\* The job that runs every minute sends whatever is queued.
DeliverDue ==
    /\ \E k \in Keys : note[k] = "scheduled"
    /\ \E s \in Delivered(Now) : s # Now /\ Ends(s)

-----------------------------------------------------------------------------
(* What happens meanwhile                                                    *)

Elsewhere == UNCHANGED <<reminder, note, received, rollbacks>>

Held == Cardinality(disputed) + Cardinality({b \in Bills : promised[b] # None}) + (IF optedOut THEN 1 ELSE 0)

Pay(b) == owed[b] > 0 /\ owed' = [owed EXCEPT ![b] = @ - 1] /\ UNCHANGED <<day, disputed, promised, optedOut>> /\ Elsewhere

RaiseDispute(d) ==
    d \notin disputed /\ Held < MaxHeld /\ disputed' = disputed \cup {d} /\ UNCHANGED <<day, owed, promised, optedOut>> /\ Elsewhere
ResolveDispute(d) == d \in disputed /\ disputed' = disputed \ {d} /\ UNCHANGED <<day, owed, promised, optedOut>> /\ Elsewhere

RecordPromise(b, d) ==
    /\ promised[b] = None /\ Held < MaxHeld /\ promised' = [promised EXCEPT ![b] = d]
    /\ UNCHANGED <<day, owed, disputed, optedOut>> /\ Elsewhere
CancelPromise(b) ==
    promised[b] # None /\ promised' = [promised EXCEPT ![b] = None] /\ UNCHANGED <<day, owed, disputed, optedOut>> /\ Elsewhere

OptOut == ~optedOut /\ Held < MaxHeld /\ optedOut' = TRUE /\ UNCHANGED <<day, owed, disputed, promised>> /\ Elsewhere
ResumeReminders == optedOut /\ optedOut' = FALSE /\ UNCHANGED <<day, owed, disputed, promised>> /\ Elsewhere

NextDay == day < MaxDay /\ day' = day + 1 /\ UNCHANGED <<owed, disputed, promised, optedOut>> /\ Elsewhere

Next ==
    \/ \E b \in Bills : Send(b, day) \/ Pay(b) \/ CancelPromise(b) \/ \E d \in Days : RecordPromise(b, d)
    \/ \E t \in {day, day - 1} \cap Days : SendPlanned(t)
    \/ \E k \in Keys : Retry(k, day)
    \/ \E d \in Bills \cup {None} : RaiseDispute(d) \/ ResolveDispute(d)
    \/ DeliverDue \/ OptOut \/ ResumeReminders \/ NextDay

Spec == Init /\ [][Next]_vars

-----------------------------------------------------------------------------
(* Nobody gets the message of one bill and rung twice, however often it is   *)
(* retried, queued, delivered by the job or asked for in another way; only a *)
(* unit of work that fails after the call can repeat one (service.ts:376,    *)
(* notifications.ts:285).                                                    *)
OncePerRung == \A k \in Keys : received[k] <= 1 + rollbacks

(* A reminder shown as sent did reach somebody (service.ts:415,              *)
(* adapters.ts:103-117).                                                     *)
SentIsReceived == \A k \in Keys : SentAlready(Now, k) => received[k] >= 1 /\ note[k] = "delivered"

(* What is shown as sent to a customer is never less than the gap apart,     *)
(* whatever day each request was for, and a bill's rungs are sent in order   *)
(* (plan.ts:206, 188; policy.ts:62).                                         *)
NeverTooSoon ==
    \A k, l \in SentToCustomer(Now) :
        /\ k # l => reminder[k].asOf - reminder[l].asOf \notin (1 - MinGap)..(MinGap - 1)
        /\ k[1] = l[1] /\ k[2] < l[2] => reminder[k].asOf < reminder[l].asOf
=============================================================================
