------------------------------ MODULE EInvoice ------------------------------
(***************************************************************************)
(* The e-invoice number of a bill (gst/src/einvoice-service.ts): asked for *)
(* by the outbox's relays after the bill's own transaction                 *)
(* (api/src/demo-application.ts, outboxHandlers), by a person or by the    *)
(* quarter-hourly retry; looked up and cancelled by a person.  A relay     *)
(* holds nothing while the portal answers; a person's request and the      *)
(* retry are one unit of work, portal call included, under the company's   *)
(* lock.  Every answer of the portal may be lost on the way.               *)
(***************************************************************************)
EXTENDS Naturals, FiniteSets

CONSTANTS
  Bills,
  Relays,          \* outbox relays
  People,          \* requests, and runs of the retry
  Nobody,
  MaxAttempts,     \* failed attempts after which a message is dead
  MaxLosses,       \* bound: processes that die and commits that are lost
  LeasesHold           \* TRUE: a lease lapses only when its relay is gone

VARIABLES
  record,          \* the bill's row of e_invoices
  barred,          \* bills the rules say not to send, from some day on
  message,         \* the bill's row in the outbox
  claim,           \* the relay whose token that row carries
  attempts,        \* its failed attempts
  portal,          \* what the government holds
  call,            \* what each process is doing
  lock,            \* the request holding the company's lock
  drift,           \* history: bills that differ for a known cause: an answer lost, or late
  losses

vars == <<record, barred, message, claim, attempts, portal, call, lock, drift, losses>>

Finished == {"REGISTERED", "CANCELLED"}
Records == [status : {"none", "PENDING", "FAILED"} \cup Finished, failure : {"none", "retry", "final"}]
Idle == [step |-> "idle"]
Answers == {"none", "nothing", "unavailable", "refused", "registered", "notFound", "cancelled"}
Calls == {Idle} \cup [step : {"claimed", "asking", "answered"}, op : {"send", "register", "retry", "reconcile", "cancel"},
                      bill : Bills, seen : Records, answer : Answers]

TypeOK ==
  /\ record \in [Bills -> Records]
  /\ barred \subseteq Bills
  /\ message \in [Bills -> {"none", "queued", "sent", "dead"}]
  /\ claim \in [Bills -> Relays \cup {Nobody}]
  /\ attempts \in [Bills -> 0..MaxAttempts]
  /\ portal \in [Bills -> {"unknown", "active", "cancelled"}]
  /\ call \in [Relays \cup People -> Calls]
  /\ lock \in People \cup {Nobody}
  /\ drift \subseteq Bills
  /\ losses \in 0..MaxLosses

Init ==
  /\ record = [b \in Bills |-> [status |-> "none", failure |-> "none"]]
  /\ barred = {}
  /\ message = [b \in Bills |-> "none"]
  /\ claim = [b \in Bills |-> Nobody]
  /\ attempts = [b \in Bills |-> 0]
  /\ portal = [b \in Bills |-> "unknown"]
  /\ call = [p \in Relays \cup People |-> Idle]
  /\ lock = Nobody
  /\ drift = {}
  /\ losses = 0

-----------------------------------------------------------------------------
(* The record *)

\* prepareRegistration's PENDING: everything else is kept from the row it read
Pending(r) == [r EXCEPT !.status = "PENDING"]

\* Bug: a call that got no answer is taken for a registration.
CompletedHopefully(c) ==
  [c.seen EXCEPT !.status = IF c.answer \in {"unavailable", "registered"} THEN "REGISTERED" ELSE "FAILED"]

\* What the answer makes of the record the call started from
Completed(c) ==
  CASE c.op \in {"send", "register", "retry"} /\ c.answer = "registered" -> [c.seen EXCEPT !.status = "REGISTERED"]
    [] c.op \in {"send", "register", "retry"} /\ c.answer = "refused" -> [status |-> "FAILED", failure |-> "final"]
    [] c.op \in {"send", "register", "retry"} /\ c.answer = "unavailable" -> [status |-> "FAILED", failure |-> "retry"]
    [] c.op = "reconcile" /\ c.answer = "registered" -> [c.seen EXCEPT !.status = "REGISTERED"]
    [] c.op = "reconcile" /\ c.answer = "notFound" /\ c.seen.status = "PENDING" -> [status |-> "FAILED", failure |-> "retry"]
    [] c.op \in {"reconcile", "cancel"} /\ c.answer = "cancelled" -> [c.seen EXCEPT !.status = "CANCELLED"]
    [] OTHER -> c.seen

\* Bug: a finished record is rewritten like any other.
MayWriteAnything(old, new) == TRUE

\* The trigger on e_invoices: a finished record stays finished and keeps what failed before.
MayWrite(old, new) == old.status \in Finished => new.status \in Finished /\ new.failure = old.failure

\* The screen shows what the government has.
Agree(r, p) ==
  p = CASE r.status = "REGISTERED" -> "active" [] r.status = "CANCELLED" -> "cancelled" [] OTHER -> "unknown"

\* Bills whose difference from the portal is the doing of a lost answer, or of
\* a relay's late one.
Drifted(b, lost) ==
  IF Agree(record'[b], portal'[b]) THEN drift \ {b} ELSE IF lost THEN drift \cup {b} ELSE drift

-----------------------------------------------------------------------------
(* The relays *)

\* startAutomaticEInvoice: queued in the bill's own transaction
Issue(b) ==
  /\ message[b] = "none" /\ lock = Nobody
  /\ message' = [message EXCEPT ![b] = "queued"]
  /\ UNCHANGED <<record, barred, claim, attempts, portal, call, lock, drift, losses>>

Take(r, b) ==
  /\ call[r] = Idle /\ message[b] = "queued" /\ claim[b] = Nobody
  /\ claim' = [claim EXCEPT ![b] = r]
  /\ call' = [call EXCEPT ![r] = [step |-> "claimed", op |-> "send", bill |-> b, seen |-> record[b], answer |-> "none"]]
  /\ UNCHANGED <<record, barred, message, attempts, portal, lock, drift, losses>>

Answered(p, answer) == call' = [call EXCEPT ![p].step = "answered", ![p].answer = answer]

Send(r) ==
  LET b == call[r].bill
  IN /\ record' = [record EXCEPT ![b] = Pending(@)]
     /\ call' = [call EXCEPT ![r].step = "asking", ![r].seen = Pending(record[b])]

\* Bug: a bill that is waiting for its answer is left waiting.
PrepareOnce(r) ==
  LET b == call[r].bill
  IN /\ call[r].step = "claimed" /\ lock = Nobody
     /\ IF record[b].status \in Finished \cup {"PENDING"} \/ b \in barred
        THEN Answered(r, "nothing") /\ UNCHANGED record
        ELSE Send(r)
     /\ UNCHANGED <<barred, message, claim, attempts, portal, lock, drift, losses>>

\* The unit of work before the call; it does not look whose the row is.  A
\* bill that is finished, or that the rules refuse, has nothing to ask.
Prepare(r) ==
  LET b == call[r].bill
  IN /\ call[r].step = "claimed" /\ lock = Nobody
     /\ IF record[b].status \in Finished \/ b \in barred
        THEN Answered(r, "nothing") /\ UNCHANGED record
        ELSE Send(r)
     /\ UNCHANGED <<barred, message, claim, attempts, portal, lock, drift, losses>>

Failed(b) ==
  /\ attempts' = [attempts EXCEPT ![b] = @ + 1]
  /\ message' = [message EXCEPT ![b] = IF attempts[b] + 1 = MaxAttempts THEN "dead" ELSE "queued"]
  /\ claim' = [claim EXCEPT ![b] = Nobody]
  /\ UNCHANGED record

\* The answer is saved in the transaction that marks the message sent, if the
\* row still carries this relay's token; a refused save is a failed attempt.
Finish(r) ==
  LET c == call[r]
      b == c.bill
      new == IF c.answer = "nothing" THEN record[b] ELSE Completed(c)
  IN /\ c.step = "answered" /\ lock = Nobody
     /\ IF claim[b] # r
        THEN UNCHANGED <<record, message, claim, attempts>>
        ELSE IF MayWrite(record[b], new)
        THEN /\ record' = [record EXCEPT ![b] = new]
             /\ message' = [message EXCEPT ![b] = "sent"]
             /\ claim' = [claim EXCEPT ![b] = Nobody]
             /\ UNCHANGED attempts
        ELSE Failed(b)
     /\ call' = [call EXCEPT ![r] = Idle]
     /\ UNCHANGED <<barred, portal, lock, losses>>
     /\ drift' = Drifted(b, claim[b] # r \/ (record[b].status = "CANCELLED" /\ record'[b].status = "REGISTERED"))

\* The handler fails for a reason of our own: the database is away, say.
Fail(r) ==
  LET b == call[r].bill
  IN /\ call[r].step \in {"claimed", "answered"} /\ claim[b] = r
     /\ losses < MaxLosses /\ losses' = losses + 1
     /\ Failed(b)
     /\ call' = [call EXCEPT ![r] = Idle]
     /\ UNCHANGED <<barred, portal, lock>>
     /\ drift' = Drifted(b, TRUE)

Die(r) ==
  /\ call[r] # Idle
  /\ losses < MaxLosses /\ losses' = losses + 1
  /\ call' = [call EXCEPT ![r] = Idle]
  /\ UNCHANGED <<record, barred, message, claim, attempts, portal, lock>>
  /\ drift' = Drifted(call[r].bill, TRUE)

Lapse(b) ==
  /\ claim[b] # Nobody
  /\ ~(LeasesHold /\ call[claim[b]] # Idle /\ call[claim[b]].bill = b)
  /\ claim' = [claim EXCEPT ![b] = Nobody]
  /\ UNCHANGED <<record, barred, message, attempts, portal, call, lock, drift, losses>>

-----------------------------------------------------------------------------
(* A request, or the retry of what waits: one unit of work *)

\* What is refused before the portal is asked, the cancellation window among
\* it, changes nothing.
Allowed(op, b) ==
  CASE op = "register" -> message[b] # "none" /\ record[b].status \notin Finished /\ b \notin barred
    [] op = "retry" -> record[b].status = "FAILED" /\ record[b].failure = "retry" /\ b \notin barred
    [] op = "reconcile" -> record[b].status # "none"
    [] op = "cancel" -> record[b].status = "REGISTERED"

Begin(p, op, b) ==
  /\ call[p] = Idle /\ lock = Nobody
  /\ Allowed(op, b)
  /\ lock' = p
  /\ call' = [call EXCEPT ![p] =
       [step |-> "asking", op |-> op, bill |-> b, answer |-> "none",
        seen |-> IF op \in {"register", "retry"} THEN Pending(record[b]) ELSE record[b]]]
  /\ UNCHANGED <<record, barred, message, claim, attempts, portal, drift, losses>>

\* What was written before the call and what the answer makes of it are
\* committed together; a write the trigger refuses undoes the request.
Commit(p) ==
  LET c == call[p]
      b == c.bill
  IN /\ lock = p /\ c.step = "answered"
     /\ record' = [record EXCEPT ![b] = IF MayWrite(@, Completed(c)) THEN Completed(c) ELSE @]
     /\ lock' = Nobody
     /\ call' = [call EXCEPT ![p] = Idle]
     /\ UNCHANGED <<barred, message, claim, attempts, portal, losses>>
     /\ drift' = Drifted(b, FALSE)

\* The process dies, or the commit is lost: nothing of the request is saved.
Undo(p) ==
  /\ lock = p
  /\ losses < MaxLosses /\ losses' = losses + 1
  /\ lock' = Nobody
  /\ call' = [call EXCEPT ![p] = Idle]
  /\ UNCHANGED <<record, barred, message, claim, attempts, portal>>
  /\ drift' = Drifted(call[p].bill, TRUE)

-----------------------------------------------------------------------------
(* The portal *)

\* IRNs are a function of the document: a second submission is a duplicate
\* with the number on record, whatever became of it.  A reply may be lost,
\* or be one that checkAcknowledgement does not believe.
Generate(p) ==
  LET b == call[p].bill
      held == IF portal[b] = "unknown" THEN "active" ELSE portal[b]
  IN /\ call[p].step = "asking" /\ call[p].op \in {"send", "register", "retry"}
     /\ \/ Answered(p, "registered") /\ portal' = [portal EXCEPT ![b] = held] /\ UNCHANGED drift
        \/ \E answer \in {"unavailable", "refused"} :
             /\ Answered(p, answer)
             /\ portal' \in {portal, [portal EXCEPT ![b] = held]}
             /\ drift' = IF portal'[b] # "unknown" THEN drift \cup {b} ELSE drift
     /\ UNCHANGED <<record, barred, message, claim, attempts, lock, losses>>

Fetch(p) ==
  LET b == call[p].bill
  IN /\ call[p].step = "asking" /\ call[p].op = "reconcile"
     /\ \/ Answered(p, "unavailable")
        \/ Answered(p, CASE portal[b] = "unknown" -> "notFound" [] portal[b] = "active" -> "registered"
                         [] portal[b] = "cancelled" -> "cancelled")
     /\ UNCHANGED <<record, barred, message, claim, attempts, portal, lock, drift, losses>>

\* The same key gets the same answer; a window that has closed, or any reason
\* of the portal's own, is a refusal.
Cancel(p) ==
  LET b == call[p].bill
      cancelled == [portal EXCEPT ![b] = "cancelled"]
  IN /\ call[p].step = "asking" /\ call[p].op = "cancel"
     /\ \/ Answered(p, "cancelled") /\ portal' = cancelled /\ UNCHANGED drift
        \/ Answered(p, "refused") /\ UNCHANGED <<portal, drift>>
        \/ /\ Answered(p, "unavailable")
           /\ portal' \in {portal, cancelled}
           /\ drift' = IF portal' # portal THEN drift \cup {b} ELSE drift
     /\ UNCHANGED <<record, barred, message, claim, attempts, lock, losses>>

\* The reporting limit passes, or what decides whether a number is needed changes.
Bar(b) ==
  /\ b \notin barred
  /\ barred' = barred \cup {b}
  /\ UNCHANGED <<record, message, claim, attempts, portal, call, lock, drift, losses>>

Next ==
  \/ \E b \in Bills : Issue(b) \/ Lapse(b) \/ Bar(b)
  \/ \E r \in Relays : (\E b \in Bills : Take(r, b)) \/ Prepare(r) \/ Finish(r) \/ Fail(r) \/ Die(r)
  \/ \E p \in People :
       \/ \E op \in {"register", "retry", "reconcile", "cancel"}, b \in Bills : Begin(p, op, b)
       \/ Commit(p) \/ Undo(p)
  \/ \E p \in Relays \cup People : Generate(p) \/ Fetch(p) \/ Cancel(p)

Spec == Init /\ [][Next]_vars

-----------------------------------------------------------------------------
InFlight(b) == \E p \in Relays \cup People : call[p] # Idle /\ call[p].bill = b

(* The screen never says more than the government does (einvoice-v1.md,      *)
(* "States are never confused"): a bill shown registered is on its record    *)
(* and one shown cancelled is cancelled there; and when nobody is working on *)
(* a bill, a difference is only ever the doing of an answer that was lost    *)
(* (einvoice-service.ts:262, 334), or of a relay's answer that was saved     *)
(* over a cancellation made while the relay was asking (:312), the one       *)
(* overwriting that the run einvoice_cancelled shows.                        *)
RecordsFollowPortal ==
  \A b \in Bills :
    /\ record[b].status \in Finished => portal[b] # "unknown"
    /\ record[b].status = "CANCELLED" => portal[b] = "cancelled"
    /\ b \in drift \/ InFlight(b) \/ Agree(record[b], portal[b])

(* A message that was sent leaves no bill waiting for an answer that nobody  *)
(* will bring: the retry looks at failed bills only                          *)
(* (demo-application.ts:3798-3800), whatever died on the way.                *)
SentIsSettled == \A b \in Bills : LeasesHold /\ message[b] = "sent" /\ b \notin barred => record[b].status # "PENDING"

(* "CANCELLED>REGISTERED (a reconcile finds the cancellation did not go      *)
(* through)" (database-immutability-v1.md:56): a cancelled bill is shown     *)
(* registered again only if it still is.                                     *)
CancelledStays ==
  [][\A b \in Bills : record[b].status = "CANCELLED" /\ record'[b].status = "REGISTERED" => portal[b] = "active"]_vars
=============================================================================
