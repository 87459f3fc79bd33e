------------------------------- MODULE EwayBill -------------------------------
(* The permit that one movement of goods needs on the road                   *)
(* (packages/transport/src/service.ts) and the portal that gives it          *)
(* (adapters.ts: ewayBillAdapter and the portal the server is built with).   *)
(*                                                                           *)
(* A request is one unit of work, one at a time, the portal's answer         *)
(* awaited inside it.  An answer may be lost, and a unit may fail after it;  *)
(* what the portal did stays done.  Under a key it has answered before, the  *)
(* portal says what it said then and does nothing.                           *)
(*                                                                           *)
(* Time runs in ticks.  Left out: whether goods need a permit and what is    *)
(* said of them, distances, trip sheets, bills that the portal forgets, and  *)
(* PENDING, which no other request sees.                                     *)
EXTENDS Integers, FiniteSets

CONSTANTS
    Vehicles, None,
    Validity,                   \* ticks that a permit runs, or runs on once extended
    CancelWindow, RejectWindow, \* ticks after it was raised
    Around,                     \* ticks before and after its end in which it is extended
    MaxNow, MaxLosses,
    MaxKeys                     \* bound: the different requests that reach the portal

VARIABLES
    record, \* the row of eway_bills
    portal, \* what the government holds
    said,   \* what it answered, by key
    now,
    drift,  \* history: what the record may no longer say as the portal holds it
    losses

vars == <<record, portal, said, now, drift, losses>>

Ended == {"CANCELLED", "REJECTED"}
Raised == {"PART_A_ONLY", "ACTIVE"} \cup Ended
Ticks == 0..(MaxNow + Validity)
Permits == [status : Raised, at : Ticks, until : Ticks \cup {None}, vehicle : Vehicles \cup {None}, checked : BOOLEAN]
Requests == [do : {"generate", "vehicle"}, with : Vehicles] \cup [do : {"generate", "transporter", "extend", "cancel", "reject", "fetch"}, with : {None}]

TypeOK ==
    /\ record \in [status : {"NONE", "FAILED"} \cup Raised, raised : Ticks \cup {None}, until : Ticks \cup {None}, vehicle : Vehicles \cup {None}]
    /\ record.status \in Raised <=> record.raised # None
    /\ portal \in {None} \cup Permits
    /\ \A k \in DOMAIN said : said[k] \in [status : Raised, at : Ticks, until : Ticks \cup {None}]
    /\ now \in 0..MaxNow /\ losses \in 0..MaxLosses
    /\ drift \subseteq {"status", "vehicle"}

Init ==
    /\ record = [status |-> "NONE", raised |-> None, until |-> None, vehicle |-> None]
    /\ portal = None
    /\ said = [k \in {} |-> None]
    /\ now = 0 /\ drift = {} /\ losses = 0

-----------------------------------------------------------------------------
(* The portal *)

Key(r) == IF r.do = "vehicle" THEN <<r.do, r.with>> ELSE IF r.do = "extend" THEN <<r.do, record.until>> ELSE <<r.do>>
Known(r) == Key(r) \in DOMAIN said

Cancellable == portal.status # "CANCELLED" /\ ~portal.checked /\ now - portal.at <= CancelWindow
Rejectable == portal.status # "CANCELLED" /\ now - portal.at <= RejectWindow

Accepts(r) ==
    CASE r.do = "generate" -> portal = None
      [] r.do = "vehicle" -> portal.status \notin Ended
      [] r.do = "extend" -> portal.until # None /\ now \in (portal.until - Around)..(portal.until + Around)
      [] r.do = "cancel" -> Cancellable
      [] r.do = "reject" -> Rejectable
      [] r.do \in {"transporter", "fetch"} -> TRUE

\* The permit's time starts with its first vehicle and not again with the next.
Done(r) ==
    CASE r.do = "generate" ->
           [status |-> IF r.with = None THEN "PART_A_ONLY" ELSE "ACTIVE", at |-> now,
            until |-> IF r.with = None THEN None ELSE now + Validity, vehicle |-> r.with, checked |-> FALSE]
      [] r.do = "vehicle" ->
           [portal EXCEPT !.status = "ACTIVE", !.vehicle = r.with, !.until = IF @ = None THEN now + Validity ELSE @]
      [] r.do = "extend" -> [portal EXCEPT !.status = "ACTIVE", !.until = now + Validity]
      [] r.do = "cancel" -> [portal EXCEPT !.status = "CANCELLED"]
      [] r.do = "reject" -> [portal EXCEPT !.status = "REJECTED"]
      [] r.do \in {"transporter", "fetch"} -> portal

Answer(r) == IF Known(r) THEN said[Key(r)] ELSE LET p == Done(r) IN [status |-> p.status, at |-> p.at, until |-> p.until]

\* The portal has the request, and acts on it unless it has answered it before.
Acted(r) ==
    /\ Known(r) \/ (Accepts(r) /\ Cardinality(DOMAIN said) < MaxKeys)
    /\ portal' = IF Known(r) THEN portal ELSE Done(r)
    /\ said' = [k \in DOMAIN said \cup {Key(r)} |-> IF k = Key(r) THEN Answer(r) ELSE said[k]]

-----------------------------------------------------------------------------
(* The service *)

Expired == record.status = "ACTIVE" /\ record.until <= now
Live == record.raised # None /\ record.status \notin Ended /\ ~Expired

MayAsk(r) ==
    CASE r.do = "generate" -> record.status \in {"NONE", "FAILED"}
      [] r.do \in {"vehicle", "transporter"} -> Live
      [] r.do = "extend" -> record.until # None /\ record.status \notin Ended /\ now \in (record.until - Around)..(record.until + Around)
      [] r.do = "cancel" -> record.raised # None /\ record.status # "CANCELLED" /\ now < record.raised + CancelWindow
      [] r.do = "reject" -> record.raised # None /\ now - record.raised <= RejectWindow
      [] r.do = "fetch" -> record.raised # None

\* Bug: another vehicle gives the permit its days again.
WrittenAnew(r, a) ==
    CASE r.do = "generate" ->
           [status |-> IF r.with = None THEN "PART_A_ONLY" ELSE "ACTIVE", raised |-> a.at, until |-> a.until, vehicle |-> r.with]
      [] r.do = "vehicle" -> [record EXCEPT !.status = "ACTIVE", !.until = now + Validity, !.vehicle = r.with]
      [] r.do = "extend" -> [record EXCEPT !.status = "ACTIVE", !.until = a.until]
      [] r.do = "transporter" -> [record EXCEPT !.until = a.until]
      [] r.do \in {"cancel", "reject"} -> [record EXCEPT !.status = IF r.do = "cancel" THEN "CANCELLED" ELSE "REJECTED"]
      [] r.do = "fetch" -> [record EXCEPT !.status = a.status, !.until = a.until]

\* What a request writes once it has its answer.
Written(r, a) ==
    CASE r.do = "generate" ->
           [status |-> IF r.with = None THEN "PART_A_ONLY" ELSE "ACTIVE", raised |-> a.at, until |-> a.until, vehicle |-> r.with]
      [] r.do = "vehicle" -> [record EXCEPT !.status = "ACTIVE", !.until = a.until, !.vehicle = r.with]
      [] r.do = "extend" -> [record EXCEPT !.status = "ACTIVE", !.until = a.until]
      [] r.do = "transporter" -> [record EXCEPT !.until = a.until]
      [] r.do \in {"cancel", "reject"} -> [record EXCEPT !.status = IF r.do = "cancel" THEN "CANCELLED" ELSE "REJECTED"]
      [] r.do = "fetch" -> [record EXCEPT !.status = a.status, !.until = a.until]

\* Bug: the table takes any row.
MayStandAnyhow(row) == TRUE

\* active_has_validity: without it goods would move on a permit that has no vehicle.
MayStand(row) == row.status = "ACTIVE" => row.until # None

Touches(r) == IF r.do \in {"generate", "vehicle"} THEN {"status", "vehicle"} ELSE {"status"}
Settles(r) == IF r.do = "vehicle" THEN {"status", "vehicle"} ELSE IF r.do \in {"extend", "fetch"} THEN {"status"} ELSE {}

Ask(r) ==
    /\ MayAsk(r) /\ Acted(r) /\ MayStand(Written(r, Answer(r)))
    /\ record' = Written(r, Answer(r))
    /\ drift' = IF Known(r) THEN drift \cup Touches(r) ELSE drift \ Settles(r)
    /\ UNCHANGED <<now, losses>>

\* The portal acts, and then its answer is lost, of which generate keeps that it
\* failed, or the unit of work is undone.
Lose(r) ==
    /\ MayAsk(r) /\ ~Known(r) /\ Acted(r)
    /\ losses < MaxLosses /\ losses' = losses + 1
    /\ record' \in {record} \cup (IF r.do = "generate" THEN {[record EXCEPT !.status = "FAILED"]} ELSE {})
    /\ drift' = IF r.do \in {"transporter", "fetch"} THEN drift ELSE drift \cup Touches(r)
    /\ UNCHANGED now

\* The portal is out of reach, or refuses what it is told.
GenerateFails ==
    /\ record.status = "NONE"
    /\ record' = [record EXCEPT !.status = "FAILED"]
    /\ UNCHANGED <<portal, said, now, drift, losses>>

-----------------------------------------------------------------------------
(* Others, at the portal: the other party, its own screen, an officer        *)

Elsewhere(status) ==
    /\ portal # None /\ status # portal.status
    /\ IF status = "CANCELLED" THEN Cancellable ELSE Rejectable
    /\ portal' = [portal EXCEPT !.status = status]
    /\ drift' = drift \cup {"status"}
    /\ UNCHANGED <<record, said, now, losses>>

Check ==
    /\ portal # None /\ ~portal.checked
    /\ portal' = [portal EXCEPT !.checked = TRUE]
    /\ UNCHANGED <<record, said, now, drift, losses>>

Tick == now < MaxNow /\ now' = now + 1 /\ UNCHANGED <<record, portal, said, drift, losses>>

Next ==
    \/ \E r \in Requests : Ask(r) \/ Lose(r)
    \/ GenerateFails
    \/ \E status \in Ended : Elsewhere(status)
    \/ Check
    \/ Tick

Spec == Init /\ [][Next]_vars

-----------------------------------------------------------------------------
\* Whatever is lost, repeated or done elsewhere, the goods are never shown a permit
\* that lasts longer than the portal's, nor one to move by that has no vehicle
\* there (service.ts:5-13); and but for that, the record says what the portal holds.
PermitsAreReal ==
    /\ record.until # None => portal.until # None /\ record.until <= portal.until
    /\ record.status = "ACTIVE" => portal.vehicle # None
    /\ record.raised = None /\ drift = {} => portal = None
    /\ record.raised # None /\ "status" \notin drift => record.status = portal.status /\ record.until = portal.until
    /\ record.raised # None /\ "vehicle" \notin drift => record.vehicle = portal.vehicle
=============================================================================
