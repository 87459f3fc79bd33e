------------------------------ MODULE Migration ------------------------------
(* Bringing a business's customers, stock and opening balances in from files *)
(* of another program (packages/migration/src/service.ts): analysed,         *)
(* approved, committed row by row, and taken back out as a whole.  A commit  *)
(* may fail at any row, and what it wrote is then taken out again; a retry   *)
(* writes under the same keys.  Several requests may be under way.           *)
(*                                                                           *)
(* A file holds names of customers (items are brought in the same way),      *)
(* counts of goods, one piece each, or a trial balance, which is one voucher.*)
(* Its rows are taken in order; a request knows them by their place.         *)
(* Left out: how a file is read and mapped, near duplicates, batch numbers of *)
(* goods, a difference accepted in a trial balance, and the accounts opened  *)
(* for it, which stay.                                                       *)
EXTENDS Integers, Sequences, FiniteSets, FiniteSetsExt

CONSTANTS
    Files, Kind, RowsOf,    \* [Files -> {"names", "stock", "balances"}], [Files -> sequences of rows]
    Already,                \* the names the business has
    Callers,
    MaxBatches, MaxVersions, MaxFails   \* bounds: analyses, changes of a batch, failures

VARIABLES
    batches,    \* the import batches, in the order they were analysed
    brought,    \* what each of them brought in, per row: nothing, what stands, what was taken out
    names,      \* the names switched on
    sold,       \* goods sold, per row of a count
    callers,    \* what each request is doing
    disturbed,  \* batches that may not know of a write (a failed commit left it, or another
                \* commit of names brought it), or whose goods others moved during their rollback
    failed,     \* batches of which a commit has failed
    fails

vars == <<batches, brought, names, sold, callers, disturbed, failed, fails>>

AllRows == UNION {{RowsOf[f][i] : i \in DOMAIN RowsOf[f]} : f \in Files}
Ids == 1..MaxBatches
KindOf(b) == Kind[batches[b].file]
RowAt(b, i) == RowsOf[batches[b].file][i]
Idle == [at |-> "idle", batch |-> 0, version |-> 0, rows |-> {}, done |-> {}]
States == {"ANALYSED", "MAPPING_APPROVED", "COMMITTED", "ROLLED_BACK", "REJECTED_DUPLICATE"}
Open == {"ANALYSED", "MAPPING_APPROVED"}
Places == UNION {DOMAIN RowsOf[f] : f \in Files}

TypeOK ==
    /\ Len(batches) <= MaxBatches
    /\ \A b \in DOMAIN batches :
         /\ DOMAIN batches[b] = {"file", "state", "version", "written"}
         /\ batches[b].file \in Files /\ batches[b].state \in States
         /\ batches[b].version \in 1..MaxVersions + 2 /\ batches[b].written \subseteq Places
    /\ brought \in [Ids -> [AllRows -> {"none", "in", "out"}]]
    /\ names \subseteq AllRows /\ sold \in [AllRows -> Nat]
    /\ \A c \in Callers :
         /\ callers[c].at \in {"idle", "write", "unwind", "back"} /\ callers[c].batch \in 0..MaxBatches
         /\ callers[c].rows \cup callers[c].done \subseteq Places
    /\ disturbed \subseteq Ids /\ failed \subseteq Ids /\ fails \in 0..MaxFails

Init ==
    /\ batches = <<>> /\ brought = [b \in Ids |-> [r \in AllRows |-> "none"]]
    /\ names = Already /\ sold = [r \in AllRows |-> 0]
    /\ callers = [c \in Callers |-> Idle]
    /\ disturbed = {} /\ failed = {} /\ fails = 0

Rests(c) == callers' = [callers EXCEPT ![c] = Idle]

-----------------------------------------------------------------------------
(* The batch: compare and set on its version                                 *)

\* The last batch of the same bytes (findByDigest)
SameFile(f) == {b \in DOMAIN batches : batches[b].file = f}
Last(S) == CHOOSE b \in S : \A e \in S : e <= b

IsRepeat(f) == SameFile(f) # {} /\ batches[Last(SameFile(f))].state = "COMMITTED"

Analyse(f) ==
    /\ Len(batches) < MaxBatches
    /\ batches' = Append(batches, [file |-> f, state |-> IF IsRepeat(f) THEN "REJECTED_DUPLICATE" ELSE "ANALYSED",
                                   version |-> 1, written |-> {}])
    /\ UNCHANGED <<brought, names, sold, callers, disturbed, failed, fails>>

ApproveMapping(b) ==
    /\ batches[b].state \in Open /\ batches[b].version < MaxVersions
    /\ batches' = [batches EXCEPT ![b].state = "MAPPING_APPROVED", ![b].version = @ + 1]
    /\ UNCHANGED <<brought, names, sold, callers, disturbed, failed, fails>>

\* Bug: whoever comes last writes over the batch.
UpdatesAnyway(b, version, state, written) ==
    batches' = [batches EXCEPT ![b] = [@ EXCEPT !.state = state, !.version = version + 1, !.written = written]]
Updates(b, version, state, written) ==
    batches' = IF batches[b].version # version THEN batches
               ELSE [batches EXCEPT ![b] = [@ EXCEPT !.state = state, !.version = version + 1, !.written = written]]

-----------------------------------------------------------------------------
(* Bringing in (commit)                                                      *)

MadeOf(r) == {b \in Ids : brought[b][r] # "none"}
Known(b, r) == r \in Already \/ MadeOf(r) # {}
Accepted(b) == {i \in DOMAIN RowsOf[batches[b].file] : KindOf(b) # "names" \/ ~Known(b, RowAt(b, i))}

Commit(c, b) ==
    /\ callers[c] = Idle
    /\ batches[b].state = "MAPPING_APPROVED" /\ Accepted(b) # {}
    /\ callers' = [callers EXCEPT ![c] = [at |-> "write", batch |-> b, version |-> batches[b].version, rows |-> Accepted(b), done |-> {}]]
    /\ disturbed' = IF KindOf(b) = "names" /\ \E d \in Callers : callers[d].at = "write" /\ callers[d].batch = b
                  THEN disturbed \cup {b} ELSE disturbed
    /\ UNCHANGED <<batches, brought, names, sold, failed, fails>>

Brings(b, r) == brought' = [brought EXCEPT ![b][r] = "in"]
Place(c) == Min(callers[c].rows)
Row(c) == RowAt(callers[c].batch, Place(c))
Onwards(c) == [callers[c] EXCEPT !.rows = @ \ {Place(c)}]
Passes(c) == callers' = [callers EXCEPT ![c] = Onwards(c)]
Written(c) == callers' = [callers EXCEPT ![c] = [Onwards(c) EXCEPT !.done = @ \cup {Place(c)}]]

\* Bug: what an earlier import brought is taken for this one's.
IsOursAny(b, r) == MadeOf(r) # {}
IsOurs(b, r) == brought[b][r] # "none"

\* Under the key of its batch and row: what is there already is what is answered.
Write(c) ==
    LET id == callers[c].batch
        row == Row(c)
    IN /\ callers[c].at = "write" /\ callers[c].rows # {}
       /\ \/ IsOurs(id, row) /\ Written(c) /\ UNCHANGED <<brought, names>>
          \/ /\ ~IsOurs(id, row) /\ KindOf(id) = "names" /\ Known(id, row)
             /\ Passes(c) /\ UNCHANGED <<brought, names>>
          \/ /\ ~IsOurs(id, row) /\ ~(KindOf(id) = "names" /\ Known(id, row))
             /\ Brings(id, row) /\ Written(c)
             /\ names' = IF KindOf(id) = "names" THEN names \cup {row} ELSE names
       /\ UNCHANGED <<batches, sold, disturbed, failed, fails>>

\* A write, or reading back what was written, fails: what this commit wrote is taken out.
Unwinds(c) ==
    /\ callers[c].at = "write" /\ fails < MaxFails /\ fails' = fails + 1
    /\ failed' = failed \cup {callers[c].batch}
    /\ callers' = [callers EXCEPT ![c] = [@ EXCEPT !.at = "unwind", !.rows = callers[c].done]]

Fail(c) ==
    /\ Unwinds(c) /\ (callers[c].rows # {} \/ KindOf(callers[c].batch) # "names")
    /\ UNCHANGED <<batches, brought, names, sold, disturbed>>

\* The customer is saved and the address refused: the commit does not know of the customer.
FailAtAddress(c) ==
    LET id == callers[c].batch
        row == Row(c)
    IN /\ Unwinds(c) /\ callers[c].rows # {} /\ KindOf(id) = "names" /\ ~Known(id, row)
       /\ Brings(id, row) /\ names' = names \cup {row} /\ disturbed' = disturbed \cup {id}
       /\ UNCHANGED <<batches, sold>>

Committed(c) ==
    /\ callers[c].at = "write" /\ callers[c].rows = {} /\ Rests(c)
    /\ Updates(callers[c].batch, callers[c].version, "COMMITTED", callers[c].done)
    /\ UNCHANGED <<brought, names, sold, disturbed, failed, fails>>

-----------------------------------------------------------------------------
(* Taking out (rollback, #unwind)                                            *)

Holding(r) == {b \in DOMAIN batches : KindOf(b) = "stock" /\ brought[b][r] = "in"}
Physical(r) == Cardinality(Holding(r)) - sold[r]

\* Batches other than this one that are being rolled back.
TakingOut(b) == {callers[c].batch : c \in {d \in Callers : callers[d].at = "back"}} \ {b}

Sell(r) ==
    /\ Physical(r) > 0 /\ sold' = [sold EXCEPT ![r] = @ + 1]
    /\ disturbed' = disturbed \cup TakingOut(0)
    /\ UNCHANGED <<batches, brought, names, callers, failed, fails>>

\* Bug: the goods are not looked for before the import is taken out.
CanReverseAlways(b) == TRUE
CanReverse(b) ==
    KindOf(b) = "stock" => \A i \in batches[b].written : Physical(RowAt(b, i)) >= 1

Rollback(c, b) ==
    /\ callers[c] = Idle /\ batches[b].state = "COMMITTED" /\ CanReverse(b)
    /\ callers' = [callers EXCEPT ![c] = [at |-> "back", batch |-> b, version |-> batches[b].version,
                                          rows |-> batches[b].written, done |-> batches[b].written]]
    /\ UNCHANGED <<batches, brought, names, sold, disturbed, failed, fails>>

MayLeave(b, r) == KindOf(b) = "stock" /\ brought[b][r] = "in" => Physical(r) >= 1

\* Bug: a name is switched off though it stood before the import.
SwitchedOffLate(b, r) == names \ {RowsOf[batches[b].file][i] : i \in DOMAIN RowsOf[batches[b].file]}
SwitchedOff(b, r) == IF KindOf(b) = "names" THEN names \ {r} ELSE names

TakeOut(c) ==
    LET id == callers[c].batch
        row == Row(c)
    IN /\ callers[c].at \in {"unwind", "back"} /\ callers[c].rows # {}
       /\ \/ /\ MayLeave(id, row) /\ brought' = [brought EXCEPT ![id][row] = "out"] /\ names' = SwitchedOff(id, row)
             /\ Passes(c)
             /\ disturbed' = IF KindOf(id) = "stock" THEN disturbed \cup TakingOut(id) ELSE disturbed
          \/ /\ ~MayLeave(id, row) /\ Rests(c) /\ UNCHANGED <<brought, names>>
             /\ disturbed' = IF callers[c].at = "unwind" THEN disturbed \cup {id} ELSE disturbed
       /\ UNCHANGED <<batches, sold, failed, fails>>

TakenOut(c) ==
    /\ callers[c].at \in {"unwind", "back"} /\ callers[c].rows = {} /\ Rests(c)
    /\ IF callers[c].at = "back"
       THEN Updates(callers[c].batch, callers[c].version, "ROLLED_BACK", callers[c].done)
       ELSE UNCHANGED batches
    /\ UNCHANGED <<brought, names, sold, disturbed, failed, fails>>

Next ==
    \/ \E f \in Files : Analyse(f)
    \/ \E b \in DOMAIN batches : ApproveMapping(b) \/ \E c \in Callers : Commit(c, b) \/ Rollback(c, b)
    \/ \E c \in Callers : Write(c) \/ Fail(c) \/ FailAtAddress(c) \/ Committed(c) \/ TakeOut(c) \/ TakenOut(c)
    \/ \E r \in AllRows : Sell(r)

Spec == Init /\ [][Next]_vars

-----------------------------------------------------------------------------
(* What the business had before is never switched off by an import           *)
(* (duplicates.ts:12), and a name is on exactly while an import stands.      *)
OthersUntouched ==
    /\ Already \subseteq names
    /\ \A b \in DOMAIN batches : KindOf(b) = "names" =>
         \A r \in AllRows : brought[b][r] = "in" => r \in names

AtRest(b) == \A c \in Callers : callers[c].batch # b

(* An import that was taken out left nothing behind, whoever else was        *)
(* committing it, unless a failed commit had left something (service.ts:507).*)
TakenOutWhole ==
    \A b \in DOMAIN batches : batches[b].state = "ROLLED_BACK" /\ b \notin disturbed /\ AtRest(b) =>
        \A r \in AllRows : brought[b][r] # "in"

(* A committed import that never failed stands whole until it is taken out   *)
(* whole: goods already sold stop a rollback before it moves any             *)
(* (service.ts:393, 488).                                                    *)
StandsWhole ==
    \A b \in DOMAIN batches :
        batches[b].state = "COMMITTED" /\ b \notin failed \cup disturbed /\ AtRest(b) =>
            \A i \in batches[b].written : brought[b][RowAt(b, i)] = "in"
=============================================================================
