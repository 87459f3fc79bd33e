----------------------------- MODULE MasterView -----------------------------
(***************************************************************************)
(* apps/api/src/master-data.ts: one process's copy of a company's master   *)
(* versions (customers, items), read by synchronous code.  Versions are    *)
(* append-only and numbered by a sequence; a refresh asks for the numbers  *)
(* after the last one it has.  Refreshes of one company take turns; an     *)
(* action that fails marks the copy stale and the next refresh builds a    *)
(* new one aside.  One company is modelled; every request works on it.     *)
(***************************************************************************)
EXTENDS Naturals, FiniteSets, FiniteSetsExt, SequencesExt

CONSTANTS
    Requests,
    Readers,     \* those that only read: no unit of work, so no company lock
    Elsewhere,   \* those served by another process on the same database
    None,
    Batch,       \* `limit` of versionsSince
    MaxVersions, \* bound: sequence numbers ever drawn
    ConnectionsEnd  \* whether the server may end an action's connection

VARIABLES
    saved,    \* committed version numbers
    next,     \* the sequence: numbers drawn are never given again
    holder,   \* the unit of work open for the company
    own,      \* [Requests -> numbers its transaction has written]
    dead,     \* [Requests -> BOOLEAN]: the server ended its connection
    phase,    \* [Requests -> Phases]
    current,  \* number of the copy in `views`; 0 when there is none
    copies,   \* [Nat -> [rows, upto, stale]]: every copy ever built
    chain,    \* `refreshing`: requests whose refresh has yet to finish, in turn
    filling,  \* the copy the first of them is filling; 0 before it starts
    batch,    \* what its query answered
    must,     \* history: [Requests -> what was committed when it asked]
    used      \* history: [Requests -> numbers its handler read]

vars == <<saved, next, holder, own, dead, phase, current, copies, chain, filling, batch, must, used>>

Phases == {"idle", "asking", "working", "failed", "done", "undone"}
Empty == [rows |-> {}, upto |-> 0, stale |-> FALSE]
Copy == copies[current]

-----------------------------------------------------------------------------
Init ==
    /\ saved = {}
    /\ next = 1
    /\ holder = None
    /\ own = [r \in Requests |-> {}]
    /\ dead = [r \in Requests |-> FALSE]
    /\ phase = [r \in Requests |-> "idle"]
    /\ current = 0
    /\ copies = <<>>
    /\ chain = <<>>
    /\ filling = 0
    /\ batch = {}
    /\ must = [r \in Requests |-> {}]
    /\ used = [r \in Requests |-> {}]

Here(r) == r \notin Elsewhere
Alive(r) == ~dead[r]
Mine(r) == IF Alive(r) THEN own[r] ELSE {}

(* The request starts: a writer's unit of work takes the company lock,     *)
(* then every request refreshes this process's copy (server.ts).           *)
Begin(r) ==
    /\ phase[r] = "idle"
    /\ r \notin Readers => holder = None
    /\ holder' = IF r \in Readers THEN holder ELSE r
    /\ phase' = [phase EXCEPT ![r] = IF Here(r) THEN "asking" ELSE "working"]
    /\ chain' = IF Here(r) THEN Append(chain, r) ELSE chain
    /\ must' = [must EXCEPT ![r] = saved]
    /\ UNCHANGED <<saved, next, own, dead, current, copies, filling, batch, used>>

(* A refresh whose turn it is picks the copy to fill: the one in use, or a *)
(* new one aside when there is none or it is stale.                        *)
Pick ==
    /\ chain # <<>> /\ filling = 0
    /\ IF current = 0 \/ Copy.stale
       THEN /\ copies' = Append(copies, Empty)
            /\ filling' = Len(copies) + 1
       ELSE filling' = current /\ UNCHANGED copies
    /\ batch' = {0}
    /\ UNCHANGED <<saved, next, holder, own, dead, phase, current, chain, must, used>>

After(S, n) == {s \in S : s > n}
LowestAny(S, n) == IF Cardinality(S) <= n THEN S ELSE {s \in S : Cardinality({t \in S : t > s}) < n}
Lowest(S, n) == {s \in S : Cardinality({t \in S : t < s}) < n}

(* versionsSince, inside the request's own transaction if it has one: the  *)
(* first Batch numbers after the last one held.                            *)
Query ==
    /\ filling # 0 /\ batch = {0}
    /\ Alive(Head(chain))
    /\ batch' = Lowest(After(saved \cup own[Head(chain)], copies[filling].upto), Batch)
    /\ UNCHANGED <<saved, next, holder, own, dead, phase, current, copies, chain, filling, must, used>>

(* The rows arrive and join the copy.  A full batch asks again; otherwise  *)
(* the copy is put in use and the next refresh has its turn.               *)
ArriveForgotten ==
    /\ filling # 0 /\ 0 \notin batch
    /\ copies' = [copies EXCEPT ![filling].rows = @ \cup batch,
                                ![filling].upto = IF batch = {} THEN @ ELSE Max(batch)]
    /\ batch' = {0}
    /\ filling' = 0
    /\ current' = filling
    /\ chain' = Tail(chain)
    /\ phase' = [phase EXCEPT ![Head(chain)] = "working"]
    /\ UNCHANGED <<saved, next, holder, own, dead, must, used>>
ArriveForever ==
    /\ filling # 0 /\ 0 \notin batch
    /\ copies' = [copies EXCEPT ![filling].rows = @ \cup batch,
                                ![filling].upto = IF batch = {} THEN @ ELSE Max(batch)]
    /\ batch' = {0}
    /\ UNCHANGED <<saved, next, holder, own, dead, phase, current, chain, filling, must, used>>
Arrive ==
    /\ filling # 0 /\ 0 \notin batch
    /\ copies' = [copies EXCEPT ![filling].rows = @ \cup batch,
                                ![filling].upto = IF batch = {} THEN @ ELSE Max(batch)]
    /\ batch' = {0}
    /\ IF Cardinality(batch) = Batch
       THEN UNCHANGED <<filling, current, chain, phase>>
       ELSE /\ filling' = 0
            /\ current' = filling
            /\ chain' = Tail(chain)
            /\ phase' = [phase EXCEPT ![Head(chain)] = "working"]
    /\ UNCHANGED <<saved, next, holder, own, dead, must, used>>

(* The query of a refresh fails with its connection; the next in the chain *)
(* has its turn, and the request fails.                                    *)
QueryFails ==
    /\ filling # 0 /\ batch = {0} /\ ~Alive(Head(chain))
    /\ filling' = 0
    /\ chain' = Tail(chain)
    /\ phase' = [phase EXCEPT ![Head(chain)] = "failed"]
    /\ UNCHANGED <<saved, next, holder, own, dead, current, copies, batch, must, used>>

(* writingMasters: a version is inserted and the copy refreshed for the    *)
(* code that follows.                                                      *)
WriteVersionHurried(r) ==
    /\ phase[r] = "working" /\ r \notin Readers /\ Alive(r) /\ next <= MaxVersions
    /\ own' = [own EXCEPT ![r] = @ \cup {next}]
    /\ next' = next + 1
    /\ chain' = IF Here(r) THEN Append(chain, r) ELSE chain
    /\ UNCHANGED <<saved, holder, dead, phase, current, copies, filling, batch, must, used>>
WriteVersion(r) ==
    /\ phase[r] = "working" /\ r \notin Readers /\ Alive(r) /\ next <= MaxVersions
    /\ own' = [own EXCEPT ![r] = @ \cup {next}]
    /\ next' = next + 1
    /\ chain' = IF Here(r) THEN Append(chain, r) ELSE chain
    /\ phase' = [phase EXCEPT ![r] = IF Here(r) THEN "asking" ELSE "working"]
    /\ UNCHANGED <<saved, holder, dead, current, copies, filling, batch, must, used>>

(* The handler reads masterView(company). *)
ReadView(r) ==
    /\ phase[r] = "working" /\ Here(r)
    /\ used' = [used EXCEPT ![r] = @ \cup Copy.rows]
    /\ ~(Copy.rows \subseteq used[r])
    /\ UNCHANGED <<saved, next, holder, own, dead, phase, current, copies, chain, filling, batch, must>>

Freed(r) == IF holder = r THEN None ELSE holder

Finish(r) ==
    /\ phase[r] = "working" /\ Alive(r)
    /\ saved' = saved \cup own[r]
    /\ holder' = Freed(r)
    /\ phase' = [phase EXCEPT ![r] = "done"]
    /\ UNCHANGED <<next, own, dead, current, copies, chain, filling, batch, must, used>>

(* The action fails: ROLLBACK frees the lock; the process hears of it next.*)
Fail(r) ==
    /\ phase[r] = "working"
    /\ holder' = Freed(r)
    /\ phase' = [phase EXCEPT ![r] = "failed"]
    /\ UNCHANGED <<saved, next, own, dead, current, copies, chain, filling, batch, must, used>>

(* The server ends the connection of an action at work. *)
ConnectionEnds(r) ==
    /\ ConnectionsEnd
    /\ phase[r] \in {"asking", "working"} /\ r \notin Readers /\ Alive(r)
    /\ Here(r)
    /\ dead' = [dead EXCEPT ![r] = TRUE]
    /\ holder' = Freed(r)
    /\ UNCHANGED <<saved, next, own, phase, current, copies, chain, filling, batch, must, used>>

(* onActionFailed(forgetMasterView): the copy in use is marked stale.  A   *)
(* read runs no hook, and another process has copies of its own.           *)
HookForgotten(r) ==
    /\ phase[r] = "failed"
    /\ phase' = [phase EXCEPT ![r] = "undone"]
    /\ UNCHANGED <<saved, next, holder, own, dead, current, copies, chain, filling, batch, must, used>>
Hook(r) ==
    /\ phase[r] = "failed"
    /\ copies' = IF current # 0 /\ Here(r) /\ r \notin Readers
                 THEN [copies EXCEPT ![current].stale = TRUE] ELSE copies
    /\ phase' = [phase EXCEPT ![r] = "undone"]
    /\ UNCHANGED <<saved, next, holder, own, dead, current, chain, filling, batch, must, used>>

AtRest == \A r \in Requests : phase[r] \in {"idle", "done", "undone"}
Stop == AtRest /\ UNCHANGED vars

Next ==
    \/ \E r \in Requests :
        Begin(r) \/ WriteVersion(r) \/ ReadView(r) \/ Finish(r) \/ Fail(r) \/ ConnectionEnds(r) \/ Hook(r)
    \/ Pick \/ Query \/ Arrive \/ QueryFails
    \/ Stop

Spec == Init /\ [][Next]_vars

(* Queries are answered and handlers end. *)
Fairness ==
    /\ WF_vars(Pick \/ Query \/ Arrive \/ QueryFails)
    /\ \A r \in Requests : WF_vars(Finish(r) \/ Fail(r)) /\ WF_vars(Hook(r))
FairSpec == Spec /\ Fairness

-----------------------------------------------------------------------------
Numbers == 0 .. MaxVersions

TypeOK ==
    /\ saved \subseteq Numbers /\ next \in 1 .. MaxVersions + 1
    /\ holder \in Requests \cup {None}
    /\ {own, must, used} \subseteq [Requests -> SUBSET Numbers]
    /\ dead \in [Requests -> BOOLEAN]
    /\ phase \in [Requests -> Phases]
    /\ copies \in Seq([rows : SUBSET Numbers, upto : Numbers, stale : BOOLEAN])
    /\ current \in 0 .. Len(copies) /\ filling \in 0 .. Len(copies)
    /\ chain \in Seq(Requests) /\ batch \subseteq Numbers
    \* a request waits for one refresh at a time
    /\ \A r \in Requests : phase[r] = "asking" <=> r \in ToSet(chain)
    /\ IsInjective(chain)

(* The copy has every saved version up to the last number it holds: asking *)
(* only for what comes after never skips one, whoever wrote it and in      *)
(* whatever order the actions committed.                                   *)
NothingSkipped ==
    current # 0 => \A s \in saved : s <= Copy.upto => s \in Copy.rows

(* Once its refresh is over, a request finds every version that had been   *)
(* committed when it came in, and every one of its own.                    *)
FreshAtStart ==
    \A r \in Requests : phase[r] = "working" /\ Here(r) =>
        must[r] \cup Mine(r) \subseteq Copy.rows

(* When no request is at work, a copy that is not marked stale holds only  *)
(* versions that were saved: it can be behind, never wrong.                *)
BehindNeverWrong == AtRest /\ current # 0 /\ ~Copy.stale => Copy.rows \subseteq saved

(* An action that was saved relied only on versions that are saved.        *)
BuiltOnSaved ==
    \A r \in Requests \ Readers : phase[r] = "done" => used[r] \subseteq saved

(* A refresh is never left waiting by the ones before it.                  *)
EveryRefreshEnds == []<>(chain = <<>>)
=============================================================================
