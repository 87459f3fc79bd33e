----------------------------- MODULE UnitOfWork -----------------------------
(***************************************************************************)
(* The unit of work of packages/platform/src/database.ts: a pool of        *)
(* connections, one write lock per company, savepoints for nested units,   *)
(* and the ways a unit ends.  A unit runs in one transaction; a nested     *)
(* unit of the same company is a frame of it.  `outsideUnitOfWork` lets a  *)
(* request that already holds a unit open another one beside it and wait   *)
(* for it: those units are `Beside`.                                       *)
(***************************************************************************)
EXTENDS Naturals, FiniteSets, SequencesExt

CONSTANTS
    Units,      \* the units of work requests open
    Beside,     \* those opened through outsideUnitOfWork, from inside another
    Companies,
    None,
    PoolSize,   \* `max` of the pool
    MaxWrites,  \* bound: statements that write, per unit
    MaxNested   \* bound: nested units opened, per unit

ASSUME UnitOfWorkAssumption ==
    /\ Beside \subseteq Units
    /\ None \notin Units \cup Companies
    /\ PoolSize \in Nat \ {0}
    /\ MaxWrites \in Nat
    /\ MaxNested \in Nat

VARIABLES
    phase,    \* [Units -> Phases]
    company,  \* [Units -> Companies \cup {None}]: the company it was opened for
    parent,   \* [Units -> Units \cup {None}]: the unit waiting for this one
    frames,   \* [Units -> Seq(set of writes)]: the unit and its open savepoints
    nested,   \* [Units -> Nat]: savepoints so far, `open.savepoints`
    aborted,  \* [Units -> BOOLEAN]: a statement failed, the transaction is aborted
    dead,     \* [Units -> BOOLEAN]: the server has ended its connection
    lock,     \* [Companies -> Units \cup {None}]: pg_advisory_xact_lock
    books,    \* [Companies -> set of writes]: what is committed
    answer,   \* [Units -> Answers]: what its caller was told
    seen,     \* history: the books of its company when its work began
    made,     \* history: the writes it made
    undone    \* history: those made in a nested unit that failed

vars == <<phase, company, parent, frames, nested, aborted, dead, lock, books, answer, seen, made, undone>>

Phases == {"idle", "connecting", "locking", "open", "committing", "committed", "rolledback", "told"}
Answers == {"none", "saved", "busy", "error"}
Writes == Units \X (1 .. MaxWrites)

-----------------------------------------------------------------------------
Holding == {"locking", "open", "committing", "committed", "rolledback"}
Holders == {u \in Units : phase[u] \in Holding}
Room == Cardinality(Holders) < PoolSize

(* The unit's own code is suspended while it waits for a unit beside it.   *)
Blocked(u) == \E k \in Units : parent[k] = u /\ phase[k] \notin {"idle", "told"}
Running(u) == phase[u] = "open" /\ ~Blocked(u)
Usable(u) == Running(u) /\ ~aborted[u] /\ ~dead[u]

LockAfterLeak(u) == lock
LockAfter(u) == [c \in Companies |-> IF lock[c] = u THEN None ELSE lock[c]]
MadeBy(u) == {w \in Writes : w[1] = u}

Init ==
    /\ phase = [u \in Units |-> "idle"]
    /\ company = [u \in Units |-> None]
    /\ parent = [u \in Units |-> None]
    /\ frames = [u \in Units |-> <<>>]
    /\ nested = [u \in Units |-> 0]
    /\ aborted = [u \in Units |-> FALSE]
    /\ dead = [u \in Units |-> FALSE]
    /\ lock = [c \in Companies |-> None]
    /\ books = [c \in Companies |-> {}]
    /\ answer = [u \in Units |-> "none"]
    /\ seen = [u \in Units |-> {}]
    /\ made = [u \in Units |-> {}]
    /\ undone = [u \in Units |-> {}]

Tell(u, what) == phase' = [phase EXCEPT ![u] = "told"] /\ answer' = [answer EXCEPT ![u] = what]

(* unitOfWork with none open: the unit asks the pool for a connection.     *)
Start(u, c) ==
    /\ phase[u] = "idle" /\ u \notin Beside
    /\ phase' = [phase EXCEPT ![u] = "connecting"]
    /\ company' = [company EXCEPT ![u] = c]
    /\ UNCHANGED <<parent, frames, nested, aborted, dead, lock, books, answer, seen, made, undone>>

(* outsideUnitOfWork(() => unitOfWork(c, ...)): no unit counts as open, so *)
(* the work opens one of its own, and the unit around it waits.            *)
StartBeside(p, u, c) ==
    /\ Running(p)
    /\ phase[u] = "idle" /\ u \in Beside
    /\ phase' = [phase EXCEPT ![u] = "connecting"]
    /\ company' = [company EXCEPT ![u] = c]
    /\ parent' = [parent EXCEPT ![u] = p]
    /\ UNCHANGED <<frames, nested, aborted, dead, lock, books, answer, seen, made, undone>>

(* pool.connect(), then BEGIN. *)
Connect(u) ==
    /\ phase[u] = "connecting" /\ Room
    /\ phase' = [phase EXCEPT ![u] = "locking"]
    /\ UNCHANGED <<company, parent, frames, nested, aborted, dead, lock, books, answer, seen, made, undone>>

(* connectionTimeoutMillis passes with every connection in use. *)
ConnectTimeout(u) ==
    /\ phase[u] = "connecting" /\ ~Room
    /\ Tell(u, "busy")
    /\ UNCHANGED <<company, parent, frames, nested, aborted, dead, lock, books, seen, made, undone>>

(* pg_advisory_xact_lock is granted and the action's own code starts.      *)
TakeLockUnchecked(u) ==
    /\ phase[u] = "locking" /\ ~dead[u]
    /\ lock' = [lock EXCEPT ![company[u]] = u]
    /\ phase' = [phase EXCEPT ![u] = "open"]
    /\ frames' = [frames EXCEPT ![u] = <<{}>>]
    /\ seen' = [seen EXCEPT ![u] = books[company[u]]]
    /\ UNCHANGED <<company, parent, nested, aborted, dead, books, answer, made, undone>>
TakeLock(u) ==
    /\ phase[u] = "locking" /\ ~dead[u]
    /\ lock[company[u]] = None
    /\ lock' = [lock EXCEPT ![company[u]] = u]
    /\ phase' = [phase EXCEPT ![u] = "open"]
    /\ frames' = [frames EXCEPT ![u] = <<{}>>]
    /\ seen' = [seen EXCEPT ![u] = books[company[u]]]
    /\ UNCHANGED <<company, parent, nested, aborted, dead, books, answer, made, undone>>

(* lock_timeout passes while another unit holds the company's lock.        *)
LockTimeoutNever(u) == FALSE /\ UNCHANGED vars
LockTimeout(u) ==
    /\ phase[u] = "locking" /\ ~dead[u]
    /\ lock[company[u]] # None
    /\ Tell(u, "busy")
    /\ UNCHANGED <<company, parent, frames, nested, aborted, dead, lock, books, seen, made, undone>>

(* unitOfWork for the company already open: SAVEPOINT. *)
NestUncounted(u) ==
    /\ Usable(u) /\ nested[u] < MaxNested
    /\ frames' = [frames EXCEPT ![u] = Append(@, {})]
    /\ UNCHANGED <<phase, company, parent, nested, aborted, dead, lock, books, answer, seen, made, undone>>
Nest(u) ==
    /\ Usable(u) /\ nested[u] < MaxNested
    /\ nested' = [nested EXCEPT ![u] = @ + 1]
    /\ frames' = [frames EXCEPT ![u] = Append(@, {})]
    /\ UNCHANGED <<phase, company, parent, aborted, dead, lock, books, answer, seen, made, undone>>

(* A statement that writes, on the unit's own connection. *)
Write(u) ==
    /\ Usable(u) /\ Cardinality(made[u]) < MaxWrites
    /\ LET w == <<u, Cardinality(made[u]) + 1>> IN
       /\ frames' = [frames EXCEPT ![u] = Append(Front(@), Last(@) \cup {w})]
       /\ made' = [made EXCEPT ![u] = @ \cup {w}]
    /\ UNCHANGED <<phase, company, parent, nested, aborted, dead, lock, books, answer, seen, undone>>

(* A statement the database refuses.  The code may swallow the error and   *)
(* go on, or throw it (FrameFails, WorkThrows).                            *)
StatementFails(u) ==
    /\ Usable(u)
    /\ aborted' = [aborted EXCEPT ![u] = TRUE]
    /\ UNCHANGED <<phase, company, parent, frames, nested, dead, lock, books, answer, seen, made, undone>>

(* A nested unit returns and its savepoint is released into what is around *)
(* it.                                                                     *)
FrameReturns(u) ==
    /\ Usable(u) /\ Len(frames[u]) > 1
    /\ LET around == Front(frames[u]) IN
       frames' = [frames EXCEPT ![u] = Append(Front(around), Last(around) \cup Last(frames[u]))]
    /\ UNCHANGED <<phase, company, parent, nested, aborted, dead, lock, books, answer, seen, made, undone>>

(* A nested unit throws, or its RELEASE is refused because a swallowed     *)
(* error aborted the transaction: ROLLBACK TO SAVEPOINT, and the error     *)
(* goes to the code around it, which decides what happens next.            *)
FrameFails(u) ==
    /\ Running(u) /\ Len(frames[u]) > 1
    /\ frames' = [frames EXCEPT ![u] = Front(@)]
    /\ undone' = [undone EXCEPT ![u] = @ \cup Last(frames[u])]
    /\ aborted' = [aborted EXCEPT ![u] = FALSE]
    /\ UNCHANGED <<phase, company, parent, nested, dead, lock, books, answer, seen, made>>

(* The work resolves: the unit is closed and COMMIT is sent. *)
WorkReturns(u) ==
    /\ Running(u) /\ Len(frames[u]) = 1
    /\ phase' = [phase EXCEPT ![u] = "committing"]
    /\ UNCHANGED <<company, parent, frames, nested, aborted, dead, lock, books, answer, seen, made, undone>>

(* The work rejects: ROLLBACK, and the same error reaches the caller.      *)
WorkThrows(u) ==
    /\ Running(u) /\ Len(frames[u]) = 1
    /\ Tell(u, "error")
    /\ lock' = LockAfter(u)
    /\ UNCHANGED <<company, parent, frames, nested, aborted, dead, books, seen, made, undone>>

(* PostgreSQL runs COMMIT.  An aborted transaction is rolled back instead. *)
(* Either way the company lock goes with the transaction.                  *)
ServerCommits(u) ==
    /\ phase[u] = "committing" /\ ~dead[u]
    /\ phase' = [phase EXCEPT ![u] = IF aborted[u] THEN "rolledback" ELSE "committed"]
    /\ books' = IF aborted[u] THEN books ELSE [books EXCEPT ![company[u]] = @ \cup Last(frames[u])]
    /\ lock' = LockAfter(u)
    /\ UNCHANGED <<company, parent, frames, nested, aborted, dead, answer, seen, made, undone>>

(* The answer to COMMIT is read: only the word COMMIT means saved.  A dead *)
(* connection answers nothing, and the caller is told the action failed.   *)
AnsweredUnchecked(u) ==
    /\ phase[u] \in {"committed", "rolledback"} \/ (phase[u] \in Holding \ {"open"} /\ dead[u])
    /\ Tell(u, IF dead[u] THEN "error" ELSE "saved")
    /\ UNCHANGED <<company, parent, frames, nested, aborted, dead, lock, books, seen, made, undone>>
Answered(u) ==
    /\ phase[u] \in {"committed", "rolledback"} \/ (phase[u] \in Holding \ {"open"} /\ dead[u])
    /\ Tell(u, IF phase[u] = "committed" /\ ~dead[u] THEN "saved" ELSE "error")
    /\ UNCHANGED <<company, parent, frames, nested, aborted, dead, lock, books, seen, made, undone>>

(* The server ends the connection (restart, failover, administrator): what *)
(* it had not committed is gone, and so is the lock.  The process learns   *)
(* of it from its next statement.                                          *)
ConnectionEnds(u) ==
    /\ phase[u] \in Holding /\ ~dead[u]
    /\ dead' = [dead EXCEPT ![u] = TRUE]
    /\ lock' = LockAfter(u)
    /\ UNCHANGED <<phase, company, parent, frames, nested, aborted, books, answer, seen, made, undone>>

Stop == (\A u \in Units : phase[u] \in {"idle", "told"}) /\ UNCHANGED vars

Step(u) ==
    \/ Connect(u) \/ ConnectTimeout(u) \/ TakeLock(u) \/ LockTimeout(u)
    \/ Nest(u) \/ Write(u) \/ StatementFails(u) \/ FrameReturns(u) \/ FrameFails(u)
    \/ WorkReturns(u) \/ WorkThrows(u) \/ ServerCommits(u) \/ Answered(u)

Next ==
    \/ \E u \in Units, c \in Companies : Start(u, c)
    \/ \E p, u \in Units, c \in Companies : StartBeside(p, u, c)
    \/ \E u \in Units : Step(u) \/ ConnectionEnds(u)
    \/ Stop

Spec == Init /\ [][Next]_vars

(* A handler's code ends one way or another, the server answers, and both  *)
(* 15-second timers fire; no connection is promised to last.               *)
Fairness == \A u \in Units :
    /\ WF_vars(Connect(u)) /\ WF_vars(ConnectTimeout(u))
    /\ WF_vars(TakeLock(u)) /\ WF_vars(LockTimeout(u))
    /\ WF_vars(FrameFails(u)) /\ WF_vars(WorkReturns(u) \/ WorkThrows(u))
    /\ WF_vars(ServerCommits(u)) /\ WF_vars(Answered(u))
FairSpec == Spec /\ Fairness

-----------------------------------------------------------------------------
TypeOK ==
    /\ phase \in [Units -> Phases]
    /\ company \in [Units -> Companies \cup {None}]
    /\ parent \in [Units -> Units \cup {None}]
    /\ frames \in [Units -> Seq(SUBSET Writes)]
    /\ nested \in [Units -> 0 .. MaxNested]
    /\ aborted \in [Units -> BOOLEAN]
    /\ dead \in [Units -> BOOLEAN]
    /\ lock \in [Companies -> Units \cup {None}]
    /\ books \in [Companies -> SUBSET Writes]
    /\ answer \in [Units -> Answers]
    /\ seen \in [Units -> SUBSET Writes]
    /\ made \in [Units -> SUBSET Writes]
    /\ undone \in [Units -> SUBSET Writes]
    \* each open savepoint has a number of its own
    /\ \A u \in Units : Len(frames[u]) <= nested[u] + 1

(* What a unit read of its company is still so when it saves: nobody else  *)
(* commits for that company between the moment its work starts and the     *)
(* moment its COMMIT runs (the company lock of `run`).                     *)
NobodySavesBetween ==
    \A u \in Units :
        phase[u] \in {"open", "committing"} /\ ~dead[u] => books[company[u]] = seen[u]

(* What the caller is told is what happened.  "Saved": every write is in   *)
(* the books except those of nested units that failed.  "Busy": nothing    *)
(* is.  An error: nothing is, unless the connection went while COMMIT was  *)
(* under way, and then it is everything or nothing.                        *)
ToldTheTruth ==
    \A u \in Units :
        LET kept == (UNION {books[c] : c \in Companies}) \cap MadeBy(u) IN
        /\ answer[u] = "saved" => kept = made[u] \ undone[u]
        /\ answer[u] = "busy" => kept = {}
        /\ answer[u] = "error" => kept = {} \/ (dead[u] /\ kept = made[u] \ undone[u])

(* A unit that holds a connection or the lock is never one of a ring of    *)
(* waiters: while anyone waits, someone can take a step without a timer    *)
(* (ADR 0363 section 3, "not deadlocked").                                 *)
CanMove(u) ==
    \/ phase[u] = "connecting" /\ Room
    \/ phase[u] = "locking" /\ (dead[u] \/ lock[company[u]] = None)
    \/ Running(u)
    \/ phase[u] \in {"committing", "committed", "rolledback"}
NeverAllWaiting ==
    (\E u \in Units : phase[u] \notin {"idle", "told"}) => \E u \in Units : CanMove(u)

(* Every unit that was opened is answered: a held lock or an empty pool    *)
(* fails loudly instead of hanging.                                        *)
EveryUnitAnswered == []<>(\A u \in Units : phase[u] \in {"idle", "told"})
=============================================================================
