----------------------------- MODULE Recurring ------------------------------
(***************************************************************************)
(* Recurring work kept in PostgreSQL, for one company:                     *)
(* ops/operations/src/recurring-postgres.ts, run by the workers of         *)
(* apps/api/src/worker.ts.                                                 *)
(*                                                                         *)
(* A worker claims every due job at once in one short transaction, runs    *)
(* them one after another, each as one action of the company, and records  *)
(* each result in another short transaction, only while the row is still   *)
(* its claim.  All of these wait for the company's write lock, which a     *)
(* run holds until it settles.  Time is a count of ticks; a claim is the   *)
(* worker and the tick it claimed at (in the code, the start time to the   *)
(* microsecond).                                                           *)
(***************************************************************************)
EXTENDS Integers, FiniteSets

CONSTANTS
    Workers, Jobs, None,
    Every,       \* every_ms: the interval between slots
    Lease,       \* RECURRING_LEASE_MS
    Timeout,     \* timeoutMs: when a run is told to stop
    RetryDelay,  \* retryDelayMs, doubling
    MaxAttempts, \* max_attempts
    Pace,        \* "prompt", "overruns" or "any": see Tick
    MaxNow,      \* bound: how far time goes
    MaxCrashes,  \* bound: workers killed
    MaxReplays   \* bound: jobs put back by an operator

VARIABLES
    now,
    row,      \* [Jobs -> recurring_work_status]
    worker,   \* [Workers -> what each has claimed and is doing]
    crashes, replays,
    done,     \* history: [Jobs -> the latest slot recorded as a success, or -1]
    kept      \* history: [Jobs -> slots whose run was saved, in time]

vars == <<now, row, worker, crashes, replays, done, kept>>

Never == -1
Rows == [next : Nat, outcome : {"never", "running", "success", "failure", "dead_lettered"}, attempts : Nat,
         slot : Nat \cup {Never}, by : Workers \cup {None}, since : Nat]

(* `attempts` and `slot` are what the claim's RETURNING gave the worker.   *)
Claims == [slot : Nat, attempts : Nat]
Idle == [at |-> 0, batch |-> {}, claim |-> [j \in {} |-> None], doing |-> None, began |-> 0, run |-> "none"]

-----------------------------------------------------------------------------
Init ==
    /\ now = 0
    /\ row = [j \in Jobs |-> [next |-> 0, outcome |-> "never", attempts |-> 0, slot |-> Never, by |-> None, since |-> 0]]
    /\ worker = [w \in Workers |-> Idle]
    /\ crashes = 0 /\ replays = 0
    /\ done = [j \in Jobs |-> Never]
    /\ kept = [j \in Jobs |-> {}]

(* Missed slots coalesce to the latest.                                    *)
LatestSlot(first) == first + ((now - first) \div Every) * Every

LapsedNever(j) == FALSE
LapsedEarly(j) == row[j].outcome = "running"
Lapsed(j) == row[j].outcome = "running" /\ row[j].since < now - Lease
Due(j) == row[j].outcome # "running" /\ row[j].next <= now

Retried(j) == row[j].outcome \in {"failure", "running"}
Claimed(j, w) ==
    [row[j] EXCEPT !.outcome = "running", !.by = w, !.since = now,
                   !.attempts = IF Retried(j) THEN @ + 1 ELSE 1,
                   !.slot = IF Retried(j) /\ @ # Never THEN @ ELSE LatestSlot(row[j].next)]

(* The company's write lock is held by a run.                              *)
Locked == \E w \in Workers : worker[w].run = "running"
Free(w) == worker[w].batch = {} /\ worker[w].doing = None

Claim(w) ==
    /\ Free(w)
    /\ ~Locked
    /\ LET due == {j \in Jobs : Due(j) \/ Lapsed(j)} IN
         /\ due # {}
         /\ row' = [j \in Jobs |-> IF j \in due THEN Claimed(j, w) ELSE row[j]]
         /\ worker' = [worker EXCEPT ![w] = [Idle EXCEPT !.at = now, !.batch = due,
                         !.claim = [j \in due |-> [slot |-> row'[j].slot, attempts |-> row'[j].attempts]]]]
    /\ UNCHANGED <<now, crashes, replays, done, kept>>

(* The next of the claimed jobs is called; its row is not read again.      *)
Call(w) ==
    /\ worker[w].doing = None
    /\ \E j \in worker[w].batch :
         worker' = [worker EXCEPT ![w] = [@ EXCEPT !.batch = @ \ {j}, !.doing = j, !.began = now, !.run = "waiting"]]
    /\ UNCHANGED <<now, row, crashes, replays, done, kept>>

(* asOneAction: the run begins once it has the lock, or is refused.        *)
Begin(w) ==
    /\ worker[w].run = "waiting"
    /\ ~Locked
    /\ worker' = [worker EXCEPT ![w].run = "running"]
    /\ UNCHANGED <<now, row, crashes, replays, done, kept>>
Busy(w) ==
    /\ worker[w].run = "waiting"
    /\ Locked
    /\ worker' = [worker EXCEPT ![w].run = "failure"]
    /\ UNCHANGED <<now, row, crashes, replays, done, kept>>

(* The run settles, its writes saved or undone.  One that ends well after  *)
(* it was told to stop counts as timed out, although its writes are saved. *)
Settle(w) ==
    /\ worker[w].run = "running"
    /\ \E ok \in BOOLEAN :
         LET good == ok /\ now < worker[w].began + Timeout
             j == worker[w].doing
         IN  /\ worker' = [worker EXCEPT ![w].run = IF good THEN "success" ELSE "failure"]
             /\ kept' = IF good THEN [kept EXCEPT ![j] = @ \cup {worker[w].claim[j].slot}] ELSE kept
    /\ UNCHANGED <<now, row, crashes, replays, done>>

Mine(w, j) == row[j].outcome = "running" /\ row[j].by = w /\ row[j].since = worker[w].at

RetryAfter(attempts) == RetryDelay * 2 ^ (attempts - 1)

Recorded(w, j) ==
    LET c == worker[w].claim[j]
        dead == worker[w].run = "failure" /\ c.attempts >= MaxAttempts
        outcome == IF dead THEN "dead_lettered" ELSE worker[w].run
    IN  [row[j] EXCEPT !.outcome = outcome,
                       !.next = IF outcome = "failure" THEN now + RetryAfter(c.attempts) ELSE row[j].slot + Every]

(* Only while the row is still this worker's claim.                        *)
RecordAnyway(w) ==
    LET j == worker[w].doing IN
    /\ worker[w].run \in {"success", "failure"}
    /\ ~Locked
    /\ row' = [row EXCEPT ![j] = Recorded(w, j)]
    /\ done' = IF worker[w].run = "success" THEN [done EXCEPT ![j] = row[j].slot] ELSE done
    /\ worker' = [worker EXCEPT ![w] = IF @.batch = {} THEN Idle ELSE [@ EXCEPT !.doing = None, !.run = "none"]]
    /\ UNCHANGED <<now, crashes, replays, kept>>
RecordForgetting(w) ==
    LET j == worker[w].doing IN
    /\ worker[w].run \in {"success", "failure"}
    /\ ~Locked
    /\ IF Mine(w, j)
       THEN /\ row' = [row EXCEPT ![j] = Recorded(w, j)]
            /\ done' = IF worker[w].run = "success" THEN [done EXCEPT ![j] = row[j].slot] ELSE done
       ELSE UNCHANGED <<row, done>>
    /\ worker' = [worker EXCEPT ![w] = [Idle EXCEPT !.batch = worker[w].batch]]
    /\ UNCHANGED <<now, crashes, replays, kept>>
Record(w) ==
    LET j == worker[w].doing IN
    /\ worker[w].run \in {"success", "failure"}
    /\ ~Locked
    /\ IF Mine(w, j)
       THEN /\ row' = [row EXCEPT ![j] = Recorded(w, j)]
            /\ done' = IF worker[w].run = "success" THEN [done EXCEPT ![j] = row[j].slot] ELSE done
       ELSE UNCHANGED <<row, done>>
    /\ worker' = [worker EXCEPT ![w] = IF @.batch = {} THEN Idle ELSE [@ EXCEPT !.doing = None, !.run = "none"]]
    /\ UNCHANGED <<now, crashes, replays, kept>>

(* The worker's process is killed and started again with nothing, or its   *)
(* pass is given up: the lock it waited for to record was not given.       *)
Crash(w) ==
    /\ crashes < MaxCrashes
    /\ ~Free(w)
    /\ crashes' = crashes + 1
    /\ worker' = [worker EXCEPT ![w] = Idle]
    /\ UNCHANGED <<now, row, replays, done, kept>>

(* An operator puts a dead-lettered or failing job back.                   *)
Replay(j) ==
    /\ replays < MaxReplays
    /\ ~Locked
    /\ row[j].outcome \in {"dead_lettered", "failure"}
    /\ replays' = replays + 1
    /\ row' = [row EXCEPT ![j] = [@ EXCEPT !.outcome = "failure", !.attempts = 0, !.next = now]]
    /\ UNCHANGED <<now, worker, crashes, done, kept>>

(* How time may pass.  "prompt": a run stops by its timeout, and what a    *)
(* worker does besides - looking for due work, taking up the next of its   *)
(* batch, recording - takes no time worth counting.  "overruns": the same, *)
(* but a run need not stop when it is told to.  "any": anything may be     *)
(* slow.                                                                   *)
Prompt(w) ==
    \/ Free(w) /\ (Locked \/ \A j \in Jobs : ~(Due(j) \/ Lapsed(j)))
    \/ worker[w].run = "waiting" /\ Locked
    \/ worker[w].run = "running" /\ (Pace = "overruns" \/ now < worker[w].began + Timeout)
    \/ worker[w].run \in {"success", "failure"} /\ Locked

Tick ==
    /\ now < MaxNow
    /\ Pace = "any" \/ \A w \in Workers : Prompt(w)
    /\ now' = now + 1
    /\ UNCHANGED <<row, worker, crashes, replays, done, kept>>

(* Time goes no further and nothing is due: the bounds are reached.        *)
Finished ==
    /\ now = MaxNow
    /\ \A w \in Workers : Free(w)
    /\ UNCHANGED vars

Next ==
    \/ \E w \in Workers : Claim(w) \/ Call(w) \/ Begin(w) \/ Busy(w) \/ Settle(w) \/ Record(w) \/ Crash(w)
    \/ \E j \in Jobs : Replay(j)
    \/ Tick
    \/ Finished

Spec == Init /\ [][Next]_vars

(* Workers loop for ever, what waits for the lock is answered, a run       *)
(* settles, and time passes.                                               *)
Fairness ==
    /\ \A w \in Workers :
         /\ WF_vars(Claim(w)) /\ WF_vars(Call(w)) /\ WF_vars(Begin(w) \/ Busy(w))
         /\ WF_vars(Settle(w)) /\ WF_vars(Record(w))
    /\ WF_vars(Tick)
FairSpec == Spec /\ Fairness

-----------------------------------------------------------------------------
TypeOK ==
    /\ now \in 0 .. MaxNow
    /\ row \in [Jobs -> Rows]
    /\ \A w \in Workers :
         /\ worker[w].batch \subseteq DOMAIN worker[w].claim
         /\ worker[w].doing \in DOMAIN worker[w].claim \cup {None}
         /\ worker[w].run \in {"none", "waiting", "running", "success", "failure"}
         /\ \A j \in DOMAIN worker[w].claim : j \in Jobs /\ worker[w].claim[j] \in Claims
    /\ crashes \in 0 .. MaxCrashes /\ replays \in 0 .. MaxReplays

(* What is saved and answered in time is not of a slot already kept.       *)
RunIsNew ==
    \A w \in Workers : Settle(w) /\ worker'[w].run = "success" =>
        worker[w].claim[worker[w].doing].slot \notin kept[worker[w].doing]

(* What is claimed comes after the slot last done.                         *)
ClaimsForward == \A j \in Jobs : row'[j].outcome = "running" => row'[j].slot > done[j]

(* "one run per company, job and schedule slot" (recurring-postgres.ts:5), *)
(* with nobody killed: a slot whose run was saved and answered in time is  *)
(* not run again, whatever other jobs of the batch fail or are put back.   *)
OneRunPerSlot == [][RunIsNew]_vars

(* A job found due is done, or given up after its attempts, although       *)
(* workers die in the middle of it.                                        *)
EveryJobSettles == []<>(\A j \in Jobs : row[j].outcome \in {"success", "dead_lettered"})
=============================================================================
