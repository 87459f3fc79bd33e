------------------------------- MODULE MCLive --------------------------------
(* What must happen in the end, component by component, each on an instance  *)
(* small enough for liveness.  They share no state, so a run looks at one of *)
(* them at a time; which, is chosen at the start, and only its steps are     *)
(* fair.                                                                     *)
EXTENDS Integers

CONSTANTS Cases, Keys, None

VARIABLES
    case,
    \* Outbox
    born, attempts, due, claim, sent, dead, failed, saves, pc, token, todo, cur, budget, stray,
    crashes, failures, replays,
    \* Ledger
    books, remembered, sequence, period, task, toAudit, audits, ledgerCrashes,
    \* UnitOfWork
    unitPhase, company, parent, frames, nested, aborted, unitDead, lock, committed, answer, seen, made, undone,
    \* Durable
    mem, rows, loaded, memHolder, memPhase, co, sets, sealing, queue, view, refused, reload, snap, ever, late,
    \* MasterView
    saved, next, viewHolder, own, viewDead, viewPhase, current, copies, chain, filling, batch, must, used,
    \* Recurring
    now, job, worker, deaths, putBack, done, kept

outbox == <<born, attempts, due, claim, sent, dead, failed, saves, pc, token, todo, cur, budget, stray, crashes, failures, replays>>
ledger == <<books, remembered, sequence, period, task, toAudit, audits, ledgerCrashes>>
units == <<unitPhase, company, parent, frames, nested, aborted, unitDead, lock, committed, answer, seen, made, undone>>
memory == <<mem, rows, loaded, memHolder, memPhase, co, sets, sealing, queue, view, refused, reload, snap, ever, late>>
masters == <<saved, next, viewHolder, own, viewDead, viewPhase, current, copies, chain, filling, batch, must, used>>
schedule == <<now, job, worker, deaths, putBack, done, kept>>

\* least(3600, 30 * power(2, attempts - 1)) seconds in ticks of 15 seconds
DoublingBackoff == [n \in 0 .. 1 |-> 2 ^ n]
Sending == INSTANCE Outbox WITH
    Messages <- {"m1", "m2"}, Relays <- {"r1", "r2"}, Tokens <- {"t1", "t2", "t3"}, NoToken <- "none", NoMessage <- "none",
    Limit <- 2, MaxAttempts <- 1, Lease <- 2, Backoff <- DoublingBackoff, TimersOnTime <- TRUE, HandlerStops <- TRUE,
    MaxCrashes <- 1, MaxFailures <- 1, MaxReplays <- 1

Line(a, d, c) == [account |-> a, debit |-> d, credit |-> c]
Books == INSTANCE Ledger WITH
    Callers <- {"c1", "c2"}, Months <- {"apr"}, BeforeStart <- {}, MaxVouchers <- 2, MaxCrashes <- 0, crashes <- ledgerCrashes,
    Entries <- {<<Line("customer", 2, 0), Line("sales", 0, 2)>>, <<Line("cash", 2, 0), Line("sales", 0, 1)>>},
    Postable <- {"customer", "sales", "cash"}

Work == INSTANCE UnitOfWork WITH
    Units <- {"u1", "u2", "v1"}, Beside <- {"v1"}, Companies <- {"a"}, PoolSize <- 2, MaxWrites <- 0, MaxNested <- 1,
    phase <- unitPhase, dead <- unitDead, books <- committed

Memory == INSTANCE Durable WITH
    Requests <- {"w1", "g1"}, Readers <- {"g1"}, Companies <- {"a", "b"}, Keys <- {"k1", "k2"},
    CompanyOf <- [k1 |-> "a", k2 |-> "b"],
    Values <- {"x"}, MaxSets <- 1, Alone <- FALSE, ReloadFails <- TRUE,
    holder <- memHolder, phase <- memPhase, todo <- reload

Masters == INSTANCE MasterView WITH
    Requests <- {"a1", "a2", "g1"}, Readers <- {"g1"}, Elsewhere <- {}, Batch <- 2, MaxVersions <- 2, ConnectionsEnd <- TRUE,
    holder <- viewHolder, phase <- viewPhase, dead <- viewDead

Schedule == INSTANCE Recurring WITH
    Workers <- {"w1", "w2"}, Jobs <- {"j1"}, Every <- 12, Lease <- 2, Timeout <- 1, RetryDelay <- 1, MaxAttempts <- 2,
    Pace <- "prompt", MaxNow <- 11, MaxCrashes <- 1, MaxReplays <- 0, row <- job, crashes <- deaths, replays <- putBack

-----------------------------------------------------------------------------
Init ==
    /\ case \in Cases
    /\ Sending!Init /\ Books!Init /\ Work!Init /\ Memory!Init /\ Masters!Init /\ Schedule!Init

Next ==
    \/ case = "outbox" /\ Sending!Next /\ UNCHANGED <<case, ledger, units, memory, masters, schedule>>
    \/ case = "ledger" /\ Books!Next /\ UNCHANGED <<case, outbox, units, memory, masters, schedule>>
    \/ case = "units" /\ Work!Next /\ UNCHANGED <<case, outbox, ledger, memory, masters, schedule>>
    \/ case = "memory" /\ Memory!Next /\ UNCHANGED <<case, outbox, ledger, units, masters, schedule>>
    \/ case = "masters" /\ Masters!Next /\ UNCHANGED <<case, outbox, ledger, units, memory, schedule>>
    \/ case = "schedule" /\ Schedule!Next /\ UNCHANGED <<case, outbox, ledger, units, memory, masters>>

Spec == Init /\ [][Next]_<<case, outbox, ledger, units, memory, masters, schedule>>

\* Recurring's Fairness, where it is the one looked at.
FairSchedule ==
    /\ WF_schedule(case = "schedule" /\ Schedule!Tick)
    /\ \A w \in {"w1", "w2"} :
         /\ WF_schedule(case = "schedule" /\ Schedule!Claim(w)) /\ WF_schedule(case = "schedule" /\ Schedule!Call(w))
         /\ WF_schedule(case = "schedule" /\ (Schedule!Begin(w) \/ Schedule!Busy(w)))
         /\ WF_schedule(case = "schedule" /\ Schedule!Settle(w)) /\ WF_schedule(case = "schedule" /\ Schedule!Record(w))

\* Each component's own fairness.  Those that nobody has asked anything of have
\* no step to take; the schedule has from the start.
FairSpec ==
    /\ Spec
    /\ Sending!Fairness /\ Books!Fairness /\ Work!Fairness /\ Memory!Fairness /\ Masters!Fairness
    /\ FairSchedule

-----------------------------------------------------------------------------
\* What was begun is finished: what an action queued is in the end sent, or kept
\* as dead for a person (outbox.ts:74-85), every entry of the books has its audit
\* event unless a process died (ledger service.ts:307), and a job found due is
\* done or given up (recurring-postgres.ts:82-131).
EventuallyDone ==
    /\ Sending!EventuallySettled
    /\ Books!EventuallyAudited
    /\ case = "schedule" => Schedule!EveryJobSettles

\* Whoever asked is answered, and truly: every unit of work that was opened, also
\* beside one that waits for it (database.ts:129-170); every request, although
\* reading the database back may fail, and one that failed has saved nothing
\* (durable.ts:93-163); and every refresh of the masters' copy
\* (master-data.ts:131-153).
EveryoneAnswered ==
    /\ Work!EveryUnitAnswered
    /\ Memory!EveryRequestAnswered /\ Memory!FailedSavesNothing
    /\ Masters!EveryRefreshEnds
=============================================================================
