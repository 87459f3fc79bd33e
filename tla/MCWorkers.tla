------------------------------ MODULE MCWorkers ------------------------------
(* What the worker processes do outside any request: the outbox they drain   *)
(* (Outbox), the e-invoices they ask for through it (EInvoice) and the work  *)
(* they run on a schedule (Recurring).  A run looks at one of them at a      *)
(* time; which, is chosen at the start.                                      *)
EXTENDS Outbox, TLC

CONSTANTS Cases, Workers, Jobs, LateJobs, None, RetryDelay, MaxPasses, Bills, People, Nobody

\* Relays and requests are processes apart, and `Nobody' is neither.
ASSUME InvoiceAssumption == Nobody \notin Relays \cup People /\ Relays \cap People = {}

VARIABLES case, now, job, worker, deaths, putBack, done, kept,
          record, barred, message, taker, tries, portal, asking, lock, drift, losses

schedule == <<now, job, worker, deaths, putBack, done, kept>>
invoices == <<record, barred, message, taker, tries, portal, asking, lock, drift, losses>>

\* Any wait at all, where the run lets timers be late
ShortBackoff == [n \in 0..MaxAttempts |-> 1]

\* Jobs that stop when told to, and nobody dies; and one job where anything
\* may be slow, leases lapse and a worker dies.
Prompt == INSTANCE Recurring WITH row <- job, crashes <- deaths, replays <- putBack, MaxAttempts <- MaxPasses,
             Every <- 2, Lease <- 4, Timeout <- 1, Pace <- "prompt", MaxNow <- 6, MaxCrashes <- 0, MaxReplays <- 1
Late == INSTANCE Recurring WITH row <- job, crashes <- deaths, replays <- putBack, MaxAttempts <- MaxPasses,
             Every <- 2, Lease <- 1, Timeout <- 1, Pace <- "any", MaxNow <- 5, MaxCrashes <- 1, MaxReplays <- 1, Jobs <- LateJobs

\* A bill whose message keeps its lease, with two losses and two attempts; and
\* one whose lease may lapse at any time.
Held == INSTANCE EInvoice WITH claim <- taker, attempts <- tries, call <- asking, LeasesHold <- TRUE, MaxLosses <- 2
Lapsing == INSTANCE EInvoice WITH claim <- taker, attempts <- tries, call <- asking, LeasesHold <- FALSE, MaxLosses <- 0,
             MaxAttempts <- 1

MCInit ==
    /\ case \in Cases
    /\ Init
    /\ IF case = "late" THEN Late!Init ELSE Prompt!Init
    /\ Held!Init
MCNext ==
    /\ case' = case
    /\ \/ case = "outbox" /\ Next /\ (crashes = 0 \/ replays = 0)' /\ UNCHANGED <<schedule, invoices>>
       \/ case = "prompt" /\ Prompt!Next /\ UNCHANGED <<vars, invoices>>
       \/ case = "late" /\ Late!Next /\ UNCHANGED <<vars, invoices>>
       \/ case = "held" /\ Held!Next /\ UNCHANGED <<vars, schedule>>
       \/ case = "lapsing" /\ Lapsing!Next /\ UNCHANGED <<vars, schedule>>
MCSpec == MCInit /\ [][MCNext]_<<vars, schedule, invoices, case>>

\* Relays, messages, tokens, workers and jobs are interchangeable.
Symmetry == Permutations(Relays) \cup Permutations(Messages) \cup Permutations(Tokens)

-----------------------------------------------------------------------------
(* Messages, rows, claims and workers are well formed                        *)
(* (outbox-table.ts:10, recurring-postgres.ts:30-47, e_invoices).            *)
TypesOK == TypeOK /\ (IF case = "late" THEN Late!TypeOK ELSE Prompt!TypeOK) /\ Held!TypeOK

(* "one run per company, job and schedule slot" (recurring-postgres.ts:5):   *)
(* with nobody killed, a slot whose run was saved and answered in time is    *)
(* not run again; and where anything may be slow and a worker may die, a     *)
(* slot recorded as done is never claimed again (:84-86, 125).               *)
SlotsRunOnce ==
    [][(case = "prompt" => Prompt!RunIsNew) /\ (case = "late" => Late!ClaimsForward)]_schedule

(* The screen never says more than the government does, and a difference is  *)
(* only ever the doing of an answer that was lost, or of a relay's that was  *)
(* saved over a cancellation made meanwhile, whether leases are kept or      *)
(* lapse (einvoice-service.ts:262, 312, 334); and as long as a relay keeps   *)
(* its lease while it works, a message that was sent leaves no bill waiting  *)
(* for an answer that nobody will bring (demo-application.ts:3760-3790).     *)
BillsTellTheTruth == Held!RecordsFollowPortal /\ (case = "held" => Held!SentIsSettled)
=============================================================================
