------------------------------- MODULE Outbox -------------------------------
(***************************************************************************)
(* The transactional outbox of one company: rows written in the action's   *)
(* own transaction (platform/src/database.ts, enqueue), sent afterwards by *)
(* any number of relays (platform/src/outbox.ts, OutboxRelay.drain, run by *)
(* every worker process), and put back by a person (api/src/runtime.ts,    *)
(* replayOperationalJob).                                                  *)
(*                                                                         *)
(* One tick is 15 seconds, half of the smallest recorded back-off, so a    *)
(* 60 second lease is 4 ticks, the signal of half a lease is 2 and the    *)
(* back-off after the n-th attempt, 30 * 2^(n-1) seconds, is 2^n ticks.  Times in   *)
(* the table are kept as the ticks left, so the clock needs no bound.      *)
(***************************************************************************)
EXTENDS Integers, FiniteSets

CONSTANTS
  Messages,        \* the (topic, dedupe key) pairs an action may enqueue
  Relays,          \* drain() calls that may run at the same time
  Tokens,          \* claim tokens (random UUIDs: a new one is used nowhere)
  NoToken,         \* claim_token IS NULL
  NoMessage,       \* a relay that is working on no message
  Limit,           \* drain's limit: rows claimed at a time
  MaxAttempts,     \* attempts after which a failed row is dead
  Lease,           \* the lease in ticks
  Backoff,         \* ticks a row waits after its n-th failed attempt
  TimersOnTime,    \* TRUE: timers fire on their tick, database steps are instant
  HandlerStops,    \* TRUE: a handler ends its call when its signal aborts
  MaxCrashes,      \* bound: worker processes that die
  MaxFailures,     \* bound: handler calls that fail
  MaxReplays       \* bound: replays asked for by a person

ASSUME OutboxAssumption ==
  /\ NoToken \notin Tokens
  /\ NoMessage \notin Messages
  /\ IsFiniteSet(Messages)
  /\ Limit \in Nat \ {0}
  /\ MaxAttempts \in Nat \ {0}
  /\ Lease \in Nat \ {0}
  /\ Backoff \in [0..MaxAttempts -> Nat]
  /\ TimersOnTime \in BOOLEAN
  /\ HandlerStops \in BOOLEAN
  /\ MaxCrashes \in Nat
  /\ MaxFailures \in Nat
  /\ MaxReplays \in Nat

VARIABLES
  born,            \* created_at order: 0 is no row, k is the k-th row inserted
  attempts,        \* attempts, saturated at MaxAttempts (nothing looks past it)
  due,             \* ticks until available_at <= now()
  claim,           \* claim_token
  sent,            \* rows with sent_at
  dead,            \* rows with dead_at
  failed,          \* rows with last_error
  saves,           \* history: save steps committed for a row
  pc,              \* where each relay is in drain()
  token,           \* the relay's token
  todo,            \* claimed messages the relay has not started
  cur,             \* the message it is working on
  budget,          \* ticks until its AbortSignal.timeout fires
  stray,           \* messages with an abandoned handler call still running
  crashes, failures, replays

row == <<born, attempts, due, claim, sent, dead, failed, saves>>
relay == <<pc, token, todo, cur, budget>>
bounds == <<crashes, failures, replays>>
vars == <<born, attempts, due, claim, sent, dead, failed, saves,
          pc, token, todo, cur, budget, stray, crashes, failures, replays>>

Steps == {"idle", "ready", "sending", "saving", "failing"}

TypeOK ==
  /\ born \in [Messages -> Nat]
  /\ attempts \in [Messages -> 0..MaxAttempts]
  /\ due \in [Messages -> Nat]
  /\ claim \in [Messages -> Tokens \cup {NoToken}]
  /\ sent \subseteq Messages
  /\ dead \subseteq Messages
  /\ failed \subseteq Messages
  /\ saves \in [Messages -> Nat]
  /\ pc \in [Relays -> Steps]
  /\ token \in [Relays -> Tokens \cup {NoToken}]
  /\ todo \in [Relays -> SUBSET Messages]
  /\ cur \in [Relays -> Messages \cup {NoMessage}]
  /\ budget \in [Relays -> Nat]
  /\ stray \subseteq Messages
  /\ crashes \in Nat
  /\ failures \in Nat
  /\ replays \in Nat

-----------------------------------------------------------------------------
(* The table, as the SQL statements see it *)

Queued == {m \in Messages : born[m] > 0}

\* Bug: only rows nobody claimed are due.
DueUnclaimed == {m \in Queued : m \notin sent /\ m \notin dead /\ due[m] = 0 /\ claim[m] = NoToken}

\* WHERE sent_at IS NULL AND dead_at IS NULL AND available_at <= now()
Due == {m \in Queued : m \notin sent /\ m \notin dead /\ due[m] = 0}

\* Rows whose lock another relay's UPDATE may hold: SKIP LOCKED passes over them.
Locked == {m \in Messages : \E r \in Relays : pc[r] \in {"saving", "failing"} /\ cur[r] = m}

\* ORDER BY created_at, id LIMIT n over the rows that are not skipped
Oldest(n, S) ==
  {m \in S : Cardinality({k \in S : born[k] < born[m]}) < n}

\* randomUUID(): a value no row and no running drain holds
FreshTokens ==
  {t \in Tokens : (\A m \in Messages : claim[m] # t) /\ (\A r \in Relays : token[r] # t)}

\* Bug: counts one attempt past the last.
PlusPastLast(n) == IF n <= MaxAttempts THEN n + 1 ELSE MaxAttempts

Plus(n) == IF n < MaxAttempts THEN n + 1 ELSE MaxAttempts

\* A relay whose signal should have fired by now
Overdue(r) == pc[r] = "sending" /\ budget[r] = 0

Less(n) == IF n > 0 THEN n - 1 ELSE 0

-----------------------------------------------------------------------------
Init ==
  /\ born = [m \in Messages |-> 0]
  /\ attempts = [m \in Messages |-> 0]
  /\ due = [m \in Messages |-> 0]
  /\ claim = [m \in Messages |-> NoToken]
  /\ sent = {}
  /\ dead = {}
  /\ failed = {}
  /\ saves = [m \in Messages |-> 0]
  /\ pc = [r \in Relays |-> "idle"]
  /\ token = [r \in Relays |-> NoToken]
  /\ todo = [r \in Relays |-> {}]
  /\ cur = [r \in Relays |-> NoMessage]
  /\ budget = [r \in Relays |-> 0]
  /\ stray = {}
  /\ crashes = 0
  /\ failures = 0
  /\ replays = 0

\* enqueue commits with its action; a repeat of the same key is a no-op.
Enqueue(m) ==
  /\ born[m] = 0
  /\ born' = [born EXCEPT ![m] = Cardinality(Queued) + 1]
  /\ UNCHANGED <<attempts, due, claim, sent, dead, failed, saves>>
  /\ UNCHANGED <<relay, stray, bounds>>

\* drain's one UPDATE: claim up to Limit due rows, oldest first, with one token
\* and one lease for the whole batch.
Claim(r) ==
  /\ pc[r] = "idle"
  /\ TimersOnTime => \A s \in Relays : ~Overdue(s)
  /\ \E t \in FreshTokens, skipped \in SUBSET Locked :
       LET batch == Oldest(Limit, Due \ skipped) IN
       /\ batch # {}
       /\ claim' = [m \in Messages |-> IF m \in batch THEN t ELSE claim[m]]
       /\ attempts' = [m \in Messages |-> IF m \in batch THEN Plus(attempts[m]) ELSE attempts[m]]
       /\ due' = [m \in Messages |-> IF m \in batch THEN Lease ELSE due[m]]
       /\ token' = [token EXCEPT ![r] = t]
       /\ todo' = [todo EXCEPT ![r] = batch]
  /\ pc' = [pc EXCEPT ![r] = "ready"]
  /\ UNCHANGED <<born, sent, dead, failed, saves, cur, budget, stray, bounds>>

\* The next message of the batch, oldest first: its handler starts with a fresh
\* signal of half a lease, whatever is left of the lease by then.
StartSend(r) ==
  /\ pc[r] = "ready"
  /\ \E m \in Oldest(1, todo[r]) :
       /\ cur' = [cur EXCEPT ![r] = m]
       /\ todo' = [todo EXCEPT ![r] = @ \ {m}]
  /\ budget' = [budget EXCEPT ![r] = Lease \div 2]
  /\ pc' = [pc EXCEPT ![r] = "sending"]
  /\ UNCHANGED <<row, token, stray, bounds>>

HandlerOk(r) ==
  /\ pc[r] = "sending"
  /\ pc' = [pc EXCEPT ![r] = "saving"]
  /\ UNCHANGED <<row, token, todo, cur, budget, stray, bounds>>

HandlerFail(r) ==
  /\ pc[r] = "sending"
  /\ failures < MaxFailures
  /\ failures' = failures + 1
  /\ pc' = [pc EXCEPT ![r] = "failing"]
  /\ UNCHANGED <<row, token, todo, cur, budget, stray, crashes, replays>>

\* The signal aborts first: Promise.race rejects.  A handler that does not pass
\* the signal on leaves its call running.
Abort(r) ==
  /\ pc[r] = "sending"
  /\ budget[r] = 0
  /\ stray' = IF HandlerStops THEN stray ELSE stray \cup {cur[r]}
  /\ pc' = [pc EXCEPT ![r] = "failing"]
  /\ UNCHANGED <<row, token, todo, cur, budget, bounds>>

\* An abandoned call ends; nobody looks at its result.
StrayEnds(m) ==
  /\ m \in stray
  /\ stray' = stray \ {m}
  /\ UNCHANGED <<row, relay, bounds>>

\* Bug: marks the row sent and leaves the claim on it.
MarkSentKeepingClaim(m) ==
  /\ sent' = sent \cup {m}
  /\ failed' = failed \ {m}
  /\ saves' = [saves EXCEPT ![m] = @ + 1]
  /\ UNCHANGED <<born, attempts, due, claim, dead>>

\* What a committed save-and-mark transaction writes.
MarkSent(m) ==
  /\ sent' = sent \cup {m}
  /\ failed' = failed \ {m}
  /\ claim' = [claim EXCEPT ![m] = NoToken]
  /\ saves' = [saves EXCEPT ![m] = @ + 1]
  /\ UNCHANGED <<born, attempts, due, dead>>

Settle(r) ==
  /\ pc' = [pc EXCEPT ![r] = "ready"]
  /\ cur' = [cur EXCEPT ![r] = NoMessage]
  /\ UNCHANGED <<token, todo, budget>>

\* Bug: marks by id alone, without the claim token.
SaveWithoutToken(r) ==
  /\ pc[r] = "saving"
  /\ MarkSent(cur[r])
  /\ Settle(r)
  /\ UNCHANGED <<stray, bounds>>

\* save(uow) and the mark in one unit of work, while the token still matches.
SaveAndMark(r) ==
  /\ pc[r] = "saving"
  /\ claim[cur[r]] = token[r]
  /\ MarkSent(cur[r])
  /\ Settle(r)
  /\ UNCHANGED <<stray, bounds>>

\* COMMIT went through but its answer was lost: the relay sees an error.
SaveAnswerLost(r) ==
  /\ pc[r] = "saving"
  /\ claim[cur[r]] = token[r]
  /\ failures < MaxFailures
  /\ failures' = failures + 1
  /\ MarkSent(cur[r])
  /\ pc' = [pc EXCEPT ![r] = "failing"]
  /\ UNCHANGED <<token, todo, cur, budget, stray, crashes, replays>>

\* Another relay took the row over: zero rows marked, the unit of work is undone.
SaveLosesClaim(r) ==
  /\ pc[r] = "saving"
  /\ claim[cur[r]] # token[r]
  /\ pc' = [pc EXCEPT ![r] = "failing"]
  /\ UNCHANGED <<row, token, todo, cur, budget, stray, bounds>>

\* The unit of work fails (lock_timeout, a save step that throws): undone.
SaveFails(r) ==
  /\ pc[r] = "saving"
  /\ failures < MaxFailures
  /\ failures' = failures + 1
  /\ pc' = [pc EXCEPT ![r] = "failing"]
  /\ UNCHANGED <<row, token, todo, cur, budget, stray, crashes, replays>>

\* Bug: records the failure and leaves the claim on the row.
RecordFailureKeepingClaim(r) ==
  /\ pc[r] = "failing"
  /\ LET m == cur[r] IN
       IF claim[m] = token[r]
       THEN /\ failed' = failed \cup {m}
            /\ due' = [due EXCEPT ![m] = Backoff[attempts[m]]]
            /\ dead' = IF attempts[m] >= MaxAttempts THEN dead \cup {m} ELSE dead \ {m}
       ELSE UNCHANGED <<failed, due, dead>>
  /\ Settle(r)
  /\ UNCHANGED <<born, attempts, claim, sent, saves, stray, bounds>>

\* Bug: records the failure by id alone, without the claim token.
RecordFailureBlind(r) ==
  /\ pc[r] = "failing"
  /\ LET m == cur[r] IN
       /\ claim' = [claim EXCEPT ![m] = NoToken]
       /\ failed' = failed \cup {m}
       /\ due' = [due EXCEPT ![m] = Backoff[attempts[m]]]
       /\ dead' = IF attempts[m] >= MaxAttempts THEN dead \cup {m} ELSE dead \ {m}
  /\ Settle(r)
  /\ UNCHANGED <<born, attempts, sent, saves, stray, bounds>>

\* The catch block's UPDATE ... WHERE claim_token = token.
RecordFailure(r) ==
  /\ pc[r] = "failing"
  /\ LET m == cur[r] IN
       IF claim[m] = token[r]
       THEN /\ claim' = [claim EXCEPT ![m] = NoToken]
            /\ failed' = failed \cup {m}
            /\ due' = [due EXCEPT ![m] = Backoff[attempts[m]]]
            /\ dead' = IF attempts[m] >= MaxAttempts THEN dead \cup {m} ELSE dead \ {m}
       ELSE UNCHANGED <<claim, failed, due, dead>>
  /\ Settle(r)
  /\ UNCHANGED <<born, attempts, sent, saves, stray, bounds>>

\* The relay's local state when drain() is over or its process is gone.
Forget(r) ==
  /\ pc' = [pc EXCEPT ![r] = "idle"]
  /\ token' = [token EXCEPT ![r] = NoToken]
  /\ todo' = [todo EXCEPT ![r] = {}]
  /\ cur' = [cur EXCEPT ![r] = NoMessage]
  /\ budget' = [budget EXCEPT ![r] = 0]

Finish(r) ==
  /\ pc[r] = "ready"
  /\ todo[r] = {}
  /\ Forget(r)
  /\ UNCHANGED <<row, stray, bounds>>

\* The worker dies, or the catch block's own UPDATE throws out of drain(): the
\* rows keep their claim until the lease ends.
Crash(r) ==
  /\ pc[r] # "idle"
  /\ crashes < MaxCrashes
  /\ crashes' = crashes + 1
  /\ Forget(r)
  /\ UNCHANGED <<row, stray, failures, replays>>

\* A person replays a failed job.  The claim token is neither looked at nor cleared.
Replay(m) ==
  /\ born[m] > 0
  /\ m \notin sent
  /\ m \in dead \cup failed
  /\ replays < MaxReplays
  /\ replays' = replays + 1
  /\ dead' = dead \ {m}
  /\ attempts' = [attempts EXCEPT ![m] = 0]
  /\ due' = [due EXCEPT ![m] = 0]
  /\ UNCHANGED <<born, claim, sent, failed, saves, relay, stray, crashes, failures>>

\* Fifteen seconds pass.  With TimersOnTime no timer is late and a relay's own
\* database steps take no time.
Tick ==
  /\ TimersOnTime => \A r \in Relays : pc[r] \in {"idle", "sending"} /\ ~Overdue(r)
  /\ due' = [m \in Messages |-> Less(due[m])]
  /\ budget' = [r \in Relays |-> Less(budget[r])]
  /\ <<due', budget'>> # <<due, budget>>
  /\ UNCHANGED <<born, attempts, claim, sent, dead, failed, saves>>
  /\ UNCHANGED <<pc, token, todo, cur, stray, bounds>>

RelayStep(r) ==
  \/ Claim(r)
  \/ StartSend(r)
  \/ HandlerOk(r)
  \/ HandlerFail(r)
  \/ Abort(r)
  \/ SaveAndMark(r)
  \/ SaveAnswerLost(r)
  \/ SaveLosesClaim(r)
  \/ SaveFails(r)
  \/ RecordFailure(r)
  \/ Finish(r)

Next ==
  \/ \E m \in Messages : Enqueue(m) \/ StrayEnds(m) \/ Replay(m)
  \/ \E r \in Relays : RelayStep(r) \/ Crash(r)
  \/ Tick

Spec == Init /\ [][Next]_vars

\* A worker keeps running what it can run, and time passes.
Fairness ==
  /\ WF_vars(Tick)
  /\ \A r \in Relays : WF_vars(RelayStep(r))

FairSpec == Spec /\ Fairness

-----------------------------------------------------------------------------
(* Properties *)

\* The result of a call is saved at most once however many relays sent the
\* message, and it is saved exactly when the row says sent (outbox.ts 64-72).
SavedOnce == \A m \in Messages : saves[m] = IF m \in sent THEN 1 ELSE 0

\* A claimed row is neither sent nor dead, so no relay ever works on one that is
\* settled and the table's sent_or_dead constraint can never fail a relay.
ClaimIsPending ==
  /\ \A m \in Messages : claim[m] # NoToken => m \notin sent \cup dead
  /\ sent \cap dead = {}

\* Every row a live relay's token is on is one that relay still has to settle:
\* no drain ends with rows it silently kept.
ClaimIsOwned ==
  \A r \in Relays, m \in Messages :
    token[r] # NoToken /\ claim[m] = token[r] => m \in todo[r] \cup {cur[r]}

\* Both: whatever lapses, dies or is replayed, a claim stands only for work that
\* is still to do, by the relay that is going to do it (outbox.ts:55-79).
ClaimsAreSound == ClaimIsPending /\ ClaimIsOwned

\* A relay whose lease lapsed never touches what its successor does: a claim is
\* given up only by the relay that holds it, or taken once the row is due again.
OnlyOwnerReleases ==
  [][\A m \in Messages : claim[m] # NoToken /\ claim'[m] # claim[m] =>
       \/ due[m] = 0
       \/ \E r \in Relays : token[r] = claim[m] /\ cur[r] = m]_vars

\* What the table says became of a message.
State(m) ==
  IF born[m] = 0 THEN "none" ELSE IF m \in sent THEN "sent" ELSE IF m \in dead THEN "dead" ELSE "waiting"

Promised == INSTANCE Delivery WITH
  state <- [m \in Messages |-> State(m)],
  answered <- {m \in Messages : \E r \in Relays : pc[r] = "saving" /\ cur[r] = m}

\* Whatever relays, leases, crashes and lost answers do, the outbox is the queue
\* its users were promised: handed over at least once, saved once, given up only
\* to be replayed by a person (outbox.ts:1-15).
KeepsDeliveryPromise == Promised!Spec

\* What actions queue is in the end sent, or kept as dead for a person: however
\* long the relays run, they come to where nothing queued is unsettled.
EventuallySettled == []<>(Queued \subseteq sent \cup dead)
=============================================================================
