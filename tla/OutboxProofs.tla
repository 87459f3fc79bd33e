---------------------------- MODULE OutboxProofs ----------------------------
(***************************************************************************)
(* The claim token is enough: for any number of relays and messages, any   *)
(* batch size, any lease and any crashes, failures and replays.  And the   *)
(* bills whose e-invoices the relays ask for are shown as the portal has   *)
(* them.                                                                   *)
(***************************************************************************)
EXTENDS MCWorkers, FiniteSetTheorems, TLAPS

\* A relay's token, its place in drain() and its message go together.
RelayShape ==
  \A r \in Relays :
    /\ pc[r] = "idle" <=> token[r] = NoToken
    /\ pc[r] \in {"sending", "saving", "failing"} <=> cur[r] # NoMessage

\* No two relays hold the same token.
TokensDistinct ==
  \A r, s \in Relays : token[r] # NoToken /\ token[r] = token[s] => r = s

\* The inductive invariant.  SavedOnce alone is not inductive: that a mark can
\* only hit an unsent row follows from ClaimIsPending, which needs the token
\* of a relay to be a real one (RelayShape).
IInv ==
  /\ TypeOK
  /\ RelayShape
  /\ TokensDistinct
  /\ SavedOnce
  /\ ClaimIsPending
  /\ ClaimIsOwned

LEMMA PlusType == \A n \in 0..MaxAttempts : Plus(n) \in 0..MaxAttempts
  BY OutboxAssumption DEF Plus

LEMMA LessType == \A n \in Nat : Less(n) \in Nat
  BY DEF Less

LEMMA InitIInv == Init => IInv
  <1> SUFFICES ASSUME Init PROVE IInv
    OBVIOUS
  <1> USE OutboxAssumption DEF Init
  <1>1. TypeOK BY DEF TypeOK, Steps
  <1>2. RelayShape BY DEF RelayShape
  <1>3. TokensDistinct BY DEF TokensDistinct
  <1>4. SavedOnce BY DEF SavedOnce
  <1>5. ClaimIsPending BY DEF ClaimIsPending
  <1>6. ClaimIsOwned BY DEF ClaimIsOwned
  <1> QED BY <1>1, <1>2, <1>3, <1>4, <1>5, <1>6 DEF IInv

LEMMA NextIInv == IInv /\ [Next]_vars => IInv'
  <1> SUFFICES ASSUME IInv, [Next]_vars PROVE IInv'
    OBVIOUS
  <1> USE OutboxAssumption
  <1> USE DEF IInv
  <1>1. ASSUME NEW m \in Messages, Enqueue(m) PROVE IInv'
    <2> USE <1>1 DEF Enqueue, relay, bounds
    <2>0. Cardinality(Queued) + 1 \in Nat
      <3>1. Queued \subseteq Messages BY DEF Queued
      <3>2. IsFiniteSet(Queued) BY <3>1, FS_Subset, OutboxAssumption
      <3> QED BY <3>2, FS_CardinalityType
    <2>1. TypeOK' BY <2>0 DEF TypeOK
    <2>2. RelayShape' BY DEF RelayShape
    <2>3. TokensDistinct' BY DEF TokensDistinct
    <2>4. SavedOnce' BY DEF SavedOnce
    <2>5. ClaimIsPending' BY DEF ClaimIsPending
    <2>6. ClaimIsOwned' BY DEF ClaimIsOwned
    <2> QED BY <2>1, <2>2, <2>3, <2>4, <2>5, <2>6
  <1>2. ASSUME NEW r \in Relays, Claim(r) PROVE IInv'
    <2>0. PICK t \in FreshTokens, batch \in SUBSET Due :
            /\ claim' = [m \in Messages |-> IF m \in batch THEN t ELSE claim[m]]
            /\ attempts' = [m \in Messages |-> IF m \in batch THEN Plus(attempts[m]) ELSE attempts[m]]
            /\ due' = [m \in Messages |-> IF m \in batch THEN Lease ELSE due[m]]
            /\ token' = [token EXCEPT ![r] = t]
            /\ todo' = [todo EXCEPT ![r] = batch]
      BY <1>2 DEF Claim, Oldest
    <2>a. t \in Tokens /\ t # NoToken /\ (\A m \in Messages : claim[m] # t) /\ (\A s \in Relays : token[s] # t)
      BY DEF FreshTokens
    <2>b. batch \subseteq Messages /\ \A m \in batch : m \notin sent \cup dead
      BY DEF Due, Queued
    <2>c. pc[r] = "idle" /\ pc' = [pc EXCEPT ![r] = "ready"]
      BY <1>2 DEF Claim
    <2>d. UNCHANGED <<born, sent, dead, failed, saves, cur, budget, stray, crashes, failures, replays>>
      BY <1>2 DEF Claim, bounds
    <2>1. TypeOK'
      <3>1. attempts' \in [Messages -> 0..MaxAttempts]
        BY <2>0, PlusType DEF TypeOK
      <3> QED BY <2>0, <2>a, <2>b, <2>c, <2>d, <3>1 DEF TypeOK, Steps
    <2>2. RelayShape' BY <2>0, <2>a, <2>c, <2>d DEF RelayShape, TypeOK
    <2>3. TokensDistinct' BY <2>0, <2>a DEF TokensDistinct, TypeOK
    <2>4. SavedOnce' BY <2>d DEF SavedOnce
    <2>5. ClaimIsPending' BY <2>0, <2>b, <2>d DEF ClaimIsPending, TypeOK
    <2>6. ClaimIsOwned' BY <2>0, <2>a, <2>b, <2>d DEF ClaimIsOwned, TypeOK
    <2> QED BY <2>1, <2>2, <2>3, <2>4, <2>5, <2>6
  <1>3. ASSUME NEW r \in Relays, StartSend(r) PROVE IInv'
    <2>0. PICK m \in todo[r] :
            /\ cur' = [cur EXCEPT ![r] = m]
            /\ todo' = [todo EXCEPT ![r] = @ \ {m}]
      BY <1>3 DEF StartSend, Oldest
    <2>a. m \in Messages
      BY DEF TypeOK
    <2>b. /\ pc[r] = "ready"
          /\ pc' = [pc EXCEPT ![r] = "sending"]
          /\ budget' = [budget EXCEPT ![r] = Lease \div 2]
          /\ UNCHANGED <<row, token, stray, bounds>>
      BY <1>3 DEF StartSend
    <2> USE <2>0, <2>a, <2>b DEF row, bounds
    <2>1. TypeOK' BY OutboxAssumption DEF TypeOK, Steps
    <2>2. RelayShape' BY DEF RelayShape, TypeOK
    <2>3. TokensDistinct' BY DEF TokensDistinct, TypeOK
    <2>4. SavedOnce' BY DEF SavedOnce, TypeOK
    <2>5. ClaimIsPending' BY DEF ClaimIsPending, TypeOK
    <2>6. ClaimIsOwned'
      <3>1. cur[r] = NoMessage BY DEF RelayShape
      <3>2. \A s \in Relays : (todo[s] \cup {cur[s]}) \ {NoMessage} \subseteq todo'[s] \cup {cur'[s]}
        BY <3>1 DEF TypeOK
      <3>3. UNCHANGED <<claim, token>> OBVIOUS
      <3> QED BY <3>2, <3>3, NoMessage \notin Messages DEF ClaimIsOwned
    <2> QED BY <2>1, <2>2, <2>3, <2>4, <2>5, <2>6
  <1>4. ASSUME NEW r \in Relays, HandlerOk(r) \/ HandlerFail(r) \/ Abort(r) \/ SaveLosesClaim(r) \/ SaveFails(r) PROVE IInv'
    <2>0. cur[r] \in Messages
      BY <1>4 DEF HandlerOk, HandlerFail, Abort, SaveLosesClaim, SaveFails, RelayShape, TypeOK
    <2>a. stray' \subseteq Messages /\ failures' \in Nat
      BY <1>4, <2>0 DEF HandlerOk, HandlerFail, Abort, SaveLosesClaim, SaveFails, bounds, TypeOK
    <2>b. /\ pc' \in [Relays -> Steps]
          /\ \A s \in Relays \ {r} : pc'[s] = pc[s]
          /\ pc[r] \in {"sending", "saving"} /\ pc'[r] \in {"saving", "failing"}
      BY <1>4 DEF HandlerOk, HandlerFail, Abort, SaveLosesClaim, SaveFails, TypeOK, Steps
    <2>c. UNCHANGED <<row, token, todo, cur, budget, crashes, replays>>
      BY <1>4 DEF HandlerOk, HandlerFail, Abort, SaveLosesClaim, SaveFails, bounds
    <2> USE <2>0, <2>a, <2>b, <2>c DEF row
    <2>1. TypeOK' BY DEF TypeOK
    <2>2. RelayShape' BY DEF RelayShape, TypeOK
    <2>3. TokensDistinct' BY DEF TokensDistinct, TypeOK
    <2>4. SavedOnce' BY DEF SavedOnce, TypeOK
    <2>5. ClaimIsPending' BY DEF ClaimIsPending, TypeOK
    <2>6. ClaimIsOwned' BY DEF ClaimIsOwned, TypeOK
    <2> QED BY <2>1, <2>2, <2>3, <2>4, <2>5, <2>6
  <1>5. ASSUME NEW m \in Messages, StrayEnds(m) PROVE IInv'
    <2> USE <1>5 DEF StrayEnds, row, relay, bounds
    <2>1. TypeOK' BY LessType DEF TypeOK, Steps
    <2>2. RelayShape' BY DEF RelayShape, TypeOK
    <2>3. TokensDistinct' BY DEF TokensDistinct, TypeOK
    <2>4. SavedOnce' BY DEF SavedOnce, TypeOK
    <2>5. ClaimIsPending' BY DEF ClaimIsPending, TypeOK
    <2>6. ClaimIsOwned' BY DEF ClaimIsOwned, TypeOK
    <2> QED BY <2>1, <2>2, <2>3, <2>4, <2>5, <2>6
  <1>6. ASSUME NEW r \in Relays, SaveAndMark(r) PROVE IInv'
    <2>0. cur[r] \in Messages /\ token[r] \in Tokens /\ claim[cur[r]] = token[r]
      BY <1>6 DEF SaveAndMark, RelayShape, TypeOK
    <2>a. cur[r] \notin sent \cup dead
      BY <2>0 DEF ClaimIsPending
    <2> USE <1>6, <2>0, <2>a DEF SaveAndMark, MarkSent, Settle, bounds
    <2>1. TypeOK' BY DEF TypeOK, Steps
    <2>2. RelayShape' BY DEF RelayShape, TypeOK
    <2>3. TokensDistinct' BY DEF TokensDistinct, TypeOK
    <2>4. SavedOnce' BY DEF SavedOnce, TypeOK
    <2>5. ClaimIsPending' BY DEF ClaimIsPending, TypeOK
    <2>6. ClaimIsOwned' BY DEF ClaimIsOwned, TypeOK
    <2> QED BY <2>1, <2>2, <2>3, <2>4, <2>5, <2>6
  <1>7. ASSUME NEW r \in Relays, SaveAnswerLost(r) PROVE IInv'
    <2>0. cur[r] \in Messages /\ token[r] \in Tokens /\ claim[cur[r]] = token[r]
      BY <1>7 DEF SaveAnswerLost, RelayShape, TypeOK
    <2>a. cur[r] \notin sent \cup dead
      BY <2>0 DEF ClaimIsPending
    <2> USE <1>7, <2>0, <2>a DEF SaveAnswerLost, MarkSent
    <2>1. TypeOK' BY DEF TypeOK, Steps
    <2>2. RelayShape' BY DEF RelayShape, TypeOK
    <2>3. TokensDistinct' BY DEF TokensDistinct, TypeOK
    <2>4. SavedOnce' BY DEF SavedOnce, TypeOK
    <2>5. ClaimIsPending' BY DEF ClaimIsPending, TypeOK
    <2>6. ClaimIsOwned' BY DEF ClaimIsOwned, TypeOK
    <2> QED BY <2>1, <2>2, <2>3, <2>4, <2>5, <2>6
  <1>8. ASSUME NEW r \in Relays, RecordFailure(r) PROVE IInv'
    <2>0. cur[r] \in Messages /\ token[r] \in Tokens
      BY <1>8 DEF RecordFailure, RelayShape, TypeOK
    <2>a. claim[cur[r]] = token[r] => cur[r] \notin sent \cup dead
      BY <2>0 DEF ClaimIsPending
    <2> USE <1>8, <2>0, <2>a DEF RecordFailure, Settle, bounds
    <2>1. TypeOK'
      <3>a. pc' \in [Relays -> Steps] BY DEF TypeOK, Steps
      <3>b. cur' \in [Relays -> Messages \cup {NoMessage}] BY DEF TypeOK
      <3>c. UNCHANGED <<born, attempts, sent, saves, token, todo, budget, stray, crashes, failures, replays>>
        OBVIOUS
      <3>1. CASE claim[cur[r]] = token[r]
        <4>1. /\ claim' = [claim EXCEPT ![cur[r]] = NoToken]
              /\ due' = [due EXCEPT ![cur[r]] = Backoff[attempts[cur[r]]]]
              /\ failed' = failed \cup {cur[r]}
              /\ dead' \subseteq dead \cup {cur[r]}
          BY <3>1
        <4>2. Backoff[attempts[cur[r]]] \in Nat
          BY DEF TypeOK
        <4> HIDE <1>8 DEF RecordFailure
        <4> QED BY <3>a, <3>b, <3>c, <4>1, <4>2 DEF TypeOK
      <3>2. CASE claim[cur[r]] # token[r]
        <4>1. UNCHANGED <<claim, due, failed, dead>>
          BY <3>2
        <4> HIDE <1>8 DEF RecordFailure
        <4> QED BY <3>a, <3>b, <3>c, <4>1 DEF TypeOK
      <3> QED BY <3>1, <3>2
    <2>2. RelayShape' BY DEF RelayShape, TypeOK
    <2>3. TokensDistinct' BY DEF TokensDistinct, TypeOK
    <2>4. SavedOnce' BY DEF SavedOnce, TypeOK
    <2>5. ClaimIsPending'
      <3>1. CASE claim[cur[r]] = token[r]
        <4>1. /\ claim' = [claim EXCEPT ![cur[r]] = NoToken]
              /\ dead' \subseteq dead \cup {cur[r]}
              /\ UNCHANGED sent
          BY <3>1
        <4> HIDE <1>8 DEF RecordFailure
        <4> QED BY <4>1, <3>1, <2>0, <2>a DEF ClaimIsPending, TypeOK
      <3>2. CASE claim[cur[r]] # token[r]
        <4>1. UNCHANGED <<claim, dead, sent>> BY <3>2
        <4> HIDE <1>8 DEF RecordFailure
        <4> QED BY <4>1 DEF ClaimIsPending
      <3> QED BY <3>1, <3>2
    <2>6. ClaimIsOwned' BY DEF ClaimIsOwned, TypeOK
    <2> QED BY <2>1, <2>2, <2>3, <2>4, <2>5, <2>6
  <1>9. ASSUME NEW r \in Relays, Finish(r) \/ Crash(r) PROVE IInv'
    <2>0. /\ Forget(r)
          /\ UNCHANGED <<born, attempts, due, claim, sent, dead, failed, saves, stray, failures, replays>>
          /\ crashes' \in Nat
      BY <1>9 DEF Finish, Crash, row, bounds, TypeOK
    <2> USE <2>0 DEF Forget
    <2>1. TypeOK'
      <3>1. pc' \in [Relays -> Steps] BY DEF TypeOK, Steps
      <3>2. token' \in [Relays -> Tokens \cup {NoToken}] BY DEF TypeOK
      <3>3. todo' \in [Relays -> SUBSET Messages] BY DEF TypeOK
      <3>4. cur' \in [Relays -> Messages \cup {NoMessage}] BY DEF TypeOK
      <3>5. budget' \in [Relays -> Nat]
        <4> budget \in [Relays -> Nat] BY DEF TypeOK
        <4> QED OBVIOUS
      <3> HIDE DEF Forget
      <3> QED BY <3>1, <3>2, <3>3, <3>4, <3>5 DEF TypeOK
    <2>2. RelayShape' BY DEF RelayShape, TypeOK
    <2>3. TokensDistinct' BY DEF TokensDistinct, TypeOK
    <2>4. SavedOnce' BY DEF SavedOnce, TypeOK
    <2>5. ClaimIsPending' BY DEF ClaimIsPending, TypeOK
    <2>6. ClaimIsOwned' BY DEF ClaimIsOwned, TypeOK
    <2> QED BY <2>1, <2>2, <2>3, <2>4, <2>5, <2>6
  <1>10. ASSUME NEW m \in Messages, Replay(m) PROVE IInv'
    <2> USE <1>10 DEF Replay, relay
    <2>1. TypeOK'
      <3>1. attempts' \in [Messages -> 0..MaxAttempts] BY DEF TypeOK
      <3>2. due' \in [Messages -> Nat] BY DEF TypeOK
      <3>3. dead' \subseteq Messages /\ replays' \in Nat BY DEF TypeOK
      <3>4. UNCHANGED <<born, claim, sent, failed, saves, pc, token, todo, cur, budget, stray, crashes, failures>>
        OBVIOUS
      <3> HIDE <1>10 DEF Replay, relay
      <3> QED BY <3>1, <3>2, <3>3, <3>4 DEF TypeOK
    <2>2. RelayShape' BY DEF RelayShape, TypeOK
    <2>3. TokensDistinct' BY DEF TokensDistinct, TypeOK
    <2>4. SavedOnce' BY DEF SavedOnce, TypeOK
    <2>5. ClaimIsPending' BY DEF ClaimIsPending, TypeOK
    <2>6. ClaimIsOwned' BY DEF ClaimIsOwned, TypeOK
    <2> QED BY <2>1, <2>2, <2>3, <2>4, <2>5, <2>6
  <1>11. ASSUME Tick PROVE IInv'
    <2> USE <1>11 DEF Tick, bounds
    <2>1. TypeOK' BY LessType DEF TypeOK, Steps
    <2>2. RelayShape' BY DEF RelayShape, TypeOK
    <2>3. TokensDistinct' BY DEF TokensDistinct, TypeOK
    <2>4. SavedOnce' BY DEF SavedOnce, TypeOK
    <2>5. ClaimIsPending' BY DEF ClaimIsPending, TypeOK
    <2>6. ClaimIsOwned' BY DEF ClaimIsOwned, TypeOK
    <2> QED BY <2>1, <2>2, <2>3, <2>4, <2>5, <2>6
  <1>12. ASSUME UNCHANGED vars PROVE IInv'
    <2> USE <1>12 DEF vars
    <2>1. TypeOK' BY LessType DEF TypeOK, Steps
    <2>2. RelayShape' BY DEF RelayShape, TypeOK
    <2>3. TokensDistinct' BY DEF TokensDistinct, TypeOK
    <2>4. SavedOnce' BY DEF SavedOnce, TypeOK
    <2>5. ClaimIsPending' BY DEF ClaimIsPending, TypeOK
    <2>6. ClaimIsOwned' BY DEF ClaimIsOwned, TypeOK
    <2> QED BY <2>1, <2>2, <2>3, <2>4, <2>5, <2>6
  <1> QED
    BY <1>1, <1>2, <1>3, <1>4, <1>5, <1>6, <1>7, <1>8, <1>9, <1>10, <1>11, <1>12
    DEF Next, RelayStep

\* What the table and the relays hold is always well formed (outbox.ts).
THEOREM TypeCorrect == Spec => []TypeOK
  <1>1. IInv => TypeOK BY DEF IInv
  <1> QED BY <1>1, InitIInv, NextIInv, PTL DEF Spec

\* A result is saved exactly once for a sent row and never for another, for any
\* number of relays and whatever lapses, crashes or is replayed (outbox.ts 64-72).
THEOREM SavedExactlyOnce == Spec => []SavedOnce
  <1>1. IInv => SavedOnce BY DEF IInv
  <1> QED BY <1>1, InitIInv, NextIInv, PTL DEF Spec

\* No claimed row is settled, so sent_or_dead can never fail a relay, and a drain
\* never ends with a row it has claimed and not settled (outbox.ts 55-79).
THEOREM ClaimsStaySound == Spec => []ClaimsAreSound
  <1>1. IInv => ClaimsAreSound BY DEF IInv, ClaimsAreSound
  <1> QED BY <1>1, InitIInv, NextIInv, PTL DEF Spec

LEMMA ReleaseStep ==
  ASSUME IInv, [Next]_vars,
         NEW m \in Messages, claim[m] # NoToken, claim'[m] # claim[m]
  PROVE  due[m] = 0 \/ \E r \in Relays : token[r] = claim[m] /\ cur[r] = m
  <1>1. ASSUME NEW r \in Relays, Claim(r) PROVE due[m] = 0
    <2>1. PICK t \in FreshTokens, batch \in SUBSET Due :
            claim' = [k \in Messages |-> IF k \in batch THEN t ELSE claim[k]]
      BY <1>1 DEF Claim, Oldest
    <2> QED BY <2>1 DEF Due
  <1>2. ASSUME NEW r \in Relays, SaveAndMark(r) \/ SaveAnswerLost(r)
        PROVE  token[r] = claim[m] /\ cur[r] = m
    BY <1>2 DEF SaveAndMark, SaveAnswerLost, MarkSent, IInv, TypeOK
  <1>3. ASSUME NEW r \in Relays, RecordFailure(r)
        PROVE  token[r] = claim[m] /\ cur[r] = m
    <2>1. claim[cur[r]] = token[r] /\ claim' = [claim EXCEPT ![cur[r]] = NoToken]
      BY <1>3 DEF RecordFailure
    <2> QED BY <2>1 DEF IInv, TypeOK
  <1>4. CASE UNCHANGED claim
    BY <1>4
  <1>5. ASSUME NEW r \in Relays,
               StartSend(r) \/ HandlerOk(r) \/ HandlerFail(r) \/ Abort(r) \/ SaveLosesClaim(r)
                 \/ SaveFails(r) \/ Finish(r) \/ Crash(r)
        PROVE  UNCHANGED claim
    BY <1>5 DEF StartSend, HandlerOk, HandlerFail, Abort, SaveLosesClaim, SaveFails, Finish, Crash, row
  <1>6. ASSUME NEW k \in Messages, Enqueue(k) \/ StrayEnds(k) \/ Replay(k)
        PROVE  UNCHANGED claim
    BY <1>6 DEF Enqueue, StrayEnds, Replay, row
  <1>7. Tick \/ UNCHANGED vars => UNCHANGED claim
    BY DEF Tick, vars
  <1> QED BY <1>1, <1>2, <1>3, <1>4, <1>5, <1>6, <1>7 DEF Next, RelayStep

\* A relay whose lease lapsed never undoes what its successor does (outbox.ts 68, 82).
THEOREM OwnersRelease == Spec => OnlyOwnerReleases
  <1>1. IInv /\ [Next]_vars =>
          [\A m \in Messages : claim[m] # NoToken /\ claim'[m] # claim[m] =>
             \/ due[m] = 0
             \/ \E r \in Relays : token[r] = claim[m] /\ cur[r] = m]_vars
    BY ReleaseStep
  <1> QED BY <1>1, InitIInv, NextIInv, PTL DEF Spec, OnlyOwnerReleases

-----------------------------------------------------------------------------
(* The outbox implements Delivery: what the table says became of a message *)
(* and the relays that hold an answer to it are its state.                 *)
States == [m \in Messages |-> State(m)]
Holds(r, m) == pc[r] = "saving" /\ cur[r] = m
Answered == {m \in Messages : \E r \in Relays : Holds(r, m)}

\* Only queued messages are settled or worked on.
QueuedOnly ==
  /\ sent \cup dead \subseteq Queued
  /\ \A r \in Relays : todo[r] \subseteq Queued /\ (cur[r] # NoMessage => cur[r] \in Queued)

LEMMA InitQueued == Init => QueuedOnly
  BY DEF Init, QueuedOnly

LEMMA NextQueued == IInv /\ QueuedOnly /\ [Next]_vars => QueuedOnly'
  <1> SUFFICES ASSUME IInv, QueuedOnly, [Next]_vars PROVE QueuedOnly'
    OBVIOUS
  <1> USE OutboxAssumption DEF QueuedOnly, Queued
  <1>t. TypeOK /\ RelayShape
    BY DEF IInv
  <1>1. ASSUME NEW m \in Messages, Enqueue(m) PROVE QueuedOnly'
    <2>1. Cardinality(Queued) + 1 > 0
      <3>1. Queued \subseteq Messages OBVIOUS
      <3>2. IsFiniteSet(Queued) BY <3>1, FS_Subset
      <3>3. Cardinality(Queued) \in Nat BY <3>2, FS_CardinalityType
      <3> QED BY <3>3
    <2>2. \A k \in Messages : born[k] > 0 => born'[k] > 0
      BY <1>1, <1>t, <2>1 DEF Enqueue, TypeOK, Queued
    <2> QED BY <1>1, <1>t, <2>2 DEF Enqueue, relay, TypeOK
  <1>2. ASSUME NEW r \in Relays, Claim(r) PROVE QueuedOnly'
    <2>1. PICK batch \in SUBSET Due : todo' = [todo EXCEPT ![r] = batch]
      BY <1>2 DEF Claim, Oldest
    <2> QED BY <1>2, <1>t, <2>1 DEF Claim, Due, TypeOK
  <1>3. ASSUME NEW r \in Relays, StartSend(r) PROVE QueuedOnly'
    <2>1. PICK m \in todo[r] : cur' = [cur EXCEPT ![r] = m] /\ todo' = [todo EXCEPT ![r] = @ \ {m}]
      BY <1>3 DEF StartSend, Oldest
    <2> QED BY <1>3, <1>t, <2>1 DEF StartSend, row, TypeOK
  <1>4. ASSUME NEW r \in Relays, SaveAndMark(r) \/ SaveAnswerLost(r) PROVE QueuedOnly'
    <2>1. cur[r] \in Queued
      BY <1>4, <1>t DEF SaveAndMark, SaveAnswerLost, RelayShape
    <2>2. born' = born /\ sent' = sent \cup {cur[r]} /\ dead' = dead /\ todo' = todo
      BY <1>4 DEF SaveAndMark, SaveAnswerLost, MarkSent, Settle
    <2>3. \A s \in Relays : cur'[s] \in {cur[s], NoMessage}
      BY <1>4, <1>t DEF SaveAndMark, SaveAnswerLost, Settle, TypeOK
    <2> QED BY <2>1, <2>2, <2>3
  <1>5. ASSUME NEW r \in Relays, RecordFailure(r) PROVE QueuedOnly'
    <2>1. cur[r] \in Queued
      BY <1>5, <1>t DEF RecordFailure, RelayShape
    <2>2. dead' \subseteq dead \cup {cur[r]}
      BY <1>5 DEF RecordFailure
    <2>3. sent' = sent /\ born' = born /\ todo' = todo /\ cur' = [cur EXCEPT ![r] = NoMessage]
      BY <1>5 DEF RecordFailure, Settle
    <2> QED BY <1>t, <2>1, <2>2, <2>3 DEF TypeOK
  <1>6. ASSUME NEW r \in Relays,
               HandlerOk(r) \/ HandlerFail(r) \/ Abort(r) \/ SaveLosesClaim(r) \/ SaveFails(r)
        PROVE  QueuedOnly'
    BY <1>6 DEF HandlerOk, HandlerFail, Abort, SaveLosesClaim, SaveFails, row
  <1>7. ASSUME NEW r \in Relays, Finish(r) \/ Crash(r) PROVE QueuedOnly'
    BY <1>7, <1>t DEF Finish, Crash, Forget, row, TypeOK
  <1>8. ASSUME NEW m \in Messages, StrayEnds(m) \/ Replay(m) PROVE QueuedOnly'
    BY <1>8 DEF StrayEnds, Replay, row, relay
  <1>9. CASE Tick \/ UNCHANGED vars
    BY <1>9 DEF Tick, vars
  <1> QED BY <1>1, <1>2, <1>3, <1>4, <1>5, <1>6, <1>7, <1>8, <1>9 DEF Next, RelayStep

\* What a step of one relay does to the answers held.
LEMMA OneAnswer ==
  ASSUME TypeOK, NEW r \in Relays, cur[r] \in Messages,
         \A s \in Relays \ {r} : pc'[s] = pc[s] /\ cur'[s] = cur[s],
         pc[r] = "saving", pc'[r] # "saving"
  PROVE  Answered' \in {Answered, Answered \ {cur[r]}}
  <1>1. \A m \in Messages, s \in Relays : s # r => (Holds(s, m)' <=> Holds(s, m))
    BY DEF Holds
  <1>2. \A m \in Messages : Holds(r, m) <=> m = cur[r]
    BY DEF Holds
  <1>3. \A m \in Messages : ~Holds(r, m)'
    BY DEF Holds
  <1>4. \A m \in Messages : m # cur[r] => (m \in Answered' <=> m \in Answered)
    BY <1>1, <1>2, <1>3 DEF Answered
  <1>5. CASE cur[r] \in Answered'
    <2>1. cur[r] \in Answered BY <1>1, <1>3, <1>5 DEF Answered
    <2> QED BY <1>4, <1>5, <2>1 DEF Answered
  <1>6. CASE cur[r] \notin Answered'
    BY <1>4, <1>6 DEF Answered
  <1> QED BY <1>5, <1>6

\* A step that takes no relay in or out of saving leaves the answers alone.
LEMMA SameAnswers ==
  ASSUME \A r \in Relays : (pc'[r] = pc[r] /\ cur'[r] = cur[r]) \/ (pc[r] # "saving" /\ pc'[r] # "saving")
  PROVE  Answered' = Answered
  <1>1. \A r \in Relays, m \in Messages : Holds(r, m)' <=> Holds(r, m)
    BY DEF Holds
  <1> QED BY <1>1 DEF Answered

\* Where the table says the same, nothing became of any message.
LEMMA SameStates ==
  ASSUME UNCHANGED <<born, sent, dead>>
  PROVE  States' = States
  BY DEF States, State

LEMMA RefinedStep ==
  ASSUME IInv, QueuedOnly, [Next]_vars
  PROVE  \/ UNCHANGED <<States, Answered, saves>>
         \/ \E m \in Messages :
              \/ /\ State(m) = "none" /\ States' = [States EXCEPT ![m] = "waiting"]
                 /\ UNCHANGED <<Answered, saves>>
              \/ /\ State(m) # "none" /\ m \notin Answered /\ Answered' = Answered \cup {m}
                 /\ UNCHANGED <<States, saves>>
              \/ /\ m \in Answered /\ Answered' = Answered \ {m}
                 /\ UNCHANGED <<States, saves>>
              \/ /\ State(m) = "waiting" /\ m \in Answered /\ States' = [States EXCEPT ![m] = "sent"]
                 /\ saves' = [saves EXCEPT ![m] = @ + 1]
                 /\ Answered' \in {Answered, Answered \ {m}}
              \/ /\ State(m) = "waiting" /\ States' = [States EXCEPT ![m] = "dead"]
                 /\ UNCHANGED <<Answered, saves>>
              \/ /\ State(m) = "dead" /\ States' = [States EXCEPT ![m] = "waiting"]
                 /\ UNCHANGED <<Answered, saves>>
  <1>t. TypeOK /\ RelayShape /\ ClaimIsPending
    BY DEF IInv
  <1> DEFINE Goal == \/ UNCHANGED <<States, Answered, saves>>
         \/ \E m \in Messages :
              \/ /\ State(m) = "none" /\ States' = [States EXCEPT ![m] = "waiting"]
                 /\ UNCHANGED <<Answered, saves>>
              \/ /\ State(m) # "none" /\ m \notin Answered /\ Answered' = Answered \cup {m}
                 /\ UNCHANGED <<States, saves>>
              \/ /\ m \in Answered /\ Answered' = Answered \ {m}
                 /\ UNCHANGED <<States, saves>>
              \/ /\ State(m) = "waiting" /\ m \in Answered /\ States' = [States EXCEPT ![m] = "sent"]
                 /\ saves' = [saves EXCEPT ![m] = @ + 1]
                 /\ Answered' \in {Answered, Answered \ {m}}
              \/ /\ State(m) = "waiting" /\ States' = [States EXCEPT ![m] = "dead"]
                 /\ UNCHANGED <<Answered, saves>>
              \/ /\ State(m) = "dead" /\ States' = [States EXCEPT ![m] = "waiting"]
                 /\ UNCHANGED <<Answered, saves>>
  <1>1. ASSUME NEW m \in Messages, Enqueue(m) PROVE Goal
    <2>1. State(m) = "none" /\ m \notin sent \cup dead
      BY <1>1 DEF Enqueue, State, QueuedOnly, Queued
    <2>2. born'[m] # 0
      <3>1. Queued \subseteq Messages BY DEF Queued
      <3>2. IsFiniteSet(Queued) BY <3>1, FS_Subset, OutboxAssumption
      <3>3. Cardinality(Queued) \in Nat BY <3>2, FS_CardinalityType
      <3> QED BY <1>1, <1>t, <3>3 DEF Enqueue, TypeOK
    <2>3. sent' = sent /\ dead' = dead /\ saves' = saves /\ pc' = pc /\ cur' = cur
          /\ \A k \in Messages : k # m => born'[k] = born[k]
      BY <1>1, <1>t DEF Enqueue, relay, TypeOK
    <2>4. States' = [States EXCEPT ![m] = "waiting"]
      BY <2>1, <2>2, <2>3 DEF States, State
    <2>5. Answered' = Answered BY <2>3, SameAnswers
    <2> QED BY <2>1, <2>3, <2>4, <2>5
  <1>2. ASSUME NEW r \in Relays, HandlerOk(r) PROVE Goal
    <2>1. cur[r] \in Messages /\ State(cur[r]) # "none"
      BY <1>2, <1>t DEF HandlerOk, RelayShape, TypeOK, State, QueuedOnly, Queued
    <2>2. States' = States /\ saves' = saves
      BY <1>2, SameStates DEF HandlerOk, row
    <2>3. cur' = cur /\ pc' = [pc EXCEPT ![r] = "saving"] /\ pc[r] # "saving"
      BY <1>2 DEF HandlerOk
    <2>4. \A m \in Messages, s \in Relays : Holds(s, m)' <=> Holds(s, m) \/ (s = r /\ m = cur[r])
      BY <1>t, <2>3 DEF Holds, TypeOK
    <2>5. Answered' = Answered \cup {cur[r]}
      BY <2>1, <2>4 DEF Answered
    <2>6. CASE cur[r] \in Answered
      BY <2>2, <2>5, <2>6
    <2>7. CASE cur[r] \notin Answered
      BY <2>1, <2>2, <2>5, <2>7
    <2> QED BY <2>6, <2>7
  <1>3. ASSUME NEW r \in Relays, SaveAndMark(r) \/ SaveAnswerLost(r) PROVE Goal
    <2>0. pc[r] = "saving" /\ claim[cur[r]] = token[r] /\ MarkSent(cur[r])
      BY <1>3 DEF SaveAndMark, SaveAnswerLost
    <2>1. cur[r] \in Messages /\ token[r] # NoToken
      BY <2>0, <1>t DEF RelayShape, TypeOK
    <2>2. State(cur[r]) = "waiting" /\ cur[r] \in Answered
      <3>1. cur[r] \notin sent \cup dead BY <2>0, <2>1, <1>t DEF ClaimIsPending
      <3>2. born[cur[r]] # 0 BY <2>1, <1>t, OutboxAssumption DEF QueuedOnly, Queued
      <3> QED BY <2>0, <2>1, <3>1, <3>2 DEF State, Answered, Holds
    <2>3. States' = [States EXCEPT ![cur[r]] = "sent"]
      <3>1. born' = born /\ dead' = dead /\ sent' = sent \cup {cur[r]} BY <2>0 DEF MarkSent
      <3>2. born[cur[r]] # 0 BY <2>2 DEF State
      <3> QED BY <3>1, <3>2 DEF States, State
    <2>4. saves' = [saves EXCEPT ![cur[r]] = @ + 1]
      BY <2>0 DEF MarkSent
    <2>5. pc'[r] # "saving" /\ \A s \in Relays \ {r} : pc'[s] = pc[s] /\ cur'[s] = cur[s]
      BY <1>3, <1>t DEF SaveAndMark, SaveAnswerLost, Settle, TypeOK
    <2>6. Answered' \in {Answered, Answered \ {cur[r]}}
      BY <1>t, <2>0, <2>1, <2>5, OneAnswer
    <2> QED BY <2>1, <2>2, <2>3, <2>4, <2>6
  <1>4. ASSUME NEW r \in Relays, SaveLosesClaim(r) \/ SaveFails(r) \/ Crash(r) \/ Finish(r) PROVE Goal
    <2>1. States' = States /\ saves' = saves
      BY <1>4, SameStates DEF SaveLosesClaim, SaveFails, Crash, Finish, row
    <2>2. pc'[r] # "saving" /\ \A s \in Relays \ {r} : pc'[s] = pc[s] /\ cur'[s] = cur[s]
      BY <1>4, <1>t DEF SaveLosesClaim, SaveFails, Crash, Finish, Forget, TypeOK
    <2>3. CASE pc[r] # "saving"
      BY <2>1, <2>2, <2>3, SameAnswers
    <2>4. CASE pc[r] = "saving"
      <3>1. cur[r] \in Messages /\ cur[r] \in Answered
        BY <2>4, <1>t DEF RelayShape, TypeOK, Answered, Holds
      <3>2. Answered' \in {Answered, Answered \ {cur[r]}}
        BY <1>t, <2>2, <2>4, <3>1, OneAnswer
      <3> QED BY <2>1, <3>1, <3>2
    <2> QED BY <2>3, <2>4
  <1>5. ASSUME NEW r \in Relays, RecordFailure(r) PROVE Goal
    <2>1. cur[r] \in Messages /\ token[r] # NoToken /\ cur[r] \in Queued
      BY <1>5, <1>t DEF RecordFailure, RelayShape, TypeOK, QueuedOnly
    <2>2. saves' = saves /\ born' = born /\ sent' = sent /\ Answered' = Answered
      <3>1. \A s \in Relays : (pc'[s] = pc[s] /\ cur'[s] = cur[s]) \/ (pc[s] # "saving" /\ pc'[s] # "saving")
        BY <1>5, <1>t DEF RecordFailure, Settle, TypeOK
      <3> QED BY <1>5, <3>1, SameAnswers DEF RecordFailure
    <2>3. CASE dead' = dead
      BY <2>2, <2>3, SameStates
    <2>4. CASE dead' # dead
      <3>1. claim[cur[r]] = token[r] /\ dead' \in {dead \cup {cur[r]}, dead \ {cur[r]}}
        BY <1>5, <2>4 DEF RecordFailure
      <3>2. cur[r] \notin sent \cup dead
        BY <1>t, <2>1, <3>1 DEF ClaimIsPending
      <3>3. dead' = dead \cup {cur[r]}
        BY <2>4, <3>1, <3>2
      <3>4. born[cur[r]] # 0 BY <2>1 DEF Queued
      <3>5. State(cur[r]) = "waiting" /\ States' = [States EXCEPT ![cur[r]] = "dead"]
        BY <2>2, <3>2, <3>3, <3>4 DEF State, States
      <3> QED BY <2>1, <2>2, <3>5
    <2> QED BY <2>3, <2>4
  <1>6. ASSUME NEW m \in Messages, Replay(m) PROVE Goal
    <2>1. /\ born' = born /\ sent' = sent /\ saves' = saves /\ dead' = dead \ {m} /\ m \notin sent
          /\ pc' = pc /\ cur' = cur /\ born[m] # 0
      BY <1>6, <1>t DEF Replay, relay, TypeOK
    <2>2. Answered' = Answered BY <2>1, SameAnswers
    <2>3. CASE m \in dead
      <3>1. State(m) = "dead" /\ States' = [States EXCEPT ![m] = "waiting"]
        BY <2>1, <2>3 DEF State, States
      <3> QED BY <2>1, <2>2, <3>1
    <2>4. CASE m \notin dead
      <3>1. dead' = dead BY <2>1, <2>4
      <3> QED BY <2>1, <2>2, <3>1, SameStates
    <2> QED BY <2>3, <2>4
  <1>7. ASSUME NEW r \in Relays, Claim(r) \/ StartSend(r) \/ HandlerFail(r) \/ Abort(r) PROVE Goal
    <2>1. UNCHANGED <<born, sent, dead, saves>>
      BY <1>7 DEF Claim, StartSend, HandlerFail, Abort, row
    <2>2. \A s \in Relays : (pc'[s] = pc[s] /\ cur'[s] = cur[s]) \/ (pc[s] # "saving" /\ pc'[s] # "saving")
      <3>1. CASE Claim(r) BY <1>t, <3>1 DEF Claim, TypeOK
      <3>2. CASE StartSend(r) BY <1>t, <3>2 DEF StartSend, TypeOK
      <3>3. CASE HandlerFail(r) \/ Abort(r) BY <1>t, <3>3 DEF HandlerFail, Abort, TypeOK
      <3> QED BY <1>7, <3>1, <3>2, <3>3
    <2> QED BY <2>1, <2>2, SameStates, SameAnswers
  <1>8. CASE UNCHANGED <<born, sent, dead, saves, pc, cur>>
    BY <1>8, SameStates, SameAnswers
  <1>9. ASSUME NEW m \in Messages, StrayEnds(m) PROVE Goal
    <2>1. UNCHANGED <<born, sent, dead, saves, pc, cur>>
      BY <1>9 DEF StrayEnds, row, relay
    <2> QED BY <1>8, <2>1
  <1>10. ASSUME Tick \/ UNCHANGED vars PROVE Goal
    <2>1. UNCHANGED <<born, sent, dead, saves, pc, cur>>
      BY <1>10 DEF Tick, vars
    <2> QED BY <1>8, <2>1
  <1> HIDE DEF Goal
  <1>11. Goal
    BY <1>1, <1>2, <1>3, <1>4, <1>5, <1>6, <1>7, <1>9, <1>10 DEF Next, RelayStep
  <1> QED BY <1>11 DEF Goal

\* However many relays, leases, crashes, lost answers and replays there are, the
\* outbox is the queue its users were promised (outbox.ts:1-15): a message is
\* answered before it is saved, saved once, and given up only for a person.
THEOREM PromiseKept == Spec => KeepsDeliveryPromise
  <1>1. Init => Promised!Init
    <2> SUFFICES ASSUME Init PROVE Promised!Init
      OBVIOUS
    <2>1. \A m \in Messages : State(m) = "none" BY DEF Init, State
    <2>2. \A r \in Relays : pc[r] # "saving" BY DEF Init
    <2> QED BY <2>1, <2>2 DEF Init, Promised!Init
  <1>2. IInv /\ QueuedOnly /\ [Next]_vars => [Promised!Next]_(Promised!vars)
    <2> SUFFICES ASSUME IInv, QueuedOnly, [Next]_vars
                 PROVE  Promised!Next \/ UNCHANGED Promised!vars
      OBVIOUS
    <2> QED BY RefinedStep
        DEF Promised!Next, Promised!vars, Promised!Enqueue, Promised!Answer, Promised!Lose, Promised!Save,
            Promised!GiveUp, Promised!Replay, States, Answered, Holds
  <1> QED BY <1>1, <1>2, InitIInv, NextIInv, InitQueued, NextQueued, PTL
      DEF Spec, KeepsDeliveryPromise, Promised!Spec
-----------------------------------------------------------------------------
(* The e-invoices that the relays and people ask for.  `Held' and `Lapsing'  *)
(* differ in when a lease may end and in how often a process may die: what   *)
(* is said of records and portal below holds whichever it is.                *)

Askers == Relays \cup People
Call == [step : {"claimed", "asking", "answered"}, op : {"send", "register", "retry", "reconcile", "cancel"},
         bill : Bills, seen : Held!Records, answer : Held!Answers]
Working(p) == asking[p] # Held!Idle
Submits == {"send", "register", "retry"}

InvoiceTypes ==
  /\ record \in [Bills -> Held!Records]
  /\ portal \in [Bills -> {"unknown", "active", "cancelled"}]
  /\ asking \in [Askers -> Held!Calls]
  /\ drift \subseteq Bills

\* What the screen says of a bill, the portal has said before it.
RecordsTrue ==
  \A b \in Bills :
    /\ record[b].status \in Held!Finished => portal[b] # "unknown"
    /\ record[b].status = "CANCELLED" => portal[b] = "cancelled"

\* What a call knows of its bill was so, and the portal never goes back.
CallTrue(c) ==
  /\ c.answer = "registered" => portal[c.bill] # "unknown"
  /\ c.answer = "cancelled" => portal[c.bill] = "cancelled"
  /\ c.seen.status \in Held!Finished => portal[c.bill] # "unknown"
  /\ c.seen.status = "CANCELLED" => portal[c.bill] = "cancelled"
  /\ c.op = "cancel" => c.seen.status \in Held!Finished
  /\ c.step = "claimed" => c.op = "send"
CallsTrue == \A p \in Askers : Working(p) => CallTrue(asking[p])

\* Somebody has the answer that makes the record follow the portal.
Brings(p, b) ==
  /\ asking[p].step = "answered" /\ asking[p].answer = "registered"
  /\ asking[p].op \in Submits /\ asking[p].bill = b
NewsComing ==
  \A b \in Bills :
    portal[b] # "unknown" /\ record[b].status \notin Held!Finished /\ b \notin drift => \E p \in Askers : Brings(p, b)

InvoicesTrue == InvoiceTypes /\ RecordsTrue /\ CallsTrue /\ NewsComing

LEMMA CallFacts ==
  ASSUME InvoiceTypes, NEW p \in Askers
  PROVE  /\ Working(p) => asking[p] \in Call
         /\ asking[p].step \in {"claimed", "asking", "answered"} => Working(p)
  BY DEF InvoiceTypes, Working, Call, Held!Calls, Held!Idle

LEMMA CompletedType ==
  ASSUME NEW c \in Call
  PROVE  Held!Completed(c) \in Held!Records
  BY DEF Call, Held!Completed, Held!Records, Held!Finished

LEMMA CompletedTrue ==
  ASSUME NEW c \in Call, CallTrue(c)
  PROVE  /\ Held!Completed(c).status \in Held!Finished => portal[c.bill] # "unknown"
         /\ Held!Completed(c).status = "CANCELLED" => portal[c.bill] = "cancelled"
  <1>1. c.seen \in [status : {"none", "PENDING", "FAILED"} \cup Held!Finished, failure : {"none", "retry", "final"}]
    BY DEF Call, Held!Records
  <1> QED BY <1>1 DEF CallTrue, Held!Completed, Held!Finished

\* A call that ends, with its answer saved or lost; `known' is a difference from
\* the portal that is put down to it.
Saves(p, new, stale, known) ==
  LET b == asking[p].bill
  IN /\ record' = IF stale \/ ~Held!MayWrite(record[b], new) THEN record ELSE [record EXCEPT ![b] = new]
     /\ asking' = [asking EXCEPT ![p] = Held!Idle]
     /\ drift' = Held!Drifted(b, stale \/ known)
     /\ portal' = portal

LEMMA SavesKeeps ==
  ASSUME InvoicesTrue, NEW p \in Askers, Working(p), NEW new \in Held!Records, NEW stale \in BOOLEAN, NEW known \in BOOLEAN,
         Saves(p, new, stale, known),
         \/ stale
         \/ asking[p].answer = "nothing" /\ new = record[asking[p].bill]
         \/ asking[p].step = "answered" /\ new = Held!Completed(asking[p])
  PROVE  InvoicesTrue'
  <1> DEFINE b == asking[p].bill
             c == asking[p]
  <1>1. c \in Call /\ CallTrue(c) /\ b \in Bills
    BY CallFacts DEF InvoicesTrue, CallsTrue, Call
  <1>2. InvoiceTypes'
    <2>1. record' \in [Bills -> Held!Records]
      BY <1>1 DEF Saves, InvoicesTrue, InvoiceTypes
    <2>2. asking' \in [Askers -> Held!Calls]
      BY DEF Saves, InvoicesTrue, InvoiceTypes, Held!Calls
    <2>3. drift' \subseteq Bills
      BY <1>1 DEF Saves, InvoicesTrue, InvoiceTypes, Held!Drifted
    <2> QED BY <2>1, <2>2, <2>3 DEF Saves, InvoicesTrue, InvoiceTypes
  <1>3. /\ \A q \in Askers : q # p => asking'[q] = asking[q]
        /\ asking'[p] = Held!Idle
    BY DEF Saves, InvoicesTrue, InvoiceTypes
  <1>4. /\ \A d \in Bills : d # b => record'[d] = record[d]
        /\ record'[b] = record[b] \/ (~stale /\ Held!MayWrite(record[b], new) /\ record'[b] = new)
        /\ ~stale /\ Held!MayWrite(record[b], new) => record'[b] = new
    BY <1>1 DEF Saves, InvoicesTrue, InvoiceTypes
  <1>5. RecordsTrue'
    <2>1. record'[b].status \in Held!Finished => portal[b] # "unknown"
      BY <1>1, <1>4, CompletedTrue DEF InvoicesTrue, RecordsTrue
    <2>2. record'[b].status = "CANCELLED" => portal[b] = "cancelled"
      BY <1>1, <1>4, CompletedTrue DEF InvoicesTrue, RecordsTrue
    <2> QED BY <2>1, <2>2, <1>4 DEF RecordsTrue, InvoicesTrue, Saves
  <1>6. CallsTrue'
    BY <1>3 DEF CallsTrue, CallTrue, Working, InvoicesTrue, Saves
  <1>7. NewsComing'
    <2> SUFFICES ASSUME NEW d \in Bills, portal[d] # "unknown", record'[d].status \notin Held!Finished, d \notin drift'
                 PROVE  \E q \in Askers : Brings(q, d)'
      BY DEF NewsComing, Saves
    <2>0. d = b => ~Held!Agree(record'[b], portal'[b])
      BY DEF Saves, Held!Agree, Held!Finished
    <2>1. d \notin drift
      BY <2>0 DEF Saves, Held!Drifted
    <2>2. d = b => ~stale
      BY <2>0 DEF Saves, Held!Drifted
    <2>3. record[d].status \notin Held!Finished
      BY <1>4 DEF Held!MayWrite
    <2>4. PICK q \in Askers : Brings(q, d)
      BY <2>1, <2>3 DEF InvoicesTrue, NewsComing
    <2>5. q # p
      <3> SUFFICES ASSUME q = p PROVE FALSE
        OBVIOUS
      <3>1. d = b /\ c.step = "answered" /\ c.answer = "registered" /\ c.op \in Submits
        BY <2>4 DEF Brings
      <3>2. record'[b] = new
        BY <3>1, <2>2, <2>3, <1>4 DEF Held!MayWrite
      <3>3. CASE new = Held!Completed(c)
        <4>1. Held!Completed(c) = [c.seen EXCEPT !.status = "REGISTERED"]
          BY <3>1 DEF Held!Completed, Submits
        <4>2. c.seen \in Held!Records
          BY <1>1 DEF Call
        <4>3. record'[b].status = "REGISTERED"
          BY <3>2, <3>3, <4>1, <4>2 DEF Held!Records
        <4> QED BY <4>3, <3>1 DEF Held!Finished
      <3> QED BY <3>1, <2>2, <3>3
    <2> QED BY <2>4, <2>5, <1>3 DEF Brings
  <1> QED BY <1>2, <1>5, <1>6, <1>7 DEF InvoicesTrue

LEMMA StartsKeeps ==
  ASSUME InvoicesTrue, NEW p \in Askers, NEW c \in Call, ~Working(p), c.step # "answered", c.answer = "none",
         c.seen = record[c.bill] \/ (c.op # "cancel" /\ c.seen = Held!Pending(record[c.bill])),
         c.op = "cancel" => record[c.bill].status = "REGISTERED",
         c.step = "claimed" => c.op = "send",
         asking' = [asking EXCEPT ![p] = c], UNCHANGED <<record, portal, drift>>
  PROVE  InvoicesTrue'
  <1>1. c.bill \in Bills /\ record[c.bill] \in [status : {"none", "PENDING", "FAILED"} \cup Held!Finished, failure : {"none", "retry", "final"}]
    BY DEF Call, InvoicesTrue, InvoiceTypes, Held!Records
  <1>2. CallTrue(c)
    BY <1>1 DEF CallTrue, Held!Pending, Held!Finished, InvoicesTrue, RecordsTrue
  <1>3. InvoiceTypes'
    BY DEF InvoicesTrue, InvoiceTypes, Call, Held!Calls
  <1>4. /\ \A q \in Askers : q # p => asking'[q] = asking[q]
        /\ asking'[p] = c
    BY DEF InvoicesTrue, InvoiceTypes
  <1>5. RecordsTrue'
    BY DEF InvoicesTrue, RecordsTrue
  <1>6. CallsTrue'
    BY <1>2, <1>4 DEF InvoicesTrue, CallsTrue, CallTrue, Working
  <1>7. NewsComing'
    <2> SUFFICES ASSUME NEW b \in Bills, portal[b] # "unknown", record[b].status \notin Held!Finished, b \notin drift
                 PROVE  \E q \in Askers : Brings(q, b)'
      BY DEF NewsComing
    <2>1. PICK q \in Askers : Brings(q, b)
      BY DEF InvoicesTrue, NewsComing
    <2>2. q # p
      BY <2>1, CallFacts DEF Brings, InvoicesTrue
    <2> QED BY <2>1, <2>2, <1>4 DEF Brings
  <1> QED BY <1>3, <1>5, <1>6, <1>7 DEF InvoicesTrue

\* A call goes on: it asks, or has an answer; nobody else hears of it.
GoesOn(p, step, seen, answer) ==
  /\ Working(p) /\ asking[p].step # "answered"
  /\ asking' = [asking EXCEPT ![p].step = step, ![p].seen = seen, ![p].answer = answer]

LEMMA GoesOnKeeps ==
  ASSUME InvoicesTrue, NEW p \in Askers, NEW step \in {"asking", "answered"}, NEW seen \in Held!Records, NEW answer \in Held!Answers,
         GoesOn(p, step, seen, answer)
  PROVE  /\ asking' \in [Askers -> Held!Calls]
         /\ \A q \in Askers : q # p => asking'[q] = asking[q]
         /\ asking'[p] \in Call
         /\ asking'[p].step = step /\ asking'[p].seen = seen /\ asking'[p].answer = answer
         /\ asking'[p].op = asking[p].op /\ asking'[p].bill = asking[p].bill
         /\ \A q \in Askers, b \in Bills : Brings(q, b) => Brings(q, b)'
  <1>1. asking[p] \in Call
    BY CallFacts DEF GoesOn, InvoicesTrue
  <1>2. asking'[p] = [asking[p] EXCEPT !.step = step, !.seen = seen, !.answer = answer]
    BY DEF GoesOn, InvoicesTrue, InvoiceTypes
  <1>3. asking'[p] \in Call
    BY <1>1, <1>2 DEF Call
  <1>4. \A q \in Askers : q # p => asking'[q] = asking[q]
    BY DEF GoesOn, InvoicesTrue, InvoiceTypes
  <1>5. asking' \in [Askers -> Held!Calls]
    BY <1>3, <1>4 DEF GoesOn, InvoicesTrue, InvoiceTypes, Call, Held!Calls
  <1>6. /\ asking'[p].step = step /\ asking'[p].seen = seen /\ asking'[p].answer = answer
        /\ asking'[p].op = asking[p].op /\ asking'[p].bill = asking[p].bill
    BY <1>1, <1>2 DEF Call
  <1>7. ASSUME NEW q \in Askers, NEW b \in Bills, Brings(q, b) PROVE Brings(q, b)'
    BY <1>4, <1>7 DEF Brings, GoesOn
  <1> QED BY <1>3, <1>4, <1>5, <1>6, <1>7

LEMMA PrepareKeeps ==
  ASSUME InvoicesTrue, NEW r \in Relays, Held!Prepare(r)
  PROVE  InvoicesTrue'
  <1> DEFINE b == asking[r].bill
  <1>1. r \in Askers /\ Working(r) /\ asking[r] \in Call /\ CallTrue(asking[r]) /\ b \in Bills
    BY CallFacts DEF InvoicesTrue, CallsTrue, Call, Held!Prepare, Askers
  <1>2. portal' = portal /\ drift' = drift
    BY DEF Held!Prepare
  <1>3. record[b] \in [status : {"none", "PENDING", "FAILED"} \cup Held!Finished, failure : {"none", "retry", "final"}]
    BY <1>1 DEF InvoicesTrue, InvoiceTypes, Held!Records
  <1>4. PICK step \in {"asking", "answered"}, seen \in Held!Records, answer \in Held!Answers :
          /\ GoesOn(r, step, seen, answer)
          /\ answer \in {"none", "nothing", asking[r].answer}
          /\ \/ step = "answered" /\ answer = "nothing" /\ seen = asking[r].seen /\ record' = record
             \/ /\ record[b].status \notin Held!Finished
                /\ step = "asking" /\ answer = asking[r].answer /\ seen = Held!Pending(record[b])
                /\ record' = [record EXCEPT ![b] = Held!Pending(@)]
    <2>1. CASE Held!Answered(r, "nothing") /\ record' = record
      <3>1. GoesOn(r, "answered", asking[r].seen, "nothing")
        BY <2>1, <1>1 DEF GoesOn, Held!Answered, Held!Prepare, InvoicesTrue, InvoiceTypes, Call
      <3>2. asking[r].seen \in Held!Records /\ "nothing" \in Held!Answers
        BY <1>1 DEF Call, Held!Answers
      <3> QED BY <3>1, <3>2, <2>1
    <2>2. CASE Held!Send(r) /\ record[b].status \notin Held!Finished
      <3>1. GoesOn(r, "asking", Held!Pending(record[b]), asking[r].answer)
        BY <2>2, <1>1 DEF GoesOn, Held!Send, Held!Prepare, InvoicesTrue, InvoiceTypes, Call
      <3>2. asking[r].answer \in Held!Answers /\ Held!Pending(record[b]) \in Held!Records
        BY <1>1, <1>3 DEF Call, Held!Pending, Held!Records
      <3>3. record' = [record EXCEPT ![b] = Held!Pending(@)]
        BY <2>2 DEF Held!Send
      <3> QED BY <3>1, <3>2, <3>3, <2>2
    <2> QED BY <2>1, <2>2 DEF Held!Prepare
  <1>5. /\ asking' \in [Askers -> Held!Calls]
        /\ \A q \in Askers : q # r => asking'[q] = asking[q]
        /\ asking'[r] \in Call
        /\ asking'[r].step = step /\ asking'[r].seen = seen /\ asking'[r].answer = answer
        /\ asking'[r].op = asking[r].op /\ asking'[r].bill = asking[r].bill
        /\ \A q \in Askers, d \in Bills : Brings(q, d) => Brings(q, d)'
    BY <1>1, <1>4, GoesOnKeeps
  <1>6. /\ record' \in [Bills -> Held!Records]
        /\ \A d \in Bills : record'[d] = record[d] \/ (record[d].status \notin Held!Finished /\ record'[d].status = "PENDING")
    <2>1. CASE record' = record
      BY <2>1 DEF InvoicesTrue, InvoiceTypes
    <2>2. CASE record[b].status \notin Held!Finished /\ record' = [record EXCEPT ![b] = Held!Pending(@)]
      BY <2>2, <1>1, <1>3 DEF InvoicesTrue, InvoiceTypes, Held!Pending, Held!Records
    <2> QED BY <1>4, <2>1, <2>2
  <1>7. InvoiceTypes'
    BY <1>2, <1>5, <1>6 DEF InvoicesTrue, InvoiceTypes
  <1>8. RecordsTrue'
    BY <1>2, <1>6 DEF InvoicesTrue, RecordsTrue, Held!Finished
  <1>9. CallTrue(asking[r])'
    <2>1. seen = asking[r].seen \/ (seen.status = "PENDING" /\ record[b].status \notin Held!Finished)
      BY <1>3, <1>4 DEF Held!Pending
    <2>2. asking[r].op # "cancel" \/ seen = asking[r].seen
      BY <1>1 DEF CallTrue, Held!Prepare
    <2> QED BY <2>1, <2>2, <1>1, <1>2, <1>4, <1>5 DEF CallTrue, Held!Finished
  <1>10. CallsTrue'
    BY <1>2, <1>5, <1>9 DEF InvoicesTrue, CallsTrue, CallTrue, Working
  <1>11. NewsComing'
    BY <1>2, <1>5, <1>6 DEF InvoicesTrue, NewsComing, Held!Finished
  <1> QED BY <1>7, <1>8, <1>10, <1>11 DEF InvoicesTrue

\* The portal answers p about its bill, which it may have acted on.
LEMMA AnsweredKeeps ==
  ASSUME InvoicesTrue, NEW p \in Askers, Working(p), asking[p].step = "asking", NEW answer \in Held!Answers, Held!Answered(p, answer),
         portal' \in [Bills -> {"unknown", "active", "cancelled"}],
         \A b \in Bills : b # asking[p].bill => portal'[b] = portal[b],
         portal[asking[p].bill] # "unknown" => portal'[asking[p].bill] # "unknown",
         portal[asking[p].bill] = "cancelled" => portal'[asking[p].bill] = "cancelled",
         answer = "registered" => portal'[asking[p].bill] # "unknown",
         answer = "cancelled" => portal'[asking[p].bill] = "cancelled",
         drift' \in {drift, drift \cup {asking[p].bill}},
         \/ portal[asking[p].bill] # "unknown" \/ portal'[asking[p].bill] = "unknown" \/ asking[p].bill \in drift'
         \/ answer = "registered" /\ asking[p].op \in Submits,
         record' = record
  PROVE  InvoicesTrue'
  <1> DEFINE b == asking[p].bill
  <1>1. asking[p] \in Call /\ CallTrue(asking[p]) /\ b \in Bills
    BY CallFacts DEF InvoicesTrue, CallsTrue, Call
  <1>2. GoesOn(p, "answered", asking[p].seen, answer) /\ asking[p].seen \in Held!Records
    BY <1>1 DEF GoesOn, Held!Answered, InvoicesTrue, InvoiceTypes, Call
  <1>3. /\ asking' \in [Askers -> Held!Calls]
        /\ \A q \in Askers : q # p => asking'[q] = asking[q]
        /\ asking'[p] \in Call
        /\ asking'[p].step = "answered" /\ asking'[p].seen = asking[p].seen /\ asking'[p].answer = answer
        /\ asking'[p].op = asking[p].op /\ asking'[p].bill = b
        /\ \A q \in Askers, d \in Bills : Brings(q, d) => Brings(q, d)'
    BY <1>2, GoesOnKeeps
  <1>4. \A d \in Bills :
          /\ portal[d] # "unknown" => portal'[d] # "unknown"
          /\ portal[d] = "cancelled" => portal'[d] = "cancelled"
    OBVIOUS
  <1>5. InvoiceTypes'
    BY <1>1, <1>3 DEF InvoicesTrue, InvoiceTypes
  <1>6. RecordsTrue'
    BY <1>4 DEF InvoicesTrue, RecordsTrue
  <1>7. CallTrue(asking[p])'
    BY <1>1, <1>3, <1>4 DEF CallTrue
  <1>8. ASSUME NEW q \in Askers, q # p, Working(q)' PROVE CallTrue(asking[q])'
    <2>1. Working(q) /\ asking'[q] = asking[q]
      BY <1>3, <1>8 DEF Working
    <2>2. CallTrue(asking[q]) /\ asking[q].bill \in Bills
      BY <2>1, CallFacts DEF InvoicesTrue, CallsTrue, Call
    <2> QED BY <2>1, <2>2, <1>4 DEF CallTrue
  <1>9. CallsTrue'
    BY <1>7, <1>8 DEF CallsTrue
  <1>10. NewsComing'
    <2> SUFFICES ASSUME NEW d \in Bills, portal'[d] # "unknown", record[d].status \notin Held!Finished, d \notin drift'
                 PROVE  \E q \in Askers : Brings(q, d)'
      BY DEF NewsComing
    <2>1. CASE portal[d] # "unknown"
      <3>1. \E q \in Askers : Brings(q, d)
        BY <2>1 DEF InvoicesTrue, NewsComing
      <3> QED BY <3>1, <1>3
    <2>2. CASE portal[d] = "unknown"
      <3>1. d = b /\ answer = "registered" /\ asking[p].op \in Submits
        BY <2>2
      <3> QED BY <3>1, <1>3 DEF Brings
    <2> QED BY <2>1, <2>2
  <1> QED BY <1>5, <1>6, <1>9, <1>10 DEF InvoicesTrue

LEMMA PortalKeeps ==
  ASSUME InvoicesTrue, NEW p \in Askers, Held!Generate(p) \/ Held!Fetch(p) \/ Held!Cancel(p)
  PROVE  InvoicesTrue'
  <1> DEFINE b == asking[p].bill
  <1>1. Working(p) /\ asking[p] \in Call /\ CallTrue(asking[p]) /\ b \in Bills /\ asking[p].step = "asking"
    BY CallFacts DEF InvoicesTrue, CallsTrue, Call, Held!Generate, Held!Fetch, Held!Cancel
  <1>2. portal \in [Bills -> {"unknown", "active", "cancelled"}]
    BY DEF InvoicesTrue, InvoiceTypes
  <1>3. CASE Held!Generate(p)
    <2> DEFINE held == IF portal[b] = "unknown" THEN "active" ELSE portal[b]
    <2>1. record' = record /\ asking[p].op \in Submits
      BY <1>3 DEF Held!Generate, Submits
    <2>2. CASE Held!Answered(p, "registered") /\ portal' = [portal EXCEPT ![b] = held] /\ drift' = drift
      <3>1. "registered" \in Held!Answers BY DEF Held!Answers
      <3> QED BY <1>1, <1>2, <2>1, <2>2, <3>1, AnsweredKeeps
    <2>3. CASE \E answer \in {"unavailable", "refused"} :
                 /\ Held!Answered(p, answer)
                 /\ portal' \in {portal, [portal EXCEPT ![b] = held]}
                 /\ drift' = IF portal'[b] # "unknown" THEN drift \cup {b} ELSE drift
      <3>1. PICK answer \in {"unavailable", "refused"} :
                 /\ Held!Answered(p, answer)
                 /\ portal' \in {portal, [portal EXCEPT ![b] = held]}
                 /\ drift' = IF portal'[b] # "unknown" THEN drift \cup {b} ELSE drift
        BY <2>3
      <3>2. answer \in Held!Answers BY DEF Held!Answers
      <3> QED BY <1>1, <1>2, <2>1, <3>1, <3>2, AnsweredKeeps
    <2> QED BY <1>3, <2>2, <2>3 DEF Held!Generate
  <1>4. CASE Held!Fetch(p)
    <2>1. record' = record /\ portal' = portal /\ drift' = drift
      BY <1>4 DEF Held!Fetch
    <2>2. PICK answer \in {"unavailable", "notFound", "registered", "cancelled"} :
            /\ Held!Answered(p, answer)
            /\ answer = "registered" => portal[b] # "unknown"
            /\ answer = "cancelled" => portal[b] = "cancelled"
      <3>1. portal[b] \in {"unknown", "active", "cancelled"}
        BY <1>1, <1>2
      <3>2. CASE Held!Answered(p, "unavailable")
        BY <3>2
      <3>3. CASE Held!Answered(p, CASE portal[b] = "unknown" -> "notFound" [] portal[b] = "active" -> "registered"
                                    [] portal[b] = "cancelled" -> "cancelled")
        <4>1. CASE portal[b] = "unknown"
          <5>1. Held!Answered(p, "notFound") BY <3>3, <4>1
          <5> QED BY <5>1
        <4>2. CASE portal[b] = "active"
          <5>1. Held!Answered(p, "registered") BY <3>3, <4>2
          <5> QED BY <5>1, <4>2
        <4>3. CASE portal[b] = "cancelled"
          <5>1. Held!Answered(p, "cancelled") BY <3>3, <4>3
          <5> QED BY <5>1, <4>3
        <4> QED BY <3>1, <4>1, <4>2, <4>3
      <3> QED BY <1>4, <3>2, <3>3 DEF Held!Fetch
    <2>3. answer \in Held!Answers BY DEF Held!Answers
    <2> QED BY <1>1, <1>2, <2>1, <2>2, <2>3, AnsweredKeeps
  <1>5. CASE Held!Cancel(p)
    <2>1. record' = record /\ drift' \in {drift, drift \cup {b}}
      BY <1>5 DEF Held!Cancel
    <2>2. portal[b] # "unknown"
      BY <1>1, <1>5 DEF CallTrue, Held!Cancel
    <2>3. PICK answer \in {"cancelled", "refused", "unavailable"} :
            /\ Held!Answered(p, answer)
            /\ portal' \in {portal, [portal EXCEPT ![b] = "cancelled"]}
            /\ answer = "cancelled" => portal' = [portal EXCEPT ![b] = "cancelled"]
      BY <1>5 DEF Held!Cancel
    <2>4. answer \in Held!Answers BY DEF Held!Answers
    <2> QED BY <1>1, <1>2, <2>1, <2>2, <2>3, <2>4, AnsweredKeeps
  <1> QED BY <1>3, <1>4, <1>5

-----------------------------------------------------------------------------
(* As long as leases hold.                                                   *)

\* A relay at work has the row, which still waits.
RelaysHold ==
  \A r \in Relays : Working(r) =>
    asking[r].op = "send" /\ taker[asking[r].bill] = r /\ message[asking[r].bill] = "queued"

\* A request at work has the lock, and the record is as it found it.
RequestsLock ==
  \A p \in People : Working(p) =>
    /\ lock = p /\ asking[p].op # "send"
    /\ asking[p].op \in {"reconcile", "cancel"} => asking[p].seen = record[asking[p].bill]

AnswerFits(p) ==
  /\ asking[p].op \in Submits => asking[p].answer \in {"nothing", "registered", "refused", "unavailable"}
  /\ asking[p].answer = "nothing" =>
       asking[p].op = "send" /\ (record[asking[p].bill].status \in Held!Finished \/ asking[p].bill \in barred)
AnswersFit == \A p \in Askers : Working(p) /\ asking[p].step = "answered" => AnswerFits(p)

SentSettled == \A b \in Bills : message[b] = "sent" /\ b \notin barred => record[b].status # "PENDING"

RowTypes ==
  /\ message \in [Bills -> {"none", "queued", "sent", "dead"}]
  /\ taker \in [Bills -> Relays \cup {Nobody}]

InvoicesSettled == RowTypes /\ RelaysHold /\ RequestsLock /\ AnswersFit /\ SentSettled

LEMMA BillOf ==
  ASSUME InvoicesTrue, NEW p \in Askers, Working(p)
  PROVE  asking[p].bill \in Bills
  BY CallFacts DEF InvoicesTrue, Call

\* Nothing happens to the record or the row, and at most p's work ends.
LEMMA EndsSettled ==
  ASSUME InvoicesTrue, InvoicesSettled, NEW p \in Askers, asking' = [asking EXCEPT ![p] = Held!Idle],
         record' = record, barred' = barred, UNCHANGED <<message, taker>>,
         lock' = lock \/ (p \in People /\ Working(p) /\ lock' = Nobody)
  PROVE  InvoicesSettled'
  <1>1. /\ \A q \in Askers : q # p => asking'[q] = asking[q]
        /\ asking'[p] = Held!Idle
    BY DEF InvoicesTrue, InvoiceTypes
  <1>2. RowTypes' /\ RelaysHold' /\ SentSettled' /\ AnswersFit'
    BY <1>1 DEF InvoicesSettled, RowTypes, RelaysHold, SentSettled, AnswersFit, AnswerFits, Working, Askers
  <1>3. RequestsLock'
    BY <1>1 DEF InvoicesSettled, RequestsLock, Working, Askers
  <1> QED BY <1>2, <1>3 DEF InvoicesSettled

LEMMA RowsSettled ==
  ASSUME InvoicesTrue, InvoicesSettled, NEW b \in Bills, Held!Issue(b) \/ Held!Lapse(b) \/ Held!Bar(b)
  PROVE  InvoicesSettled'
  <1>1. asking' = asking /\ record' = record /\ lock' = lock /\ barred \subseteq barred'
    BY DEF Held!Issue, Held!Lapse, Held!Bar
  <1>2. RowTypes'
    BY DEF InvoicesSettled, RowTypes, Held!Issue, Held!Lapse, Held!Bar
  <1>3. RelaysHold'
    <2> SUFFICES ASSUME NEW r \in Relays, Working(r)
                 PROVE  asking[r].op = "send" /\ taker'[asking[r].bill] = r /\ message'[asking[r].bill] = "queued"
      BY <1>1 DEF RelaysHold, Working
    <2>1. asking[r].op = "send" /\ taker[asking[r].bill] = r /\ message[asking[r].bill] = "queued" /\ asking[r].bill \in Bills
      BY BillOf DEF InvoicesSettled, RelaysHold, Askers
    <2>2. CASE Held!Issue(b)
      BY <2>1, <2>2 DEF Held!Issue, InvoicesSettled, RowTypes
    <2>3. CASE Held!Lapse(b)
      BY <2>1, <2>3 DEF Held!Lapse, InvoicesSettled, RowTypes, Working
    <2>4. CASE Held!Bar(b)
      BY <2>1, <2>4 DEF Held!Bar
    <2> QED BY <2>2, <2>3, <2>4
  <1>4. RequestsLock'
    BY <1>1 DEF InvoicesSettled, RequestsLock, Working
  <1>5. AnswersFit'
    BY <1>1 DEF InvoicesSettled, AnswersFit, AnswerFits, Working
  <1>6. SentSettled'
    BY <1>1 DEF InvoicesSettled, RowTypes, SentSettled, Held!Issue, Held!Lapse, Held!Bar
  <1> QED BY <1>2, <1>3, <1>4, <1>5, <1>6 DEF InvoicesSettled

LEMMA TakeSettled ==
  ASSUME InvoicesTrue, InvoicesSettled, NEW r \in Relays, NEW b \in Bills, Held!Take(r, b)
  PROVE  InvoicesSettled'
  <1> DEFINE c == [step |-> "claimed", op |-> "send", bill |-> b, seen |-> record[b], answer |-> "none"]
  <1>1. /\ \A q \in Askers : q # r => asking'[q] = asking[q]
        /\ asking'[r] = c
        /\ c.step = "claimed" /\ c.op = "send" /\ c.bill = b
    BY DEF InvoicesTrue, InvoiceTypes, Held!Take, Askers
  <1> HIDE DEF c
  <1>2. record' = record /\ barred' = barred /\ lock' = lock /\ message' = message
    BY DEF Held!Take
  <1>3. RowTypes'
    BY DEF InvoicesSettled, RowTypes, Held!Take
  <1>4. RelaysHold'
    <2> SUFFICES ASSUME NEW s \in Relays, Working(s)'
                 PROVE  asking'[s].op = "send" /\ taker'[asking'[s].bill] = s /\ message[asking'[s].bill] = "queued"
      BY <1>2 DEF RelaysHold
    <2>1. CASE s = r
      BY <2>1, <1>1 DEF Held!Take, InvoicesSettled, RowTypes
    <2>2. CASE s # r
      <3>1. asking'[s] = asking[s] /\ Working(s)
        BY <2>2, <1>1 DEF Working, Askers
      <3>2. asking[s].op = "send" /\ taker[asking[s].bill] = s /\ message[asking[s].bill] = "queued" /\ asking[s].bill \in Bills
        BY <3>1, BillOf DEF InvoicesSettled, RelaysHold, Askers
      <3>3. asking[s].bill # b
        BY <3>2, InvoiceAssumption DEF Held!Take
      <3> QED BY <3>1, <3>2, <3>3 DEF Held!Take, InvoicesSettled, RowTypes
    <2> QED BY <2>1, <2>2
  <1>5. RequestsLock'
    BY <1>1, <1>2, InvoiceAssumption DEF InvoicesSettled, RequestsLock, Working, Askers
  <1>6. AnswersFit'
    BY <1>1, <1>2 DEF InvoicesSettled, AnswersFit, AnswerFits, Working
  <1>7. SentSettled'
    BY <1>2 DEF InvoicesSettled, SentSettled
  <1> QED BY <1>3, <1>4, <1>5, <1>6, <1>7 DEF InvoicesSettled

LEMMA BeginSettled ==
  ASSUME InvoicesTrue, InvoicesSettled, NEW p \in People,
         NEW op \in {"register", "retry", "reconcile", "cancel"}, NEW b \in Bills, Held!Begin(p, op, b)
  PROVE  InvoicesSettled'
  <1> DEFINE c == [step |-> "asking", op |-> op, bill |-> b, answer |-> "none",
                   seen |-> IF op \in {"register", "retry"} THEN Held!Pending(record[b]) ELSE record[b]]
  <1>1. /\ \A q \in Askers : q # p => asking'[q] = asking[q]
        /\ asking'[p] = c
        /\ c.step = "asking" /\ c.op = op /\ c.bill = b
        /\ op \in {"reconcile", "cancel"} => c.seen = record[b]
    BY DEF InvoicesTrue, InvoiceTypes, Held!Begin, Askers
  <1> HIDE DEF c
  <1>2. UNCHANGED <<record, barred, message, taker>> /\ lock = Nobody /\ lock' = p
    BY DEF Held!Begin
  <1>3. RowTypes' /\ SentSettled'
    BY <1>2 DEF InvoicesSettled, RowTypes, SentSettled
  <1>4. RelaysHold'
    BY <1>1, <1>2, InvoiceAssumption DEF InvoicesSettled, RelaysHold, Working, Askers
  <1>5. RequestsLock'
    BY <1>1, <1>2, InvoiceAssumption DEF InvoicesSettled, RequestsLock, Working, Askers
  <1>6. AnswersFit'
    BY <1>1, <1>2 DEF InvoicesSettled, AnswersFit, AnswerFits, Working
  <1> QED BY <1>3, <1>4, <1>5, <1>6 DEF InvoicesSettled

\* p's call goes on.
LEMMA GoesOnSettled ==
  ASSUME InvoicesTrue, InvoicesSettled, NEW p \in Askers, Working(p), NEW step \in {"asking", "answered"},
         NEW seen \in Held!Records, NEW answer \in Held!Answers, GoesOn(p, step, seen, answer),
         p \in People => seen = asking[p].seen,
         step = "answered" /\ asking[p].op \in Submits => answer \in {"nothing", "registered", "refused", "unavailable"},
         step = "answered" /\ answer = "nothing" =>
           asking[p].op = "send" /\ (record[asking[p].bill].status \in Held!Finished \/ asking[p].bill \in barred),
         UNCHANGED <<barred, message, taker, lock>>,
         \A b \in Bills : record'[b] = record[b] \/ (b = asking[p].bill /\ p \in Relays /\ lock = Nobody /\ record[b].status \notin Held!Finished)
  PROVE  InvoicesSettled'
  <1>1. /\ \A q \in Askers : q # p => asking'[q] = asking[q]
        /\ asking'[p] \in Call
        /\ asking'[p].step = step /\ asking'[p].seen = seen /\ asking'[p].answer = answer
        /\ asking'[p].op = asking[p].op /\ asking'[p].bill = asking[p].bill
    BY GoesOnKeeps
  <1>2. RowTypes'
    BY DEF InvoicesSettled, RowTypes
  <1>3. RelaysHold'
    BY <1>1 DEF InvoicesSettled, RelaysHold, Working, Askers
  <1>4. RequestsLock'
    <2> SUFFICES ASSUME NEW q \in People, Working(q)'
                 PROVE  /\ lock = q /\ asking'[q].op # "send"
                        /\ asking'[q].op \in {"reconcile", "cancel"} => asking'[q].seen = record'[asking'[q].bill]
      BY DEF RequestsLock
    <2>1. /\ Working(q) /\ asking'[q].op = asking[q].op /\ asking'[q].bill = asking[q].bill /\ asking'[q].seen = asking[q].seen
      BY <1>1 DEF Working, Askers
    <2>2. /\ lock = q /\ asking[q].op # "send" /\ asking[q].bill \in Bills
          /\ asking[q].op \in {"reconcile", "cancel"} => asking[q].seen = record[asking[q].bill]
      BY <2>1, BillOf DEF InvoicesSettled, RequestsLock, Askers
    <2>3. lock # Nobody
      BY <2>2, InvoiceAssumption
    <2> QED BY <2>1, <2>2, <2>3
  <1>5. AnswersFit'
    <2> SUFFICES ASSUME NEW q \in Askers, Working(q)', asking'[q].step = "answered"
                 PROVE  AnswerFits(q)'
      BY DEF AnswersFit
    <2>1. CASE q = p
      <3>1. asking[p].bill \in Bills
        BY BillOf
      <3>2. record[asking[p].bill].status \in Held!Finished => record'[asking[p].bill].status \in Held!Finished
        BY <3>1
      <3>3. step = "answered"
        BY <2>1, <1>1
      <3>4. AnswerFits(p)'
        <4>1. asking'[p].op \in Submits => asking'[p].answer \in {"nothing", "registered", "refused", "unavailable"}
          BY <1>1, <3>3
        <4>2. answer = "nothing" =>
                asking[p].op = "send" /\ (record[asking[p].bill].status \in Held!Finished \/ asking[p].bill \in barred)
          BY <3>3
        <4>3. asking'[p].answer = "nothing" =>
                asking'[p].op = "send" /\ (record'[asking'[p].bill].status \in Held!Finished \/ asking'[p].bill \in barred')
          BY <1>1, <3>2, <4>2
        <4> QED BY <4>1, <4>3 DEF AnswerFits
      <3> QED BY <2>1, <3>4
    <2>2. CASE q # p
      <3>1. asking'[q] = asking[q] /\ Working(q)
        BY <2>2, <1>1 DEF Working
      <3>2. AnswerFits(q) /\ asking[q].bill \in Bills
        BY <3>1, BillOf DEF InvoicesSettled, AnswersFit
      <3> QED BY <3>1, <3>2 DEF AnswerFits
    <2> QED BY <2>1, <2>2
  <1>6. SentSettled'
    <2> SUFFICES ASSUME NEW b \in Bills, message[b] = "sent", b \notin barred PROVE record'[b].status # "PENDING"
      BY DEF SentSettled
    <2>1. record[b].status # "PENDING"
      BY DEF InvoicesSettled, SentSettled
    <2>2. p \in Relays => message[asking[p].bill] = "queued"
      BY DEF InvoicesSettled, RelaysHold
    <2> QED BY <2>1, <2>2
  <1> QED BY <1>2, <1>3, <1>4, <1>5, <1>6 DEF InvoicesSettled

\* A call that ends changes no bill but its own, and a finished one not back.
OnlyTouches(b) ==
  /\ \A d \in Bills : d # b => record'[d] = record[d]
  /\ record[b].status \in Held!Finished => record'[b].status \in Held!Finished

\* A relay gives its row up, whose message is sent, waits again or is dead.
LEMMA ClosesSettled ==
  ASSUME InvoicesTrue, InvoicesSettled, NEW r \in Relays, Working(r), asking' = [asking EXCEPT ![r] = Held!Idle],
         NEW m \in {"queued", "sent", "dead"}, message' = [message EXCEPT ![asking[r].bill] = m],
         taker' = [taker EXCEPT ![asking[r].bill] = Nobody], UNCHANGED <<barred, lock>>,
         OnlyTouches(asking[r].bill), lock = Nobody \/ record' = record,
         m = "sent" /\ asking[r].bill \notin barred => record'[asking[r].bill].status # "PENDING"
  PROVE  InvoicesSettled'
  <1> DEFINE b == asking[r].bill
  <1>1. /\ \A q \in Askers : q # r => asking'[q] = asking[q]
        /\ asking'[r] = Held!Idle
        /\ b \in Bills
    BY BillOf DEF InvoicesTrue, InvoiceTypes, Askers
  <1>2. RowTypes'
    BY <1>1 DEF InvoicesSettled, RowTypes
  <1>3. ASSUME NEW s \in Relays, Working(s)'
        PROVE  asking'[s] = asking[s] /\ Working(s) /\ s # r /\ asking[s].bill \in Bills /\ asking[s].bill # b
    <2>1. s # r /\ asking'[s] = asking[s] /\ Working(s)
      BY <1>1, <1>3 DEF Working, Askers
    <2> QED BY <2>1, BillOf DEF InvoicesSettled, RelaysHold, Askers
  <1>4. RelaysHold'
    <2> SUFFICES ASSUME NEW s \in Relays, Working(s)'
                 PROVE  asking'[s].op = "send" /\ taker'[asking'[s].bill] = s /\ message'[asking'[s].bill] = "queued"
      BY DEF RelaysHold
    <2>1. asking'[s] = asking[s] /\ Working(s) /\ asking[s].bill \in Bills /\ asking[s].bill # b
      BY <1>3
    <2> QED BY <2>1, <1>1 DEF InvoicesSettled, RelaysHold, RowTypes
  <1>5. ASSUME NEW p \in People, Working(p)' PROVE asking'[p] = asking[p] /\ Working(p) /\ lock = p /\ record' = record
    <2>1. asking'[p] = asking[p] /\ Working(p)
      BY <1>1, <1>5, InvoiceAssumption DEF Working, Askers
    <2> QED BY <2>1, InvoiceAssumption DEF InvoicesSettled, RequestsLock
  <1>6. RequestsLock'
    BY <1>5 DEF InvoicesSettled, RequestsLock
  <1>7. AnswersFit'
    <2> SUFFICES ASSUME NEW q \in Askers, Working(q)', asking'[q].step = "answered"
                 PROVE  AnswerFits(q)'
      BY DEF AnswersFit
    <2>1. asking'[q] = asking[q] /\ Working(q) /\ record'[asking[q].bill] = record[asking[q].bill]
      BY <1>3, <1>5 DEF Askers, OnlyTouches
    <2> QED BY <2>1 DEF InvoicesSettled, AnswersFit, AnswerFits
  <1>8. SentSettled'
    BY <1>1 DEF InvoicesSettled, SentSettled, RowTypes, OnlyTouches
  <1> QED BY <1>2, <1>4, <1>6, <1>7, <1>8 DEF InvoicesSettled

LEMMA CommitSettled ==
  ASSUME InvoicesTrue, InvoicesSettled, NEW p \in People, Working(p), asking' = [asking EXCEPT ![p] = Held!Idle],
         lock' = Nobody, UNCHANGED <<barred, message, taker>>, OnlyTouches(asking[p].bill),
         record'[asking[p].bill].status = "PENDING" => record[asking[p].bill].status = "PENDING"
  PROVE  InvoicesSettled'
  <1>1. /\ \A q \in Askers : q # p => asking'[q] = asking[q]
        /\ asking'[p] = Held!Idle
        /\ asking[p].bill \in Bills
    BY BillOf DEF InvoicesTrue, InvoiceTypes, Askers
  <1>2. RowTypes' /\ RelaysHold'
    BY <1>1 DEF InvoicesSettled, RowTypes, RelaysHold, Working, Askers
  <1>3. RequestsLock'
    BY <1>1 DEF InvoicesSettled, RequestsLock, Working, Askers
  <1>4. AnswersFit'
    <2> SUFFICES ASSUME NEW q \in Askers, Working(q)', asking'[q].step = "answered"
                 PROVE  AnswerFits(q)'
      BY DEF AnswersFit
    <2>1. asking'[q] = asking[q] /\ Working(q) /\ asking[q].bill \in Bills
      BY <1>1, BillOf DEF Working
    <2>2. record[asking[q].bill].status \in Held!Finished => record'[asking[q].bill].status \in Held!Finished
      BY <2>1 DEF OnlyTouches
    <2> QED BY <2>1, <2>2 DEF InvoicesSettled, AnswersFit, AnswerFits
  <1>5. SentSettled'
    BY <1>1 DEF InvoicesSettled, SentSettled, OnlyTouches
  <1> QED BY <1>2, <1>3, <1>4, <1>5 DEF InvoicesSettled

-----------------------------------------------------------------------------
(* The actions                                                               *)

\* What an answer makes of a record that a relay or a request submitted.
LEMMA SubmittedSettles ==
  ASSUME NEW c \in Call, c.op \in Submits, c.answer \in {"registered", "refused", "unavailable"}
  PROVE  Held!Completed(c).status # "PENDING"
  <1>1. c.seen \in [status : {"none", "PENDING", "FAILED"} \cup Held!Finished, failure : {"none", "retry", "final"}]
    BY DEF Call, Held!Records
  <1> QED BY <1>1 DEF Held!Completed, Submits

LEMMA OthersSettle ==
  ASSUME NEW c \in Call, c.op \notin Submits, Held!Completed(c).status = "PENDING"
  PROVE  Held!Completed(c) = c.seen /\ c.op \in {"reconcile", "cancel"}
  <1>1. c.seen \in [status : {"none", "PENDING", "FAILED"} \cup Held!Finished, failure : {"none", "retry", "final"}]
    BY DEF Call, Held!Records
  <1>2. c.op \in {"reconcile", "cancel"}
    BY DEF Call, Submits
  <1> QED BY <1>1, <1>2 DEF Held!Completed

\* The new record of a relay's finish.
NewOf(r) == IF asking[r].answer = "nothing" THEN record[asking[r].bill] ELSE Held!Completed(asking[r])

FinishesAs(r) ==
  /\ asking[r].step = "answered" /\ lock = Nobody /\ lock' = lock
  /\ Saves(r, NewOf(r), taker[asking[r].bill] # r,
           record[asking[r].bill].status = "CANCELLED" /\ record'[asking[r].bill].status = "REGISTERED")

LEMMA FinishSaves ==
  ASSUME NEW r \in Relays, Held!Finish(r) \/ Lapsing!Finish(r)
  PROVE  FinishesAs(r)
  <1>1. CASE Held!Finish(r)
    BY <1>1 DEF Held!Finish, Held!Failed, FinishesAs, Saves, NewOf
  <1>2. CASE Lapsing!Finish(r)
    BY <1>2 DEF Lapsing!Finish, Lapsing!Failed, FinishesAs, Saves, NewOf, Lapsing!MayWrite, Held!MayWrite, Lapsing!Finished, Held!Finished,
         Lapsing!Completed, Held!Completed, Lapsing!Drifted, Held!Drifted, Lapsing!Agree, Held!Agree, Lapsing!Idle, Held!Idle
  <1> QED BY <1>1, <1>2

LEMMA FinishKeeps ==
  ASSUME InvoicesTrue, NEW r \in Relays, FinishesAs(r)
  PROVE  InvoicesTrue'
  <1>1. r \in Askers /\ Working(r) /\ asking[r] \in Call /\ asking[r].bill \in Bills
    BY CallFacts DEF InvoicesTrue, FinishesAs, Askers, Call
  <1>2. NewOf(r) \in Held!Records /\ ((asking[r].answer = "nothing" /\ NewOf(r) = record[asking[r].bill]) \/ NewOf(r) = Held!Completed(asking[r]))
    BY <1>1, CompletedType DEF NewOf, InvoicesTrue, InvoiceTypes
  <1> QED BY <1>1, <1>2, SavesKeeps DEF FinishesAs

\* A call that ends without a word: the handler failed, the process died, the
\* commit was lost.
LEMMA LostKeeps ==
  ASSUME InvoicesTrue, NEW p \in Askers, Working(p), asking' = [asking EXCEPT ![p] = Held!Idle],
         UNCHANGED <<record, portal>>, drift' = Held!Drifted(asking[p].bill, TRUE)
  PROVE  InvoicesTrue'
  <1>1. record[asking[p].bill] \in Held!Records
    BY BillOf DEF InvoicesTrue, InvoiceTypes
  <1>2. Saves(p, record[asking[p].bill], TRUE, FALSE)
    BY DEF Saves
  <1> QED BY <1>1, <1>2, SavesKeeps

LEMMA CommitKeeps ==
  ASSUME InvoicesTrue, NEW p \in People, Held!Commit(p)
  PROVE  InvoicesTrue'
  <1>1. p \in Askers /\ Working(p) /\ asking[p] \in Call /\ asking[p].bill \in Bills
    BY CallFacts DEF InvoicesTrue, Held!Commit, Askers, Call
  <1>2. record' = IF Held!MayWrite(record[asking[p].bill], Held!Completed(asking[p]))
                  THEN [record EXCEPT ![asking[p].bill] = Held!Completed(asking[p])] ELSE record
    BY <1>1 DEF Held!Commit, InvoicesTrue, InvoiceTypes
  <1>3. Saves(p, Held!Completed(asking[p]), FALSE, FALSE)
    BY <1>2 DEF Saves, Held!Commit
  <1> QED BY <1>1, <1>3, SavesKeeps, CompletedType DEF Held!Commit

LEMMA BeginKeeps ==
  ASSUME InvoicesTrue, NEW p \in People, NEW op \in {"register", "retry", "reconcile", "cancel"}, NEW b \in Bills, Held!Begin(p, op, b)
  PROVE  InvoicesTrue'
  <1> DEFINE seen == IF op \in {"register", "retry"} THEN Held!Pending(record[b]) ELSE record[b]
             c == [step |-> "asking", op |-> op, bill |-> b, answer |-> "none", seen |-> seen]
  <1>1. record[b] \in [status : {"none", "PENDING", "FAILED"} \cup Held!Finished, failure : {"none", "retry", "final"}]
    BY DEF InvoicesTrue, InvoiceTypes, Held!Records
  <1>2. seen \in Held!Records
    BY <1>1 DEF Held!Pending, Held!Records
  <1>3. seen = record[b] \/ (op # "cancel" /\ seen = Held!Pending(record[b]))
    OBVIOUS
  <1>4. op = "cancel" => record[b].status = "REGISTERED"
    BY DEF Held!Begin, Held!Allowed
  <1>5. asking' = [asking EXCEPT ![p] = c] /\ UNCHANGED <<record, portal, drift>> /\ p \in Askers /\ ~Working(p)
    BY DEF Held!Begin, Askers, Working
  <1> HIDE DEF seen
  <1>6. c \in Call /\ c.step = "asking" /\ c.answer = "none" /\ c.op = op /\ c.bill = b /\ c.seen = seen
    BY <1>2 DEF Call, Held!Answers
  <1> HIDE DEF c
  <1> QED BY <1>3, <1>4, <1>5, <1>6, StartsKeeps

LEMMA TakeKeeps ==
  ASSUME InvoicesTrue, NEW r \in Relays, NEW b \in Bills, Held!Take(r, b)
  PROVE  InvoicesTrue'
  <1> DEFINE c == [step |-> "claimed", op |-> "send", bill |-> b, seen |-> record[b], answer |-> "none"]
  <1>1. asking' = [asking EXCEPT ![r] = c] /\ UNCHANGED <<record, portal, drift>> /\ r \in Askers /\ ~Working(r)
    BY DEF Held!Take, Askers, Working
  <1>2. c \in Call /\ c.step = "claimed" /\ c.answer = "none" /\ c.op = "send" /\ c.bill = b /\ c.seen = record[b]
    BY DEF Call, Held!Answers, InvoicesTrue, InvoiceTypes
  <1> HIDE DEF c
  <1> QED BY <1>1, <1>2, StartsKeeps

\* What the two instances do alike.
LEMMA Alike ==
  /\ \A b \in Bills : (Lapsing!Issue(b) => Held!Issue(b)) /\ (Lapsing!Bar(b) => Held!Bar(b))
  /\ \A r \in Relays : (Lapsing!Prepare(r) => Held!Prepare(r)) /\ \A b \in Bills : Lapsing!Take(r, b) => Held!Take(r, b)
  /\ \A p \in People : Lapsing!Commit(p) => Held!Commit(p)
  /\ \A p \in People, op \in {"register", "retry", "reconcile", "cancel"}, b \in Bills : Lapsing!Begin(p, op, b) => Held!Begin(p, op, b)
  /\ \A p \in Askers :
       /\ Lapsing!Generate(p) => Held!Generate(p)
       /\ Lapsing!Fetch(p) => Held!Fetch(p)
       /\ Lapsing!Cancel(p) => Held!Cancel(p)
  <1> USE DEF Lapsing!Idle, Held!Idle, Lapsing!Finished, Held!Finished, Lapsing!Pending, Held!Pending, Lapsing!Answered, Held!Answered
  <1>1. ASSUME NEW b \in Bills PROVE (Lapsing!Issue(b) => Held!Issue(b)) /\ (Lapsing!Bar(b) => Held!Bar(b))
    BY DEF Lapsing!Issue, Held!Issue, Lapsing!Bar, Held!Bar
  <1>2. ASSUME NEW r \in Relays PROVE (Lapsing!Prepare(r) => Held!Prepare(r)) /\ \A b \in Bills : Lapsing!Take(r, b) => Held!Take(r, b)
    BY DEF Lapsing!Prepare, Held!Prepare, Lapsing!Send, Held!Send, Lapsing!Take, Held!Take
  <1>3. ASSUME NEW p \in People PROVE Lapsing!Commit(p) => Held!Commit(p)
    BY DEF Lapsing!Commit, Held!Commit, Lapsing!Completed, Held!Completed, Lapsing!MayWrite, Held!MayWrite,
           Lapsing!Drifted, Held!Drifted, Lapsing!Agree, Held!Agree
  <1>4. ASSUME NEW p \in People, NEW op \in {"register", "retry", "reconcile", "cancel"}, NEW b \in Bills, Lapsing!Begin(p, op, b)
        PROVE  Held!Begin(p, op, b)
    BY <1>4 DEF Lapsing!Begin, Held!Begin, Lapsing!Allowed, Held!Allowed
  <1>5. ASSUME NEW p \in Askers
        PROVE  /\ Lapsing!Generate(p) => Held!Generate(p)
               /\ Lapsing!Fetch(p) => Held!Fetch(p)
               /\ Lapsing!Cancel(p) => Held!Cancel(p)
    BY DEF Lapsing!Generate, Held!Generate, Lapsing!Fetch, Held!Fetch, Lapsing!Cancel, Held!Cancel
  <1> QED BY <1>1, <1>2, <1>3, <1>4, <1>5

LEMMA RowsKeep ==
  ASSUME InvoicesTrue, UNCHANGED <<record, portal, asking, drift>>
  PROVE  InvoicesTrue'
  BY DEF InvoicesTrue, InvoiceTypes, RecordsTrue, CallsTrue, CallTrue, NewsComing, Brings, Working

\* The lock is a request's that is at work.
LockWorks == \A p \in People : lock = p => Working(p)
InvoicesKept == InvoicesTrue /\ LockWorks

LEMMA RelaysLock ==
  ASSUME InvoicesTrue, LockWorks, NEW r \in Relays, lock' = lock, \A q \in Askers : q # r => asking'[q] = asking[q]
  PROVE  LockWorks'
  BY InvoiceAssumption DEF LockWorks, Working, Askers

LEMMA AnswersLock ==
  ASSUME InvoicesTrue, LockWorks, NEW p \in Askers, Held!Generate(p) \/ Held!Fetch(p) \/ Held!Cancel(p)
  PROVE  LockWorks'
  <1>1. /\ lock' = lock /\ asking[p].step = "asking"
        /\ \E answer \in Held!Answers : Held!Answered(p, answer)
    <2>1. CASE Held!Generate(p)
      BY <2>1 DEF Held!Generate, Held!Answers
    <2>2. CASE Held!Fetch(p)
      <3>1. asking[p].bill \in Bills
        BY <2>2, CallFacts DEF InvoicesTrue, Call, Held!Fetch
      <3> QED BY <2>2, <3>1 DEF Held!Fetch, Held!Answers, InvoicesTrue, InvoiceTypes
    <2>3. CASE Held!Cancel(p)
      BY <2>3 DEF Held!Cancel, Held!Answers
    <2> QED BY <2>1, <2>2, <2>3
  <1>2. PICK answer \in Held!Answers : Held!Answered(p, answer)
    BY <1>1
  <1>3. GoesOn(p, "answered", asking[p].seen, answer) /\ asking[p].seen \in Held!Records
    BY <1>1, <1>2, CallFacts DEF GoesOn, Held!Answered, InvoicesTrue, InvoiceTypes, Call
  <1>4. asking'[p] \in Call /\ \A q \in Askers : q # p => asking'[q] = asking[q]
    BY <1>3, GoesOnKeeps
  <1>5. asking'[p] # Held!Idle
    BY <1>4, <1>3, GoesOnKeeps DEF Held!Idle
  <1> QED BY <1>1, <1>4, <1>5 DEF LockWorks, Working, Askers

\* What a step of either instance does to records and portal.
LooseStep ==
  \/ UNCHANGED <<record, portal, asking, drift, lock>>
  \/ \E r \in Relays : FinishesAs(r) \/ Held!Prepare(r) \/ \E b \in Bills : Held!Take(r, b)
  \/ \E p \in People : Held!Commit(p) \/ \E op \in {"register", "retry", "reconcile", "cancel"}, b \in Bills : Held!Begin(p, op, b)
  \/ \E p \in Askers : Held!Generate(p) \/ Held!Fetch(p) \/ Held!Cancel(p)
  \/ \E p \in Askers :
       /\ asking[p] # Held!Idle \/ (p \in People /\ lock = p)
       /\ asking' = [asking EXCEPT ![p] = Held!Idle] /\ UNCHANGED <<record, portal>>
       /\ drift' = Held!Drifted(asking[p].bill, TRUE)
       /\ lock' = IF p \in People THEN Nobody ELSE lock

LEMMA LooseKeeps == InvoicesKept /\ LooseStep => InvoicesKept'
  <1> SUFFICES ASSUME InvoicesTrue, LockWorks, LooseStep PROVE InvoicesTrue' /\ LockWorks'
    BY DEF InvoicesKept
  <1>0. \A p \in Askers : \A c : asking' = [asking EXCEPT ![p] = c] => asking'[p] = c /\ \A q \in Askers : q # p => asking'[q] = asking[q]
    BY DEF InvoicesTrue, InvoiceTypes
  <1>1. CASE UNCHANGED <<record, portal, asking, drift, lock>>
    BY <1>1, RowsKeep DEF LockWorks, Working
  <1>2. ASSUME NEW r \in Relays, NEW b \in Bills, Held!Take(r, b) PROVE InvoicesTrue' /\ LockWorks'
    BY <1>2, <1>0, TakeKeeps, RelaysLock DEF Held!Take, Askers
  <1>3. ASSUME NEW r \in Relays, Held!Prepare(r) PROVE InvoicesTrue' /\ LockWorks'
    <2>1. lock' = lock /\ \A q \in Askers : q # r => asking'[q] = asking[q]
      BY <1>3 DEF Held!Prepare, Held!Answered, Held!Send, InvoicesTrue, InvoiceTypes
    <2> QED BY <1>3, <2>1, PrepareKeeps, RelaysLock
  <1>4. ASSUME NEW r \in Relays, FinishesAs(r) PROVE InvoicesTrue' /\ LockWorks'
    <2>1. lock' = lock /\ \A q \in Askers : q # r => asking'[q] = asking[q]
      BY <1>4 DEF FinishesAs, Saves, InvoicesTrue, InvoiceTypes
    <2> QED BY <1>4, <2>1, FinishKeeps, RelaysLock
  <1>5. ASSUME NEW p \in People, Held!Commit(p) PROVE InvoicesTrue' /\ LockWorks'
    BY <1>5, CommitKeeps, InvoiceAssumption DEF Held!Commit, LockWorks
  <1>6. ASSUME NEW p \in People, NEW op \in {"register", "retry", "reconcile", "cancel"}, NEW b \in Bills, Held!Begin(p, op, b)
        PROVE  InvoicesTrue' /\ LockWorks'
    <2>1. lock' = p /\ asking'[p] # Held!Idle
      <3>1. asking'[p].step = "asking"
        BY <1>6 DEF Held!Begin, Askers, InvoicesTrue, InvoiceTypes
      <3> QED BY <3>1, <1>6 DEF Held!Idle, Held!Begin
    <2> QED BY <1>6, <2>1, BeginKeeps DEF LockWorks, Working
  <1>7. ASSUME NEW p \in Askers, Held!Generate(p) \/ Held!Fetch(p) \/ Held!Cancel(p) PROVE InvoicesTrue' /\ LockWorks'
    BY <1>7, PortalKeeps, AnswersLock
  <1>8. ASSUME NEW p \in Askers,
               asking[p] # Held!Idle \/ (p \in People /\ lock = p),
               asking' = [asking EXCEPT ![p] = Held!Idle], UNCHANGED <<record, portal>>,
               drift' = Held!Drifted(asking[p].bill, TRUE),
               lock' = IF p \in People THEN Nobody ELSE lock
        PROVE  InvoicesTrue' /\ LockWorks'
    <2>1. Working(p)
      BY <1>8 DEF LockWorks, Working
    <2>2. InvoicesTrue'
      BY <2>1, <1>8, LostKeeps
    <2>3. LockWorks'
      BY <1>0, <1>8, InvoiceAssumption DEF LockWorks, Working, Askers
    <2> QED BY <2>2, <2>3
  <1> QED BY <1>1, <1>2, <1>3, <1>4, <1>5, <1>6, <1>7, <1>8 DEF LooseStep

-----------------------------------------------------------------------------
(* What is cancelled at the portal, and who will say so                      *)

\* A request at work has the lock, so nobody writes its record meanwhile.
RequestsOwn ==
  \A p \in People : Working(p) =>
    /\ lock = p
    /\ \/ asking[p].op \in {"register", "retry"} /\ record[asking[p].bill].status \notin Held!Finished
       \/ asking[p].op \in {"reconcile", "cancel"} /\ asking[p].seen = record[asking[p].bill]

RelaysSubmit == \A r \in Relays : Working(r) => asking[r].op = "send"

\* Nobody finds registered at the portal what was cancelled when they asked.
LookUpsTrue ==
  \A p \in Askers : Working(p) /\ asking[p].op = "reconcile" /\ asking[p].answer = "registered" => asking[p].seen.status # "CANCELLED"

CancelledFinished == \A b \in Bills : portal[b] = "cancelled" => record[b].status \in Held!Finished

\* Somebody has the answer that the portal has cancelled the bill.
Ends(p, b) ==
  asking[p].step = "answered" /\ asking[p].answer = "cancelled" /\ asking[p].op = "cancel" /\ asking[p].bill = b
CancelComing ==
  \A b \in Bills : portal[b] = "cancelled" /\ record[b].status = "REGISTERED" /\ b \notin drift => \E p \in People : Ends(p, b)

InvoicesFollow == RequestsOwn /\ RelaysSubmit /\ LookUpsTrue /\ CancelledFinished /\ CancelComing

LEMMA AnswersGoOn ==
  ASSUME InvoicesTrue, NEW p \in Askers, Held!Generate(p) \/ Held!Fetch(p) \/ Held!Cancel(p)
  PROVE  /\ UNCHANGED <<lock, record>> /\ asking[p].step = "asking" /\ Working(p)
         /\ \E answer \in Held!Answers : Held!Answered(p, answer) /\ GoesOn(p, "answered", asking[p].seen, answer)
  <1>1. /\ UNCHANGED <<lock, record>> /\ asking[p].step = "asking"
        /\ \E answer \in Held!Answers : Held!Answered(p, answer)
    <2>1. CASE Held!Generate(p)
      BY <2>1 DEF Held!Generate, Held!Answers
    <2>2. CASE Held!Fetch(p)
      <3>1. asking[p].bill \in Bills
        BY <2>2, CallFacts DEF InvoicesTrue, Call, Held!Fetch
      <3> QED BY <2>2, <3>1 DEF Held!Fetch, Held!Answers, InvoicesTrue, InvoiceTypes
    <2>3. CASE Held!Cancel(p)
      BY <2>3 DEF Held!Cancel, Held!Answers
    <2> QED BY <2>1, <2>2, <2>3
  <1>2. PICK answer \in Held!Answers : Held!Answered(p, answer)
    BY <1>1
  <1>3. Working(p) /\ asking[p] \in Call
    BY <1>1, CallFacts DEF InvoicesTrue
  <1>4. GoesOn(p, "answered", asking[p].seen, answer)
    BY <1>1, <1>2, <1>3 DEF GoesOn, Held!Answered, InvoicesTrue, InvoiceTypes, Call
  <1> QED BY <1>1, <1>2, <1>3, <1>4

\* With the lock free, no request is at work, and none is about to say that a
\* bill has been cancelled.
LEMMA NobodyAtWork ==
  ASSUME InvoicesTrue, InvoicesFollow, lock = Nobody
  PROVE  /\ \A p \in People : ~Working(p)
         /\ \A b \in Bills : portal[b] = "cancelled" /\ record[b].status = "REGISTERED" => b \in drift
  <1>1. \A p \in People : ~Working(p)
    BY InvoiceAssumption DEF InvoicesFollow, RequestsOwn
  <1>2. \A p \in People, b \in Bills : ~Ends(p, b)
    BY <1>1, CallFacts DEF InvoicesTrue, Ends, Askers
  <1> QED BY <1>1, <1>2 DEF InvoicesFollow, CancelComing

LEMMA TakeFollows ==
  ASSUME InvoicesTrue, InvoicesFollow, NEW r \in Relays, NEW b \in Bills, Held!Take(r, b)
  PROVE  InvoicesFollow'
  <1>1. UNCHANGED <<record, portal, drift, lock>>
    BY DEF Held!Take
  <1>2. /\ \A q \in Askers : q # r => asking'[q] = asking[q]
        /\ asking'[r].op = "send"
    BY DEF InvoicesTrue, InvoiceTypes, Held!Take, Askers
  <1>3. \A p \in People : p # r /\ p \in Askers
    BY InvoiceAssumption DEF Askers
  <1>4. RequestsOwn' /\ CancelledFinished' /\ CancelComing'
    BY <1>1, <1>2, <1>3 DEF InvoicesFollow, RequestsOwn, CancelledFinished, CancelComing, Ends, Working
  <1>5. RelaysSubmit' /\ LookUpsTrue'
    BY <1>2 DEF InvoicesFollow, RelaysSubmit, LookUpsTrue, Working, Askers
  <1> QED BY <1>4, <1>5 DEF InvoicesFollow

LEMMA PrepareFollows ==
  ASSUME InvoicesTrue, InvoicesFollow, NEW r \in Relays, Held!Prepare(r)
  PROVE  InvoicesFollow'
  <1> DEFINE b == asking[r].bill
  <1>1. UNCHANGED <<portal, drift, lock>> /\ lock = Nobody
    BY DEF Held!Prepare
  <1>2. r \in Askers /\ Working(r) /\ asking[r] \in Call /\ b \in Bills /\ asking[r].op = "send"
    BY CallFacts DEF InvoicesTrue, Held!Prepare, Askers, Call, InvoicesFollow, RelaysSubmit
  <1>3. /\ \A q \in Askers : q # r => asking'[q] = asking[q]
        /\ asking'[r].op = "send"
    BY <1>2 DEF InvoicesTrue, InvoiceTypes, Held!Prepare, Held!Answered, Held!Send, Call
  <1>4. \A p \in People : p # r /\ p \in Askers
    BY InvoiceAssumption DEF Askers
  <1>5. \A d \in Bills : record'[d] = record[d] \/ (record[d].status \notin Held!Finished /\ record'[d].status = "PENDING")
    <2>1. record[b] \in [status : {"none", "PENDING", "FAILED"} \cup Held!Finished, failure : {"none", "retry", "final"}]
      BY <1>2 DEF InvoicesTrue, InvoiceTypes, Held!Records
    <2> QED BY <1>2, <2>1 DEF Held!Prepare, Held!Send, Held!Pending, InvoicesTrue, InvoiceTypes
  <1>6. RequestsOwn'
    BY <1>1, <1>3, <1>4, NobodyAtWork DEF RequestsOwn, Working
  <1>7. RelaysSubmit' /\ LookUpsTrue'
    BY <1>3 DEF InvoicesFollow, RelaysSubmit, LookUpsTrue, Working, Askers
  <1>8. CancelledFinished' /\ CancelComing'
    BY <1>1, <1>5, NobodyAtWork DEF InvoicesFollow, CancelledFinished, CancelComing, Held!Finished
  <1> QED BY <1>6, <1>7, <1>8 DEF InvoicesFollow

LEMMA FinishFollows ==
  ASSUME InvoicesTrue, InvoicesFollow, NEW r \in Relays, FinishesAs(r)
  PROVE  InvoicesFollow'
  <1> DEFINE b == asking[r].bill
             stale == taker[b] # r
             known == record[b].status = "CANCELLED" /\ record'[b].status = "REGISTERED"
  <1>1. portal' = portal /\ lock' = lock /\ lock = Nobody /\ drift' = Held!Drifted(b, stale \/ known)
    BY DEF FinishesAs, Saves
  <1>2. r \in Askers /\ Working(r) /\ b \in Bills
    BY CallFacts DEF InvoicesTrue, FinishesAs, Askers, Call
  <1>3. /\ \A q \in Askers : q # r => asking'[q] = asking[q]
        /\ asking'[r] = Held!Idle
    BY <1>2 DEF InvoicesTrue, InvoiceTypes, FinishesAs, Saves
  <1>4. \A p \in People : p # r /\ p \in Askers
    BY InvoiceAssumption DEF Askers
  <1>5. /\ \A d \in Bills : d # b => record'[d] = record[d]
        /\ record[b].status \in Held!Finished => record'[b].status \in Held!Finished
    BY <1>2 DEF InvoicesTrue, InvoiceTypes, FinishesAs, Saves, Held!MayWrite
  <1>6. RequestsOwn'
    BY <1>1, <1>3, <1>4, NobodyAtWork DEF RequestsOwn, Working
  <1>7. RelaysSubmit' /\ LookUpsTrue'
    BY <1>3 DEF InvoicesFollow, RelaysSubmit, LookUpsTrue, Working, Askers
  <1>8. CancelledFinished'
    BY <1>1, <1>2, <1>5 DEF InvoicesFollow, CancelledFinished
  <1>9. CancelComing'
    <2> SUFFICES ASSUME NEW d \in Bills, portal[d] = "cancelled", record'[d].status = "REGISTERED", d \notin drift'
                 PROVE  FALSE
      BY <1>1 DEF CancelComing
    <2>1. CASE d # b
      <3>1. d \in drift
        BY <2>1, <1>1, <1>5, NobodyAtWork
      <3> QED BY <2>1, <3>1, <1>1 DEF Held!Drifted
    <2>2. CASE d = b
      <3>1. ~Held!Agree(record'[b], portal'[b])
        BY <2>2, <1>1 DEF Held!Agree
      <3>2. b \notin drift /\ ~known
        BY <2>2, <3>1, <1>1 DEF Held!Drifted
      <3>3. record[b].status = "REGISTERED"
        BY <2>2, <3>2 DEF InvoicesFollow, CancelledFinished, Held!Finished
      <3> QED BY <2>2, <3>2, <3>3, <1>1, NobodyAtWork
    <2> QED BY <2>1, <2>2
  <1> QED BY <1>6, <1>7, <1>8, <1>9 DEF InvoicesFollow

LEMMA CommitFollows ==
  ASSUME InvoicesTrue, InvoicesFollow, NEW p \in People, Held!Commit(p)
  PROVE  InvoicesFollow'
  <1> DEFINE b == asking[p].bill
             c == asking[p]
             new == Held!Completed(c)
  <1>1. portal' = portal /\ lock = p /\ drift' = Held!Drifted(b, FALSE)
    BY DEF Held!Commit
  <1>2. p \in Askers /\ Working(p) /\ c \in Call /\ b \in Bills
    BY CallFacts DEF InvoicesTrue, Held!Commit, Askers, Call
  <1>3. /\ \A q \in Askers : q # p => asking'[q] = asking[q]
        /\ asking'[p] = Held!Idle
    BY <1>2 DEF InvoicesTrue, InvoiceTypes, Held!Commit
  <1>4. \A q \in People : Working(q) => q = p
    BY <1>1 DEF InvoicesFollow, RequestsOwn
  <1>5. /\ \A d \in Bills : d # b => record'[d] = record[d]
        /\ record'[b] = IF Held!MayWrite(record[b], new) THEN new ELSE record[b]
    BY <1>2 DEF InvoicesTrue, InvoiceTypes, Held!Commit
  <1>6. RequestsOwn'
    BY <1>3, <1>4 DEF RequestsOwn, Working, Askers
  <1>7. RelaysSubmit' /\ LookUpsTrue'
    BY <1>3 DEF InvoicesFollow, RelaysSubmit, LookUpsTrue, Working, Askers
  <1>8. CancelledFinished'
    BY <1>1, <1>2, <1>5 DEF InvoicesFollow, CancelledFinished, Held!MayWrite
  <1>9. CancelComing'
    <2> SUFFICES ASSUME NEW d \in Bills, portal[d] = "cancelled", record'[d].status = "REGISTERED", d \notin drift'
                 PROVE  FALSE
      BY <1>1 DEF CancelComing
    <2>0. \A q \in People, e \in Bills : Ends(q, e) => q = p /\ e = b
      BY <1>4, CallFacts DEF InvoicesTrue, Ends, Askers
    <2>1. CASE d # b
      <3>1. d \notin drift
        BY <2>1, <1>1 DEF Held!Drifted
      <3>2. \E q \in People : Ends(q, d)
        BY <2>1, <3>1, <1>5 DEF InvoicesFollow, CancelComing
      <3> QED BY <2>0, <2>1, <3>2
    <2>2. CASE d = b
      <3>1. ~Held!Agree(record'[b], portal'[b])
        BY <2>2, <1>1 DEF Held!Agree
      <3>2. b \notin drift
        BY <2>2, <3>1, <1>1 DEF Held!Drifted
      <3>3. record[b].status \in Held!Finished
        BY <2>2 DEF InvoicesFollow, CancelledFinished
      <3>4. c.op \in {"reconcile", "cancel"} /\ c.seen = record[b]
        BY <3>3, <1>2 DEF InvoicesFollow, RequestsOwn
      <3>5. c.seen \in [status : {"none", "PENDING", "FAILED"} \cup Held!Finished, failure : {"none", "retry", "final"}]
        BY <1>2 DEF Call, Held!Records
      <3>6. CASE record[b].status = "REGISTERED"
        <4>1. \E q \in People : Ends(q, b)
          BY <2>2, <3>2, <3>6 DEF InvoicesFollow, CancelComing
        <4>2. c.op = "cancel" /\ c.answer = "cancelled"
          BY <4>1, <2>0, <1>2 DEF Ends
        <4>3. new = [c.seen EXCEPT !.status = "CANCELLED"]
          BY <4>2 DEF Held!Completed
        <4>4. new.status = "CANCELLED" /\ new.failure = record[b].failure
          BY <4>3, <3>4, <3>5
        <4>5. record'[b] = new
          BY <4>4, <1>5 DEF Held!MayWrite, Held!Finished
        <4> QED BY <4>4, <4>5, <2>2
      <3>7. CASE record[b].status = "CANCELLED"
        <4>1. ~(c.op = "reconcile" /\ c.answer = "registered")
          BY <3>4, <3>7, <1>2 DEF InvoicesFollow, LookUpsTrue
        <4>2. new = c.seen \/ new = [c.seen EXCEPT !.status = "CANCELLED"]
          BY <4>1, <3>4, <3>7 DEF Held!Completed
        <4>3. new.status = "CANCELLED"
          BY <4>2, <3>4, <3>5, <3>7
        <4> QED BY <4>3, <3>7, <1>5, <2>2
      <3> QED BY <3>3, <3>6, <3>7 DEF Held!Finished
    <2> QED BY <2>1, <2>2
  <1> QED BY <1>6, <1>7, <1>8, <1>9 DEF InvoicesFollow

LEMMA BeginFollows ==
  ASSUME InvoicesTrue, InvoicesFollow, NEW p \in People,
         NEW op \in {"register", "retry", "reconcile", "cancel"}, NEW b \in Bills, Held!Begin(p, op, b)
  PROVE  InvoicesFollow'
  <1>1. UNCHANGED <<record, portal, drift>> /\ lock = Nobody /\ lock' = p
    BY DEF Held!Begin
  <1>2. /\ \A q \in Askers : q # p => asking'[q] = asking[q]
        /\ asking'[p].op = op /\ asking'[p].bill = b /\ asking'[p].answer = "none"
        /\ op \in {"reconcile", "cancel"} => asking'[p].seen = record[b]
    BY DEF InvoicesTrue, InvoiceTypes, Held!Begin, Askers
  <1>3. op \in {"register", "retry"} => record[b].status \notin Held!Finished
    BY DEF Held!Begin, Held!Allowed, Held!Finished
  <1>4. p \notin Relays
    BY InvoiceAssumption
  <1>5. RequestsOwn'
    BY <1>1, <1>2, <1>3, NobodyAtWork DEF RequestsOwn, Working, Askers
  <1>6. RelaysSubmit' /\ LookUpsTrue'
    BY <1>2, <1>4 DEF InvoicesFollow, RelaysSubmit, LookUpsTrue, Working, Askers
  <1>7. CancelledFinished' /\ CancelComing'
    BY <1>1, NobodyAtWork DEF InvoicesFollow, CancelledFinished, CancelComing
  <1> QED BY <1>5, <1>6, <1>7 DEF InvoicesFollow

LEMMA AnswersFollow ==
  ASSUME InvoicesTrue, InvoicesFollow, NEW p \in Askers, Held!Generate(p) \/ Held!Fetch(p) \/ Held!Cancel(p)
  PROVE  InvoicesFollow'
  <1> DEFINE b == asking[p].bill
  <1>1. UNCHANGED <<lock, record>> /\ asking[p].step = "asking" /\ Working(p)
    BY AnswersGoOn
  <1>2. PICK answer \in Held!Answers : Held!Answered(p, answer) /\ GoesOn(p, "answered", asking[p].seen, answer)
    BY AnswersGoOn
  <1>3. asking[p] \in Call /\ CallTrue(asking[p]) /\ b \in Bills /\ asking[p].seen \in Held!Records
    BY <1>1, CallFacts DEF InvoicesTrue, CallsTrue, Call
  <1>4. /\ \A q \in Askers : q # p => asking'[q] = asking[q]
        /\ asking'[p] \in Call
        /\ asking'[p].step = "answered" /\ asking'[p].seen = asking[p].seen /\ asking'[p].answer = answer
        /\ asking'[p].op = asking[p].op /\ asking'[p].bill = b
    BY <1>2, <1>3, GoesOnKeeps
  <1>5. RequestsOwn' /\ RelaysSubmit'
    <2>1. \A q \in Askers : Working(q)' => /\ Working(q)
                                         /\ asking'[q].op = asking[q].op /\ asking'[q].bill = asking[q].bill
                                         /\ asking'[q].seen = asking[q].seen
      BY <1>1, <1>4 DEF Working
    <2> QED BY <1>1, <2>1 DEF InvoicesFollow, RequestsOwn, RelaysSubmit, Askers
  <1>6. /\ \A d \in Bills : portal'[d] = portal[d] \/ (d = b /\ (portal[d] = "unknown" \/ Held!Cancel(p)))
        /\ Held!Cancel(p) \/ portal'[b] # "cancelled" \/ portal[b] = "cancelled"
    BY <1>3 DEF Held!Generate, Held!Fetch, Held!Cancel, InvoicesTrue, InvoiceTypes
  <1>7. LookUpsTrue'
    <2> SUFFICES ASSUME asking[p].op = "reconcile", answer = "registered" PROVE asking[p].seen.status # "CANCELLED"
      BY <1>4 DEF InvoicesFollow, LookUpsTrue, Working
    <2>1. Held!Fetch(p)
      BY DEF Held!Generate, Held!Cancel
    <2>2. asking'[p].answer # "unavailable"
      BY <1>4
    <2>3. portal[b] = "active"
      <3>1. portal[b] \in {"unknown", "active", "cancelled"}
        BY <1>3 DEF InvoicesTrue, InvoiceTypes
      <3>2. \A a : Held!Answered(p, a) => asking'[p].answer = a
        BY <1>3 DEF Held!Answered, InvoicesTrue, InvoiceTypes, Call
      <3> QED BY <2>1, <2>2, <3>1, <3>2, <1>4 DEF Held!Fetch
    <2> QED BY <2>3, <1>3 DEF CallTrue
  <1>8. Held!Cancel(p) => p \in People /\ asking[p].op = "cancel" /\ record[b].status \in Held!Finished
    <2> SUFFICES ASSUME Held!Cancel(p) PROVE p \in People /\ asking[p].op = "cancel" /\ record[b].status \in Held!Finished
      OBVIOUS
    <2>1. asking[p].op = "cancel"
      BY DEF Held!Cancel
    <2>2. p \in People
      BY <2>1, <1>1 DEF InvoicesFollow, RelaysSubmit, Askers
    <2>3. asking[p].seen = record[b]
      BY <2>1, <2>2, <1>1 DEF InvoicesFollow, RequestsOwn
    <2> QED BY <2>1, <2>2, <2>3, <1>3 DEF CallTrue
  <1>9. CancelledFinished'
    BY <1>1, <1>6, <1>8 DEF InvoicesFollow, CancelledFinished
  <1>10. CancelComing'
    <2> SUFFICES ASSUME NEW d \in Bills, portal'[d] = "cancelled", record[d].status = "REGISTERED", d \notin drift'
                 PROVE  \E q \in People : Ends(q, d)'
      BY <1>1 DEF CancelComing
    <2>1. drift \subseteq drift'
      BY DEF Held!Generate, Held!Fetch, Held!Cancel
    <2>2. CASE portal[d] = "cancelled"
      <3>1. PICK q \in People : Ends(q, d)
        BY <2>1, <2>2 DEF InvoicesFollow, CancelComing
      <3>2. q # p /\ q \in Askers
        BY <3>1, <1>1 DEF Ends, Askers
      <3> QED BY <3>1, <3>2, <1>4 DEF Ends
    <2>3. CASE portal[d] # "cancelled"
      <3>1. d = b /\ Held!Cancel(p)
        BY <2>3, <1>6
      <3>2. portal' # portal
        BY <2>3
      <3>3. \A a : Held!Answered(p, a) => asking'[p].answer = a
        BY <1>3 DEF Held!Answered, InvoicesTrue, InvoiceTypes, Call
      <3>4. asking'[p].answer = "cancelled"
        BY <3>1, <3>2, <3>3 DEF Held!Cancel
      <3> QED BY <3>1, <3>4, <1>4, <1>8 DEF Ends
    <2> QED BY <2>2, <2>3
  <1> QED BY <1>5, <1>7, <1>9, <1>10 DEF InvoicesFollow

LEMMA LostFollows ==
  ASSUME InvoicesTrue, InvoicesFollow, NEW p \in Askers, Working(p), asking' = [asking EXCEPT ![p] = Held!Idle],
         UNCHANGED <<record, portal>>, drift' = Held!Drifted(asking[p].bill, TRUE),
         lock' = IF p \in People THEN Nobody ELSE lock
  PROVE  InvoicesFollow'
  <1>1. /\ \A q \in Askers : q # p => asking'[q] = asking[q]
        /\ asking'[p] = Held!Idle
    BY DEF InvoicesTrue, InvoiceTypes
  <1>2. RequestsOwn'
    BY <1>1 DEF InvoicesFollow, RequestsOwn, Working, Askers
  <1>3. RelaysSubmit' /\ LookUpsTrue'
    BY <1>1 DEF InvoicesFollow, RelaysSubmit, LookUpsTrue, Working, Askers
  <1>4. CancelledFinished'
    BY DEF InvoicesFollow, CancelledFinished
  <1>5. CancelComing'
    <2> SUFFICES ASSUME NEW d \in Bills, portal[d] = "cancelled", record[d].status = "REGISTERED", d \notin drift'
                 PROVE  \E q \in People : Ends(q, d)'
      BY DEF CancelComing
    <2>1. d \notin drift /\ d # asking[p].bill
      BY DEF Held!Drifted, Held!Agree
    <2>2. PICK q \in People : Ends(q, d)
      BY <2>1 DEF InvoicesFollow, CancelComing
    <2>3. q # p /\ q \in Askers
      BY <2>1, <2>2 DEF Ends, Askers
    <2> QED BY <2>2, <2>3, <1>1 DEF Ends
  <1> QED BY <1>2, <1>3, <1>4, <1>5 DEF InvoicesFollow

LEMMA LooseFollows == InvoicesKept /\ InvoicesFollow /\ LooseStep => InvoicesFollow'
  <1> SUFFICES ASSUME InvoicesTrue, LockWorks, InvoicesFollow, LooseStep PROVE InvoicesFollow'
    BY DEF InvoicesKept
  <1>1. CASE UNCHANGED <<record, portal, asking, drift, lock>>
    BY <1>1 DEF InvoicesFollow, RequestsOwn, RelaysSubmit, LookUpsTrue, CancelledFinished, CancelComing, Ends, Working
  <1>2. ASSUME NEW p \in Askers,
               asking[p] # Held!Idle \/ (p \in People /\ lock = p),
               asking' = [asking EXCEPT ![p] = Held!Idle], UNCHANGED <<record, portal>>,
               drift' = Held!Drifted(asking[p].bill, TRUE),
               lock' = IF p \in People THEN Nobody ELSE lock
        PROVE  InvoicesFollow'
    <2>1. Working(p)
      BY <1>2 DEF LockWorks, Working
    <2> QED BY <2>1, <1>2, LostFollows
  <1> QED BY <1>1, <1>2, TakeFollows, PrepareFollows, FinishFollows, CommitFollows, BeginFollows, AnswersFollow DEF LooseStep

LEMMA HeldIsLoose == Held!Next => LooseStep
  <1> SUFFICES ASSUME Held!Next PROVE LooseStep
    OBVIOUS
  <1>1. ASSUME NEW b \in Bills, Held!Issue(b) \/ Held!Lapse(b) \/ Held!Bar(b) PROVE LooseStep
    BY <1>1 DEF LooseStep, Held!Issue, Held!Lapse, Held!Bar
  <1>2. ASSUME NEW r \in Relays, Held!Fail(r) \/ Held!Die(r) PROVE LooseStep
    <2>1. r \in Askers /\ r \notin People /\ asking[r] # Held!Idle
      <3>1. r \in Askers /\ r \notin People
        BY InvoiceAssumption DEF Askers
      <3>2. CASE Held!Fail(r)
        <4>1. asking[r].step # "idle"
          BY <3>2 DEF Held!Fail
        <4> QED BY <4>1, <3>1 DEF Held!Idle
      <3> QED BY <1>2, <3>1, <3>2 DEF Held!Die
    <2> QED BY <1>2, <2>1 DEF LooseStep, Held!Fail, Held!Die, Held!Failed
  <1>3. ASSUME NEW p \in People, Held!Undo(p) PROVE LooseStep
    BY <1>3 DEF LooseStep, Held!Undo, Askers
  <1> QED BY <1>1, <1>2, <1>3, FinishSaves DEF Held!Next, LooseStep, Askers

LEMMA LapsingIsLoose == Lapsing!Next => LooseStep
  <1> SUFFICES ASSUME Lapsing!Next PROVE LooseStep
    OBVIOUS
  <1>1. ASSUME NEW b \in Bills, Lapsing!Issue(b) \/ Lapsing!Lapse(b) \/ Lapsing!Bar(b) PROVE LooseStep
    BY <1>1 DEF LooseStep, Lapsing!Issue, Lapsing!Lapse, Lapsing!Bar
  <1>2. ASSUME NEW r \in Relays, Lapsing!Fail(r) \/ Lapsing!Die(r) PROVE LooseStep
    <2>1. r \in Askers /\ r \notin People /\ asking[r] # Held!Idle
      <3>1. r \in Askers /\ r \notin People
        BY InvoiceAssumption DEF Askers
      <3>2. CASE Lapsing!Fail(r)
        <4>1. asking[r].step # "idle"
          BY <3>2 DEF Lapsing!Fail
        <4> QED BY <4>1, <3>1 DEF Held!Idle
      <3> QED BY <1>2, <3>1, <3>2 DEF Lapsing!Die, Held!Idle, Lapsing!Idle
    <2> QED BY <1>2, <2>1 DEF LooseStep, Lapsing!Fail, Lapsing!Die, Lapsing!Failed, Held!Idle, Lapsing!Idle, Lapsing!Drifted,
              Held!Drifted, Lapsing!Agree, Held!Agree, Lapsing!Finished, Held!Finished
  <1>3. ASSUME NEW p \in People, Lapsing!Undo(p) PROVE LooseStep
    BY <1>3 DEF LooseStep, Lapsing!Undo, Askers, Held!Idle, Lapsing!Idle, Lapsing!Drifted,
              Held!Drifted, Lapsing!Agree, Held!Agree, Lapsing!Finished, Held!Finished
  <1>4. ASSUME NEW r \in Relays, Lapsing!Prepare(r) \/ Lapsing!Finish(r) \/ \E b \in Bills : Lapsing!Take(r, b) PROVE LooseStep
    BY <1>4, FinishSaves, Alike DEF LooseStep
  <1>5. ASSUME NEW p \in People,
               Lapsing!Commit(p) \/ \E op \in {"register", "retry", "reconcile", "cancel"}, b \in Bills : Lapsing!Begin(p, op, b)
        PROVE  LooseStep
    BY <1>5, Alike DEF LooseStep
  <1>6. ASSUME NEW p \in Askers, Lapsing!Generate(p) \/ Lapsing!Fetch(p) \/ Lapsing!Cancel(p) PROVE LooseStep
    <2>1. Held!Generate(p) \/ Held!Fetch(p) \/ Held!Cancel(p)
      BY <1>6, Alike
    <2> QED BY <2>1 DEF LooseStep
  <1> QED BY <1>1, <1>2, <1>3, <1>4, <1>5, <1>6 DEF Lapsing!Next, Askers

LEMMA HeldSettles == InvoicesKept /\ InvoicesSettled /\ Held!Next => InvoicesSettled'
  <1> SUFFICES ASSUME InvoicesTrue, LockWorks, InvoicesSettled, Held!Next PROVE InvoicesSettled'
    BY DEF InvoicesKept
  <1>1. ASSUME NEW r \in Relays, Held!Prepare(r) PROVE InvoicesSettled'
    <2> DEFINE b == asking[r].bill
    <2>1. r \in Askers /\ Working(r) /\ asking[r] \in Call /\ b \in Bills /\ asking[r].op = "send"
      BY <1>1, CallFacts DEF InvoicesTrue, InvoicesSettled, RelaysHold, Call, Held!Prepare, Askers
    <2>2. UNCHANGED <<barred, message, taker, lock>> /\ lock = Nobody /\ r \notin People /\ asking[r].step # "answered"
      BY <1>1, InvoiceAssumption DEF Held!Prepare
    <2>3. CASE Held!Answered(r, "nothing") /\ record' = record /\ (record[b].status \in Held!Finished \/ b \in barred)
      <3>1. GoesOn(r, "answered", asking[r].seen, "nothing") /\ asking[r].seen \in Held!Records /\ "nothing" \in Held!Answers
        BY <2>1, <2>2, <2>3 DEF GoesOn, Held!Answered, InvoicesTrue, InvoiceTypes, Call, Held!Answers
      <3> QED BY <2>1, <2>2, <2>3, <3>1, GoesOnSettled
    <2>4. CASE Held!Send(r) /\ record[b].status \notin Held!Finished
      <3>1. record[b] \in [status : {"none", "PENDING", "FAILED"} \cup Held!Finished, failure : {"none", "retry", "final"}]
        BY <2>1 DEF InvoicesTrue, InvoiceTypes, Held!Records
      <3>2. Held!Pending(record[b]) \in Held!Records /\ asking[r].answer \in Held!Answers
        BY <2>1, <3>1 DEF Call, Held!Pending, Held!Records
      <3>3. GoesOn(r, "asking", Held!Pending(record[b]), asking[r].answer)
        BY <2>1, <2>2, <2>4 DEF GoesOn, Held!Send, InvoicesTrue, InvoiceTypes, Call
      <3>4. \A d \in Bills : record'[d] = record[d] \/ d = b
        BY <2>4, <2>1 DEF Held!Send, InvoicesTrue, InvoiceTypes
      <3> QED BY <2>1, <2>2, <2>4, <3>2, <3>3, <3>4, GoesOnSettled
    <2> QED BY <1>1, <2>3, <2>4 DEF Held!Prepare
  <1>2. ASSUME NEW r \in Relays, Held!Finish(r) PROVE InvoicesSettled'
    <2> DEFINE b == asking[r].bill
    <2>1. r \in Askers /\ Working(r) /\ asking[r] \in Call /\ b \in Bills
      BY <1>2, CallFacts DEF InvoicesTrue, Call, Held!Finish, Askers
    <2>2. asking[r].op = "send" /\ taker[b] = r /\ AnswerFits(r)
      BY <1>2, <2>1 DEF InvoicesSettled, RelaysHold, AnswersFit, Held!Finish
    <2>3. /\ lock = Nobody /\ UNCHANGED <<barred, lock>> /\ asking' = [asking EXCEPT ![r] = Held!Idle]
          /\ taker' = [taker EXCEPT ![b] = Nobody]
          /\ \/ Held!MayWrite(record[b], NewOf(r)) /\ record' = [record EXCEPT ![b] = NewOf(r)] /\ message' = [message EXCEPT ![b] = "sent"]
             \/ record' = record /\ \E m \in {"queued", "dead"} : message' = [message EXCEPT ![b] = m]
      BY <1>2, <2>2 DEF Held!Finish, Held!Failed, NewOf
    <2>4. CASE Held!MayWrite(record[b], NewOf(r)) /\ record' = [record EXCEPT ![b] = NewOf(r)] /\ message' = [message EXCEPT ![b] = "sent"]
      <3>1. record'[b] = NewOf(r) /\ \A d \in Bills : d # b => record'[d] = record[d]
        BY <2>1, <2>4 DEF InvoicesTrue, InvoiceTypes
      <3>2. OnlyTouches(b)
        BY <3>1, <2>4 DEF OnlyTouches, Held!MayWrite
      <3>3. b \notin barred => NewOf(r).status # "PENDING"
        <4>1. CASE asking[r].answer = "nothing"
          BY <4>1, <2>2 DEF AnswerFits, NewOf, Held!Finished
        <4>2. CASE asking[r].answer # "nothing"
          <5>1. asking[r].op \in Submits /\ asking[r].answer \in {"registered", "refused", "unavailable"}
            BY <2>2, <4>2 DEF AnswerFits, Submits
          <5> QED BY <5>1, <4>2, <2>1, SubmittedSettles DEF NewOf
        <4> QED BY <4>1, <4>2
      <3> QED BY <2>1, <2>3, <2>4, <3>1, <3>2, <3>3, ClosesSettled
    <2>5. CASE record' = record /\ \E m \in {"queued", "dead"} : message' = [message EXCEPT ![b] = m]
      <3>1. PICK m \in {"queued", "dead"} : message' = [message EXCEPT ![b] = m]
        BY <2>5
      <3>2. OnlyTouches(b)
        BY <2>5 DEF OnlyTouches
      <3> QED BY <2>1, <2>3, <2>5, <3>1, <3>2, ClosesSettled
    <2> QED BY <2>3, <2>4, <2>5
  <1>3. ASSUME NEW r \in Relays, Held!Fail(r) PROVE InvoicesSettled'
    <2> DEFINE b == asking[r].bill
    <2>1. r \in Askers /\ Working(r)
      BY <1>3, CallFacts DEF InvoicesTrue, Held!Fail, Askers
    <2>2. /\ record' = record /\ UNCHANGED <<barred, lock>> /\ asking' = [asking EXCEPT ![r] = Held!Idle]
          /\ taker' = [taker EXCEPT ![b] = Nobody]
          /\ \E m \in {"queued", "dead"} : message' = [message EXCEPT ![b] = m]
      BY <1>3 DEF Held!Fail, Held!Failed
    <2>3. PICK m \in {"queued", "dead"} : message' = [message EXCEPT ![b] = m]
      BY <2>2
    <2>4. OnlyTouches(b)
      BY <2>2 DEF OnlyTouches
    <2> QED BY <2>1, <2>2, <2>3, <2>4, ClosesSettled
  <1>4. ASSUME NEW r \in Relays, Held!Die(r) PROVE InvoicesSettled'
    BY <1>4, EndsSettled DEF Held!Die, Askers
  <1>5. ASSUME NEW p \in People, Held!Commit(p) PROVE InvoicesSettled'
    <2> DEFINE b == asking[p].bill
    <2>1. p \in Askers /\ Working(p) /\ asking[p] \in Call /\ b \in Bills
      BY <1>5, CallFacts DEF InvoicesTrue, Call, Held!Commit, Askers
    <2>2. /\ lock' = Nobody /\ UNCHANGED <<barred, message, taker>> /\ asking' = [asking EXCEPT ![p] = Held!Idle]
          /\ \A d \in Bills : d # b => record'[d] = record[d]
          /\ record'[b] = IF Held!MayWrite(record[b], Held!Completed(asking[p])) THEN Held!Completed(asking[p]) ELSE record[b]
      BY <1>5, <2>1 DEF Held!Commit, InvoicesTrue, InvoiceTypes
    <2>3. OnlyTouches(b)
      BY <2>2 DEF OnlyTouches, Held!MayWrite
    <2>4. ASSUME Held!Completed(asking[p]).status = "PENDING" PROVE record[b].status = "PENDING"
      <3>1. asking[p].op \in Submits => asking[p].answer \in {"registered", "refused", "unavailable"}
        BY <1>5, <2>1 DEF InvoicesSettled, AnswersFit, AnswerFits, RequestsLock, Held!Commit
      <3>2. asking[p].op \notin Submits
        BY <2>1, <2>4, <3>1, SubmittedSettles
      <3>3. Held!Completed(asking[p]) = asking[p].seen /\ asking[p].op \in {"reconcile", "cancel"}
        BY <2>1, <2>4, <3>2, OthersSettle
      <3> QED BY <2>1, <2>4, <3>3 DEF InvoicesSettled, RequestsLock
    <2> QED BY <2>1, <2>2, <2>3, <2>4, CommitSettled
  <1>6. ASSUME NEW p \in People, Held!Undo(p) PROVE InvoicesSettled'
    BY <1>6, EndsSettled DEF Held!Undo, Askers, LockWorks
  <1>7. ASSUME NEW p \in Askers, Held!Generate(p) \/ Held!Fetch(p) \/ Held!Cancel(p) PROVE InvoicesSettled'
    <2>1. Working(p) /\ asking[p] \in Call /\ asking[p].step = "asking"
      BY <1>7, CallFacts DEF InvoicesTrue, Held!Generate, Held!Fetch, Held!Cancel
    <2>2. PICK answer \in {"registered", "refused", "unavailable", "notFound", "cancelled"} :
            /\ Held!Answered(p, answer)
            /\ asking[p].op \in Submits => answer \in {"registered", "refused", "unavailable"}
      <3>1. CASE Held!Generate(p)
        BY <3>1 DEF Held!Generate
      <3>2. CASE Held!Fetch(p)
        <4>1. asking[p].op \notin Submits /\ portal[asking[p].bill] \in {"unknown", "active", "cancelled"}
          BY <3>2, <2>1 DEF Held!Fetch, Submits, InvoicesTrue, InvoiceTypes, Call
        <4> QED BY <3>2, <4>1 DEF Held!Fetch
      <3>3. CASE Held!Cancel(p)
        BY <3>3 DEF Held!Cancel, Submits
      <3> QED BY <1>7, <3>1, <3>2, <3>3
    <2>3. UNCHANGED <<record, barred, message, taker, lock>>
      BY <1>7 DEF Held!Generate, Held!Fetch, Held!Cancel
    <2>4. GoesOn(p, "answered", asking[p].seen, answer) /\ asking[p].seen \in Held!Records /\ answer \in Held!Answers
      BY <2>1, <2>2 DEF GoesOn, Held!Answered, InvoicesTrue, InvoiceTypes, Call, Held!Answers
    <2> QED BY <2>1, <2>2, <2>3, <2>4, GoesOnSettled
  <1>8. ASSUME NEW r \in Relays, NEW b \in Bills, Held!Take(r, b) PROVE InvoicesSettled'
    BY <1>8, TakeSettled
  <1> QED BY <1>1, <1>2, <1>3, <1>4, <1>5, <1>6, <1>7, <1>8, RowsSettled, BeginSettled DEF Held!Next, Askers

\* The inductive invariant of the e-invoices.  RecordsFollowPortal says nothing
\* of a call under way; what each call knows (CallsTrue) is what it will write.
\* A sent message's bill stays settled because whoever works on a row has it
\* (RelaysHold), and whoever does not has the lock (RequestsLock); and it is
\* because of the lock that a cancellation is heard of (RequestsOwn, CancelComing).
InvoiceInv == InvoicesKept /\ InvoicesFollow /\ (case = "held" => InvoicesSettled)

LEMMA InitInvoices == MCInit => InvoiceInv
  <1> SUFFICES ASSUME Held!Init PROVE InvoicesTrue /\ LockWorks /\ InvoicesFollow /\ InvoicesSettled
    BY DEF MCInit, InvoiceInv, InvoicesKept
  <1>1. \A p \in Askers : ~Working(p) /\ asking[p].step = "idle"
    BY DEF Held!Init, Working, Held!Idle, Askers
  <1>2. \A b \in Bills : record[b].status = "none" /\ portal[b] = "unknown" /\ message[b] = "none"
    BY DEF Held!Init
  <1>3. InvoiceTypes
    BY DEF Held!Init, InvoiceTypes, Held!Records, Held!Calls, Held!Finished, Askers
  <1>4. RecordsTrue /\ NewsComing /\ CallsTrue
    BY <1>1, <1>2 DEF RecordsTrue, NewsComing, CallsTrue, Held!Finished
  <1>5. LockWorks
    BY InvoiceAssumption DEF LockWorks, Held!Init
  <1>6. RowTypes
    BY DEF RowTypes, Held!Init
  <1>7. RelaysHold /\ RequestsLock /\ AnswersFit /\ SentSettled
    BY <1>1, <1>2 DEF RelaysHold, RequestsLock, AnswersFit, SentSettled, Askers
  <1>8. InvoicesFollow
    BY <1>1, <1>2 DEF InvoicesFollow, RequestsOwn, RelaysSubmit, LookUpsTrue, CancelledFinished, CancelComing, Askers
  <1> QED BY <1>3, <1>4, <1>5, <1>6, <1>7, <1>8 DEF InvoicesTrue, InvoicesSettled

LEMMA NextInvoices == InvoiceInv /\ [MCNext]_<<vars, schedule, invoices, case>> => InvoiceInv'
  <1> SUFFICES ASSUME InvoiceInv, [MCNext]_<<vars, schedule, invoices, case>> PROVE InvoiceInv'
    OBVIOUS
  <1>1. CASE UNCHANGED invoices /\ case' = case
    <2>1. InvoicesKept' /\ InvoicesFollow'
      BY <1>1, LooseKeeps, LooseFollows DEF InvoiceInv, LooseStep, invoices
    <2>2. InvoicesSettled => InvoicesSettled'
      BY <1>1 DEF invoices, InvoicesSettled, RowTypes, RelaysHold, RequestsLock, AnswersFit, AnswerFits, SentSettled, Working
    <2> QED BY <1>1, <2>1, <2>2 DEF InvoiceInv
  <1>2. CASE case = "held" /\ Held!Next /\ case' = case
    BY <1>2, HeldIsLoose, LooseKeeps, LooseFollows, HeldSettles DEF InvoiceInv
  <1>3. CASE case = "lapsing" /\ Lapsing!Next /\ case' = case
    BY <1>3, LapsingIsLoose, LooseKeeps, LooseFollows DEF InvoiceInv
  <1> QED BY <1>1, <1>2, <1>3 DEF MCNext

LEMMA InvoicesTell == InvoiceInv => BillsTellTheTruth
  <1> SUFFICES ASSUME InvoicesTrue, InvoicesFollow, case = "held" => InvoicesSettled PROVE BillsTellTheTruth
    BY DEF InvoiceInv, InvoicesKept
  <1>1. Held!RecordsFollowPortal
    <2> SUFFICES ASSUME NEW b \in Bills
                 PROVE  /\ record[b].status \in Held!Finished => portal[b] # "unknown"
                        /\ record[b].status = "CANCELLED" => portal[b] = "cancelled"
                        /\ b \in drift \/ Held!InFlight(b) \/ Held!Agree(record[b], portal[b])
      BY DEF Held!RecordsFollowPortal
    <2>1. /\ record[b].status \in Held!Finished => portal[b] # "unknown"
          /\ record[b].status = "CANCELLED" => portal[b] = "cancelled"
      BY DEF InvoicesTrue, RecordsTrue
    <2>2. CASE portal[b] # "unknown" /\ record[b].status \notin Held!Finished /\ b \notin drift
      <3>1. PICK p \in Askers : Brings(p, b)
        BY <2>2 DEF InvoicesTrue, NewsComing
      <3> QED BY <3>1, CallFacts, <2>1 DEF Brings, Working, InvoicesTrue, Held!InFlight, Askers
    <2>3. CASE portal[b] = "cancelled" /\ record[b].status = "REGISTERED" /\ b \notin drift
      <3>1. PICK p \in People : Ends(p, b)
        BY <2>3 DEF InvoicesFollow, CancelComing
      <3> QED BY <3>1, CallFacts, <2>1 DEF Ends, Working, InvoicesTrue, Held!InFlight, Askers
    <2>4. CASE /\ ~(portal[b] # "unknown" /\ record[b].status \notin Held!Finished /\ b \notin drift)
               /\ ~(portal[b] = "cancelled" /\ record[b].status = "REGISTERED" /\ b \notin drift)
      <3>1. portal[b] \in {"unknown", "active", "cancelled"}
        BY DEF InvoicesTrue, InvoiceTypes
      <3> QED BY <2>1, <2>4, <3>1 DEF Held!Agree, Held!Finished
    <2> QED BY <2>1, <2>2, <2>3, <2>4
  <1>2. InvoicesSettled => Held!SentIsSettled
    BY DEF InvoicesSettled, SentSettled, Held!SentIsSettled
  <1> QED BY <1>1, <1>2 DEF BillsTellTheTruth

\* Whatever answers are lost, whoever dies and whether leases hold or lapse, the
\* screen never shows a number or a cancellation that the portal did not give, and
\* shows something else than the portal has only while somebody works on the bill,
\* after an answer was lost, or where a relay's answer was saved over a cancellation
\* made while it was asking; and as long as leases hold, a message that was sent
\* leaves no bill waiting (einvoice-service.ts:262, 312, 334,
\* demo-application.ts:3760-3790).
THEOREM BillsTell == MCSpec => []BillsTellTheTruth
  <1>1. InvoiceInv /\ [MCNext]_<<vars, schedule, invoices, case>> => InvoiceInv'
    BY NextInvoices
  <1> QED BY InitInvoices, <1>1, InvoicesTell, PTL DEF MCSpec
-----------------------------------------------------------------------------
(* Recurring work where anything may be slow: what a job's row says of its   *)
(* slot and of the time it is next due, and the slot last recorded as done.  *)

Slotted(j) ==
    /\ job[j] = [next |-> job[j].next, outcome |-> job[j].outcome, attempts |-> job[j].attempts,
                 slot |-> job[j].slot, by |-> job[j].by, since |-> job[j].since]
    /\ job[j].outcome \in {"never", "running", "success", "failure", "dead_lettered"}
    /\ done[j] \in Int
    /\ job[j].outcome \in {"running", "failure", "dead_lettered"} => job[j].slot \in Nat /\ job[j].slot > done[j]
    /\ job[j].outcome \in {"never", "success", "dead_lettered"} => job[j].next \in Nat /\ job[j].next > done[j]

SlotsGoOn ==
    case = "late" =>
       /\ now \in Nat
       /\ job = [j \in LateJobs |-> job[j]] /\ done = [j \in LateJobs |-> done[j]]
       /\ \A j \in LateJobs : Slotted(j)

OnlyForward == \A j \in LateJobs : job'[j].outcome = "running" => job'[j].slot > done[j]

LEMMA ClaimKeepsSlots ==
    ASSUME SlotsGoOn, case = "late", case' = case, NEW w \in Workers, Late!Claim(w)
    PROVE  SlotsGoOn' /\ OnlyForward
<1> DEFINE ripe == {j \in LateJobs : Late!Due(j) \/ Late!Lapsed(j)}
<1>1. job' = [j \in LateJobs |-> IF j \in ripe THEN Late!Claimed(j, w) ELSE job[j]]
  BY DEF Late!Claim
<1>2. UNCHANGED <<now, done>>
  BY DEF Late!Claim
<1>3. ASSUME NEW j \in LateJobs PROVE Slotted(j)' /\ (job'[j].outcome = "running" => job'[j].slot > done[j])
  <2>1. Slotted(j) /\ now \in Nat
    BY DEF SlotsGoOn
  <2>2. CASE j \notin ripe
    <3>1. job'[j] = job[j] BY <1>1, <2>2
    <3> QED BY <3>1, <2>1, <1>2 DEF Slotted
  <2>3. CASE j \in ripe
    <3>1. job'[j] = Late!Claimed(j, w) BY <1>1, <2>3
    <3>2. PICK s : s = (IF Late!Retried(j) /\ job[j].slot # Late!Never THEN job[j].slot ELSE Late!LatestSlot(job[j].next)) OBVIOUS
    <3>3. PICK a : a = (IF Late!Retried(j) THEN job[j].attempts + 1 ELSE 1) OBVIOUS
    <3>4. job'[j] = [next |-> job[j].next, outcome |-> "running", attempts |-> a, slot |-> s, by |-> w, since |-> now]
      BY <3>1, <3>2, <3>3, <2>1 DEF Late!Claimed, Slotted
    <3>5. s \in Nat /\ s > done[j]
      <4>1. CASE job[j].outcome \in {"failure", "running"}
        BY <4>1, <3>2, <2>1 DEF Slotted, Late!Retried, Late!Never
      <4>2. CASE job[j].outcome \notin {"failure", "running"}
        <5>1. job[j].next \in Nat /\ job[j].next > done[j] /\ job[j].next <= now
          BY <4>2, <2>1, <2>3 DEF Slotted, Late!Due, Late!Lapsed
        <5>2. s = Late!LatestSlot(job[j].next)
          BY <4>2, <3>2 DEF Late!Retried
        <5> QED BY <5>1, <5>2, <2>1 DEF Late!LatestSlot, Slotted
      <4> QED BY <4>1, <4>2
    <3> QED BY <3>4, <3>5, <1>2, <2>1 DEF Slotted
  <2> QED BY <2>2, <2>3
<1>4. job' = [j \in LateJobs |-> job'[j]]
  BY <1>1
<1> HIDE DEF ripe
<1> QED BY <1>2, <1>3, <1>4 DEF SlotsGoOn, OnlyForward

\* A step that leaves the row and the history of every job alone.
LEMMA SlotsLeftAlone ==
    ASSUME SlotsGoOn, case = "late", case' = case, UNCHANGED <<job, done>>, now' \in Nat
    PROVE  SlotsGoOn' /\ OnlyForward
BY DEF SlotsGoOn, OnlyForward, Slotted

LEMMA RecordKeepsSlots ==
    ASSUME SlotsGoOn, case = "late", case' = case, NEW w \in Workers, Late!Record(w)
    PROVE  SlotsGoOn' /\ OnlyForward
<1>1. PICK i : i = worker[w].doing OBVIOUS
<1>2. now' = now /\ now \in Nat
  BY DEF Late!Record, SlotsGoOn
<1>3. CASE ~Late!Mine(w, i)
  BY <1>1, <1>2, <1>3, SlotsLeftAlone DEF Late!Record
<1>4. CASE Late!Mine(w, i)
  <2>1. job' = [job EXCEPT ![i] = Late!Recorded(w, i)]
        /\ done' = IF worker[w].run = "success" THEN [done EXCEPT ![i] = job[i].slot] ELSE done
    BY <1>1, <1>4 DEF Late!Record
  <2>2. job = [j \in LateJobs |-> job[j]] /\ done = [j \in LateJobs |-> done[j]]
    BY DEF SlotsGoOn
  <2>3. job' = [j \in LateJobs |-> job'[j]] /\ done' = [j \in LateJobs |-> done'[j]]
    BY <2>1, <2>2
  <2>4. ASSUME NEW j \in LateJobs PROVE Slotted(j)' /\ (job'[j].outcome = "running" => job'[j].slot > done[j])
    <3>1. Slotted(j)
      BY DEF SlotsGoOn
    <3>2. CASE j # i
      <4>1. job'[j] = job[j] /\ done'[j] = done[j]
        BY <2>1, <2>2, <3>2
      <4> QED BY <4>1, <3>1 DEF Slotted
    <3>3. CASE j = i
      <4>1. job'[j] = Late!Recorded(w, j) /\ job[j].outcome = "running"
        BY <2>1, <2>2, <3>3, <1>4 DEF Late!Mine
      <4>2. PICK out : out = (IF worker[w].run = "failure" /\ worker[w].claim[j].attempts >= MaxPasses
                              THEN "dead_lettered" ELSE worker[w].run) OBVIOUS
      <4>3. PICK nxt : nxt = (IF out = "failure" THEN now + Late!RetryAfter(worker[w].claim[j].attempts) ELSE job[j].slot + 2)
        OBVIOUS
      <4>4. job'[j] = [next |-> nxt, outcome |-> out, attempts |-> job[j].attempts, slot |-> job[j].slot,
                       by |-> job[j].by, since |-> job[j].since]
        BY <4>1, <4>2, <4>3, <3>1 DEF Late!Recorded, Slotted
      <4>5. worker[w].run \in {"success", "failure"}
        BY DEF Late!Record
      <4>6. job[j].slot \in Nat /\ job[j].slot > done[j] /\ done[j] \in Int
        BY <4>1, <3>1 DEF Slotted
      <4>7. done'[j] = IF worker[w].run = "success" THEN job[j].slot ELSE done[j]
        BY <2>1, <2>2, <3>3
      <4>8. out \in {"success", "failure", "dead_lettered"} /\ (out = "success") = (worker[w].run = "success")
        BY <4>2, <4>5
      <4>9. out # "failure" => nxt = job[j].slot + 2
        BY <4>3
      <4> QED BY <4>4, <4>6, <4>7, <4>8, <4>9 DEF Slotted
    <3> QED BY <3>2, <3>3
  <2> QED BY <1>2, <2>3, <2>4 DEF SlotsGoOn, OnlyForward
<1> QED BY <1>3, <1>4

LEMMA ReplayKeepsSlots ==
    ASSUME SlotsGoOn, case = "late", case' = case, NEW i \in LateJobs, Late!Replay(i)
    PROVE  SlotsGoOn' /\ OnlyForward
<1>1. job' = [job EXCEPT ![i] = [@ EXCEPT !.outcome = "failure", !.attempts = 0, !.next = now]]
      /\ UNCHANGED <<now, done>> /\ job[i].outcome \in {"dead_lettered", "failure"}
  BY DEF Late!Replay
<1>2. job = [j \in LateJobs |-> job[j]] /\ now \in Nat
  BY DEF SlotsGoOn
<1>3. ASSUME NEW j \in LateJobs PROVE Slotted(j)' /\ (job'[j].outcome = "running" => job'[j].slot > done[j])
  <2>1. Slotted(j)
    BY DEF SlotsGoOn
  <2>2. CASE j # i
    <3>1. job'[j] = job[j]
      BY <1>1, <1>2, <2>2
    <3> QED BY <3>1, <1>1, <2>1 DEF Slotted
  <2>3. CASE j = i
    <3>1. job'[j] = [next |-> now, outcome |-> "failure", attempts |-> 0, slot |-> job[j].slot,
                     by |-> job[j].by, since |-> job[j].since]
      BY <1>1, <1>2, <2>1, <2>3 DEF Slotted
    <3> QED BY <3>1, <1>1, <2>1, <2>3 DEF Slotted
  <2> QED BY <2>2, <2>3
<1>4. job' = [j \in LateJobs |-> job'[j]] /\ done' = [j \in LateJobs |-> done'[j]]
  BY <1>1, <1>2 DEF SlotsGoOn
<1> QED BY <1>1, <1>2, <1>3, <1>4 DEF SlotsGoOn, OnlyForward

LEMMA SlotStep ==
    ASSUME SlotsGoOn, case = "late", case' = case, Late!Next
    PROVE  SlotsGoOn' /\ OnlyForward
<1>1. now \in Nat
  BY DEF SlotsGoOn
<1>2. ASSUME NEW w \in Workers, Late!Claim(w) PROVE SlotsGoOn' /\ OnlyForward
  BY <1>2, ClaimKeepsSlots
<1>3. ASSUME NEW w \in Workers, Late!Record(w) PROVE SlotsGoOn' /\ OnlyForward
  BY <1>3, RecordKeepsSlots
<1>4. ASSUME NEW w \in Workers, Late!Call(w) \/ Late!Begin(w) \/ Late!Busy(w) \/ Late!Settle(w) \/ Late!Crash(w)
      PROVE SlotsGoOn' /\ OnlyForward
  BY <1>1, <1>4, SlotsLeftAlone DEF Late!Call, Late!Begin, Late!Busy, Late!Settle, Late!Crash
<1>5. ASSUME NEW j \in LateJobs, Late!Replay(j) PROVE SlotsGoOn' /\ OnlyForward
  BY <1>5, ReplayKeepsSlots
<1>6. CASE Late!Tick
  BY <1>1, <1>6, SlotsLeftAlone DEF Late!Tick
<1>7. CASE Late!Finished
  BY <1>1, <1>7, SlotsLeftAlone DEF Late!Finished, Late!vars
<1> QED BY <1>2, <1>3, <1>4, <1>5, <1>6, <1>7 DEF Late!Next

(* A slot recorded as done is never claimed again, however slow the workers  *)
(* and their leases are, whoever dies and whatever is put back: any number   *)
(* of workers and of jobs (recurring-postgres.ts:84-86, 125).                *)
THEOREM SlotsGoForward == MCSpec => [][case = "late" => Late!ClaimsForward]_schedule
<1>1. MCInit => SlotsGoOn
  BY DEF MCInit, SlotsGoOn, Slotted, Late!Init, Late!Never
<1>2. SlotsGoOn /\ [MCNext]_<<vars, schedule, invoices, case>> =>
        SlotsGoOn' /\ [case = "late" => Late!ClaimsForward]_schedule
  <2> SUFFICES ASSUME SlotsGoOn, [MCNext]_<<vars, schedule, invoices, case>>
               PROVE  SlotsGoOn' /\ [case = "late" => Late!ClaimsForward]_schedule
    OBVIOUS
  <2>1. CASE case = "late" /\ case' = case /\ Late!Next
    <3>1. SlotsGoOn' /\ OnlyForward BY <2>1, SlotStep
    <3> QED BY <3>1 DEF OnlyForward, Late!ClaimsForward
  <2>2. CASE case = "late" /\ case' = case /\ ~Late!Next
    <3>1. UNCHANGED schedule
      BY <2>2 DEF MCNext
    <3> QED BY <3>1, <2>2, SlotsLeftAlone DEF schedule, SlotsGoOn
  <2>3. CASE case # "late"
    BY <2>3 DEF MCNext, SlotsGoOn
  <2>4. case' = case
    BY DEF MCNext
  <2> QED BY <2>1, <2>2, <2>3, <2>4
<1> QED BY <1>1, <1>2, PTL DEF MCSpec
=============================================================================
