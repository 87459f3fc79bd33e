-------------------------------- MODULE Gsp --------------------------------
(***************************************************************************)
(* One GST number's line to the government (packages/gsp): the permission  *)
(* to use it (service.ts, authorisation.ts), the log of calls (channel.ts),*)
(* the provider's callbacks (webhooks.ts, behind the API's endpoint) and   *)
(* the reconciliation of what was never answered (reconcile.ts).  A call,  *)
(* an application of a callback and a reconciliation are each one unit of  *)
(* work under the company's lock; a callback is looked up before it waits  *)
(* for that lock, and what a callback says is between the provider and us. *)
(***************************************************************************)
EXTENDS Naturals, FiniteSets

CONSTANTS
  Calls,           \* attempts, each for a document of its own
  References,      \* numbers the government may give a document
  None,            \* no reference
  Events,          \* callbacks the provider may send
  Deliveries,      \* requests of the callback endpoint at the same time
  MaxFailures,     \* bound: units of work that fail
  MaxSteps         \* bound: steps in the life of the permission

VARIABLES
  auth,            \* the GST number's authorisation
  row,             \* the call log
  making,          \* the call whose unit of work is open
  gov,             \* what the government holds for the call's document
  stray,           \* requests that may still reach it
  event,           \* the provider's callbacks: which call, which reference
  stored,          \* government_webhook_events: what became of each
  known,           \* callbacks this process has seen (ConnectorGateway)
  delivery,        \* what each request of the endpoint is doing
  asked,           \* calls a person has been asked about
  failures, steps

log == <<row, making, gov, stray>>
callbacks == <<event, stored, known, delivery>>
vars == <<auth, row, making, gov, stray, event, stored, known, delivery, asked, failures, steps>>

NoRow == [outcome |-> "none", ref |-> None]
Idle == [step |-> "idle"]
Row(outcome, ref) == [outcome |-> outcome, ref |-> ref]

TypeOK ==
  /\ auth \in [status : {"none", "API_USER_PENDING", "OTP_REQUESTED", "ACTIVE", "SUSPENDED", "REVOKED"},
               credential : BOOLEAN, consent : {"none", "given", "withdrawn"}, otp : BOOLEAN, lapsed : BOOLEAN]
  /\ row \in [Calls -> [outcome : {"none", "UNKNOWN", "ACCEPTED", "REJECTED", "REFUSED"}, ref : References \cup {None}]]
  /\ making \in SUBSET Calls /\ Cardinality(making) <= 1
  /\ gov \in [Calls -> References \cup {None}]
  /\ stray \subseteq Calls
  /\ \A e \in Events : event[e] \in {Idle} \cup [step : {"sent"}, call : Calls, ref : References \cup {None}]
  /\ stored \in [Events -> {"none", "UNMATCHED", "REFUSED", "IGNORED", "CONFIRMED", "CONFLICT", "SETTLED"}]
  /\ known \subseteq Events
  /\ \A d \in Deliveries : delivery[d] \in {Idle} \cup [step : {"apply"}, event : Events, company : BOOLEAN]
  /\ asked \subseteq Calls
  /\ failures \in 0..MaxFailures
  /\ steps \in 0..MaxSteps

Init ==
  /\ auth = [status |-> "none", credential |-> FALSE, consent |-> "none", otp |-> FALSE, lapsed |-> FALSE]
  /\ row = [c \in Calls |-> NoRow]
  /\ making = {}
  /\ gov = [c \in Calls |-> None]
  /\ stray = {}
  /\ event = [e \in Events |-> Idle]
  /\ stored = [e \in Events |-> "none"]
  /\ known = {}
  /\ delivery = [d \in Deliveries |-> Idle]
  /\ asked = {}
  /\ failures = 0 /\ steps = 0

-----------------------------------------------------------------------------
(* The permission (GovernmentAccessService): each step a unit of work.  A    *)
(* provider that refuses or does not answer changes nothing, except that a   *)
(* revocation stands whatever it says.                                       *)

Step(new) ==
  /\ making = {} /\ steps < MaxSteps
  /\ auth' = new
  /\ steps' = steps + 1
  /\ UNCHANGED <<log, callbacks, asked, failures>>

BeginOnboarding ==
  /\ auth.status # "ACTIVE"
  /\ Step([auth EXCEPT !.status = "API_USER_PENDING", !.credential = FALSE, !.otp = FALSE, !.lapsed = FALSE])

RequestOtp ==
  /\ auth.status \notin {"none", "REVOKED"}
  /\ Step([auth EXCEPT !.status = "OTP_REQUESTED", !.otp = TRUE])

\* The code is right, or it has expired.
VerifyOtp ==
  /\ auth.otp
  /\ \/ Step([status |-> "ACTIVE", credential |-> TRUE, consent |-> "given", otp |-> FALSE, lapsed |-> FALSE])
     \/ Step([auth EXCEPT !.otp = FALSE])

\* New credentials, or the provider wants to be authorised again.
RotateCredential ==
  /\ auth.status = "ACTIVE"
  /\ \/ Step([auth EXCEPT !.lapsed = FALSE])
     \/ Step([auth EXCEPT !.status = "SUSPENDED", !.credential = FALSE])

Revoke ==
  /\ auth.status \notin {"none", "REVOKED"}
  /\ Step([auth EXCEPT !.status = "REVOKED", !.credential = FALSE, !.otp = FALSE,
                       !.consent = IF @ = "none" THEN @ ELSE "withdrawn"])

Suspend == auth.status = "ACTIVE" /\ Step([auth EXCEPT !.status = "SUSPENDED"])

\* Bug: what was taken away when the calls were paused is not looked at.
ResumeAnyway == auth.status = "SUSPENDED" /\ Step([auth EXCEPT !.status = "ACTIVE"])

Resume == auth.status = "SUSPENDED" /\ auth.credential /\ Step([auth EXCEPT !.status = "ACTIVE"])

\* validUntil, or the credential's own end, passes.
Lapse == auth.status = "ACTIVE" /\ ~auth.lapsed /\ Step([auth EXCEPT !.lapsed = TRUE])

\* checkAuthorisation, for an act that was consented to
MayCall == auth.status = "ACTIVE" /\ ~auth.lapsed /\ auth.credential

-----------------------------------------------------------------------------
(* The calls (GovernmentChannel.call)                                        *)

\* Every attempt is a call of its own.
New(c) == making = {} /\ row[c] = NoRow /\ gov[c] = None /\ c \notin stray

Refuse(c) ==
  /\ New(c) /\ ~MayCall
  /\ row' = [row EXCEPT ![c] = Row("REFUSED", None)]
  /\ UNCHANGED <<auth, making, gov, stray, callbacks, asked, failures, steps>>

\* The row is inserted and the request goes out, all in one open transaction.
Send(c) ==
  /\ New(c) /\ MayCall
  /\ making' = {c}
  /\ stray' = stray \cup {c}
  /\ UNCHANGED <<auth, row, gov, callbacks, asked, failures, steps>>

\* The request reaches the government, before or after we gave it up.
Land(c) ==
  /\ c \in stray
  /\ \E ref \in References : gov' = [gov EXCEPT ![c] = ref]
  /\ stray' = stray \ {c}
  /\ UNCHANGED <<auth, row, making, callbacks, asked, failures, steps>>

Settled(c, new) ==
  /\ row' = [row EXCEPT ![c] = new]
  /\ making' = {}
  /\ UNCHANGED <<auth, gov, callbacks, asked, failures, steps>>

\* An answer, its number perhaps missing from it; a refusal; or no answer.
Answer(c) ==
  /\ c \in making
  /\ \/ gov[c] # None /\ UNCHANGED stray /\ \E ref \in {gov[c], None} : Settled(c, Row("ACCEPTED", ref))
     \/ gov[c] = None /\ stray' = stray \ {c} /\ Settled(c, Row("REJECTED", None))
     \/ stray' \in {stray, stray \ {c}} /\ Settled(c, Row("UNKNOWN", None))

\* The transaction fails: no trace of the call is left.
Undo(c) ==
  /\ c \in making
  /\ failures < MaxFailures /\ failures' = failures + 1
  /\ making' = {}
  /\ UNCHANGED <<auth, row, gov, stray, callbacks, asked, steps>>

\* GovernmentCallReconciler.run: the calls nobody answered
Reconcile(c) ==
  /\ making = {} /\ row[c].outcome = "UNKNOWN"
  /\ row' = [row EXCEPT ![c] = IF gov[c] = None THEN Row("REJECTED", None) ELSE Row("ACCEPTED", gov[c])]
  /\ UNCHANGED <<auth, making, gov, stray, callbacks, asked, failures, steps>>

-----------------------------------------------------------------------------
(* The callbacks (GovernmentWebhookReceiver)                                 *)

\* The provider's own: about a call it has had, with the number it holds, another or none
Emit(e, c) ==
  /\ event[e] = Idle /\ (gov[c] # None \/ c \in stray)
  /\ \E ref \in References \cup {None} : event' = [event EXCEPT ![e] = [step |-> "sent", call |-> c, ref |-> ref]]
  /\ UNCHANGED <<auth, log, stored, known, delivery, asked, failures, steps>>

Done(d) == delivery' = [delivery EXCEPT ![d] = Idle]

\* Verified; known already; else the company is looked up by the call's row
Receive(d, e) ==
  /\ delivery[d] = Idle /\ event[e] # Idle
  /\ known' = known \cup {e}
  /\ IF stored[e] \notin {"none", "UNMATCHED"} \/ (stored[e] = "none" /\ e \in known)
     THEN Done(d)
     ELSE delivery' = [delivery EXCEPT ![d] = [step |-> "apply", event |-> e, company |-> row[event[e].call] # NoRow]]
  /\ UNCHANGED <<auth, log, event, stored, asked, failures, steps>>

\* Bug: a number that arrives late takes the place of what we recorded.
VerdictNewest(held, ref) ==
  CASE ref = None -> "IGNORED"
    [] held.ref = ref -> "CONFIRMED"
    [] OTHER -> "SETTLED"

Verdict(held, ref) ==
  CASE ref = None -> "IGNORED"
    [] ref # None /\ held.ref = ref -> "CONFIRMED"
    [] ref # None /\ held.ref \notin {None, ref} -> "CONFLICT"
    [] ref # None /\ held = Row("REJECTED", None) -> "CONFLICT"
    [] OTHER -> "SETTLED"

\* Bug: the disagreement is written down, and nobody is asked.
AskedNobody(c, verdict) == asked

Asked(c, verdict) == IF verdict = "CONFLICT" THEN asked \cup {c} ELSE asked

\* In the company's unit of work, or in none when there is no such call
Apply(d) ==
  LET e == delivery[d].event
      c == event[e].call
      ref == event[e].ref
      verdict == IF ~delivery[d].company THEN "UNMATCHED"
                 ELSE IF auth.status = "none" THEN "REFUSED" ELSE Verdict(row[c], ref)
  IN /\ delivery[d] # Idle
     /\ delivery[d].company => making = {}
     /\ IF stored[e] \notin {"none", "UNMATCHED"}
        THEN UNCHANGED <<row, stored, asked>>
        ELSE /\ stored' = [stored EXCEPT ![e] = verdict]
             /\ row' = IF verdict = "SETTLED" THEN [row EXCEPT ![c] = Row("ACCEPTED", ref)] ELSE row
             /\ asked' = Asked(c, verdict)
     /\ Done(d)
     /\ UNCHANGED <<auth, making, gov, stray, event, known, failures, steps>>

\* The unit of work fails: the provider is told nothing and sends it again.
FailApply(d) ==
  /\ delivery[d] # Idle
  /\ failures < MaxFailures /\ failures' = failures + 1
  /\ delivery' = [delivery EXCEPT ![d] = Idle]
  /\ UNCHANGED <<auth, log, event, stored, known, asked, steps>>

Next ==
  \/ BeginOnboarding \/ RequestOtp \/ VerifyOtp \/ RotateCredential \/ Revoke \/ Suspend \/ Resume \/ Lapse
  \/ \E c \in Calls : Refuse(c) \/ Send(c) \/ Land(c) \/ Answer(c) \/ Undo(c) \/ Reconcile(c)
  \/ \E e \in Events : (\E c \in Calls : Emit(e, c)) \/ (\E d \in Deliveries : Receive(d, e))
  \/ \E d \in Deliveries : Apply(d) \/ FailApply(d)

Spec == Init /\ [][Next]_vars

-----------------------------------------------------------------------------
(* Whatever order answers, callbacks, their repeats and the reconciliation   *)
(* come in, the number we hold is never replaced and what we recorded as     *)
(* refused is not turned round by a later message: "Disagreement is never    *)
(* resolved by whoever wrote last" (webhooks.ts:24).                         *)
AnswersStand ==
  [][\A c \in Calls :
       /\ row[c].ref # None => row'[c].ref = row[c].ref
       /\ row[c].outcome \in {"REJECTED", "REFUSED"} => row'[c] = row[c]
       /\ row[c].outcome = "ACCEPTED" => row'[c].outcome = "ACCEPTED"]_vars

(* Two answers for one document that both reached us are in front of a       *)
(* person (webhooks.ts:26); what did not is in no row.  And the number may   *)
(* be used only while its owner's consent stands, however it was paused,     *)
(* taken back and given again (service.ts:18).                               *)
DisagreementsAreAsked ==
  /\ \A e \in Events :
       stored[e] \in {"CONFIRMED", "CONFLICT", "SETTLED"} =>
         event[e].call \in asked \/ row[event[e].call] = Row("ACCEPTED", event[e].ref)
  /\ auth.status = "ACTIVE" => auth.consent = "given" /\ auth.credential
=============================================================================
