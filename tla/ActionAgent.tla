----------------------------- MODULE ActionAgent -----------------------------
(* The assistant that does things (packages/action-agent): what a person     *)
(* asked for is expanded against the books into a list, the list is shown,   *)
(* one fingerprint of it is approved, and it runs only if a new expansion    *)
(* gives the same fingerprint.  Beside each plan a platform command walks    *)
(* through its own states.                                                   *)
(*                                                                           *)
(* The books are what matters of them here: for each customer how much a     *)
(* reminder would be about, 0 when none is due.  Requests are whole units of *)
(* work, one at a time, but a reminder is sent from inside one.              *)
(*                                                                           *)
(* Left out: understanding the request, reads that change nothing, the       *)
(* fingerprint's hash, and policies, of which the API installs none.         *)
EXTENDS Naturals, FiniteSets

CONSTANTS
    Customers, Plans, Keys, None,
    MaxOwed, MaxChanges, MaxRollbacks \* bounds

VARIABLES
    due,        \* what a reminder to each customer would be about
    maySend,    \* the person may send reminders
    plan,       \* agent_plans
    command,    \* the plan's platform command, by its status
    prepared,   \* plans whose prepared command waits for a person
    report,     \* agent_reports by plan and key
    ran,        \* reminders that went, with the amount they were about
    agreed,     \* the list a person saw and approved
    changes, rollbacks

books == <<due, maySend>>
vars == <<books, plan, command, prepared, report, ran, agreed, changes, rollbacks>>

\* A step of the list: a reminder and its amount, or a cancellation to prepare.
Cancellation == [to |-> None, amount |-> 0]
Steps == [to : Customers, amount : 1..MaxOwed] \cup {Cancellation}
Outcomes == {"DONE", "PREPARED", "FAILED"}

States == {"PLANNED", "PREVIEWED", "APPROVED", "REJECTED", "EXECUTED"}
Statuses == {"draft", "submitted", "approved", "rejected", "finalised"}

TypeOK ==
    /\ due \in [Customers -> 0..MaxOwed] /\ maySend \in BOOLEAN
    /\ \A p \in Plans : plan[p] # None =>
          /\ plan[p].intent \in {"CHASE_UNPAID", "CANCEL_INVOICE"} /\ plan[p].state \in States
          /\ plan[p].steps \subseteq Steps /\ (plan[p].state = "PLANNED") = (command[p] = None)
    /\ command \in [Plans -> Statuses \cup {None}] /\ prepared \subseteq Plans
    /\ \A p \in Plans, k \in Keys : report[p, k] # None => report[p, k] \in [DOMAIN report[p, k] -> Outcomes]
    /\ \A p \in Plans : ran[p] \subseteq Steps /\ agreed[p] \subseteq Steps
    /\ changes \in 0..MaxChanges /\ rollbacks \in 0..MaxRollbacks

Init ==
    /\ due \in [Customers -> {0, MaxOwed}] /\ maySend = TRUE
    /\ plan = [p \in Plans |-> None] /\ command = [p \in Plans |-> None] /\ prepared = {}
    /\ report = [pk \in Plans \X Keys |-> None]
    /\ ran = [p \in Plans |-> {}] /\ agreed = [p \in Plans |-> {}]
    /\ changes = 0 /\ rollbacks = 0

-----------------------------------------------------------------------------
\* transitions: where a platform command may go from where it is.
May(from, to) ==
    to \in CASE from = "draft" -> {"submitted"} [] from = "submitted" -> {"approved", "rejected"}
             [] from = "approved" -> {"finalised"} [] OTHER -> {}

(* expand: the reminders that are due, none at all to somebody who may not   *)
(* send them; or the one cancellation that was asked for.                    *)
Expand(intent) ==
    IF intent = "CANCEL_INVOICE" THEN {Cancellation}
    ELSE IF maySend THEN {[to |-> c, amount |-> due[c]] : c \in {d \in Customers : due[d] > 0}} ELSE {}

NeedsApproval(p) == plan[p].steps # {}

Ask(p, intent) ==
    /\ plan[p] = None
    /\ plan' = [plan EXCEPT ![p] = [intent |-> intent, state |-> "PLANNED", steps |-> {}]]
    /\ UNCHANGED <<books, command, prepared, report, ran, agreed, changes, rollbacks>>

(* The command is created once, whatever the list becomes, and submitted     *)
(* when the list first needs an approval.                                    *)
Preview(p) ==
    /\ IF plan[p] = None THEN FALSE ELSE plan[p].state # "EXECUTED"
    /\ plan' = [plan EXCEPT ![p] = [@ EXCEPT !.state = "PREVIEWED", !.steps = Expand(plan[p].intent)]]
    /\ LET created == IF command[p] = None THEN "draft" ELSE command[p]
       IN command' = [command EXCEPT ![p] = IF NeedsApproval(p)' /\ created = "draft" THEN "submitted" ELSE created]
    /\ UNCHANGED <<books, prepared, report, ran, agreed, changes, rollbacks>>

\* Whatever list the person was shown will do.
SameListTrusting(p, seen) == NeedsApproval(p)

\* The list on the person's screen is the one that is kept.
SameList(p, seen) == seen = plan[p].steps

Approve(p, seen) ==
    /\ IF plan[p] = None THEN FALSE ELSE plan[p].state = "PREVIEWED"
    /\ SameList(p, seen) /\ NeedsApproval(p) /\ May(command[p], "approved")
    /\ plan' = [plan EXCEPT ![p].state = "APPROVED"] /\ command' = [command EXCEPT ![p] = "approved"]
    /\ agreed' = [agreed EXCEPT ![p] = seen]
    /\ UNCHANGED <<books, prepared, report, ran, changes, rollbacks>>

Reject(p) ==
    /\ command[p] # None /\ May(command[p], "rejected")
    /\ plan' = [plan EXCEPT ![p].state = "REJECTED"] /\ command' = [command EXCEPT ![p] = "rejected"]
    /\ UNCHANGED <<books, prepared, report, ran, agreed, changes, rollbacks>>

-----------------------------------------------------------------------------
(* execute                                                                   *)

Permitted(p) == (\E s \in plan[p].steps : s # Cancellation) => maySend

\* What was approved runs, whatever the books say by now.
MayRunBlind(p, seen) == Permitted(p) /\ (NeedsApproval(p) => plan[p].state = "APPROVED") /\ SameList(p, seen)

\* What needs approval must have it; what was shown must still be what would
\* be done.
MayRun(p, seen) ==
    /\ Permitted(p)
    /\ NeedsApproval(p) => plan[p].state = "APPROVED"
    /\ SameList(p, seen)
    /\ Expand(plan[p].intent) = plan[p].steps

(* What the report says of the steps: a cancellation is only prepared, and a *)
(* reminder is reported as done or as failed.                                *)
Outcome(p) == {o \in [plan[p].steps -> Outcomes] : \A s \in plan[p].steps : (o[s] = "PREPARED") = (s = Cancellation)}

\* A command that has come to its end is taken as well.
FinishesAgain(p) == command[p] # None

(* finish: a command nobody had to approve is walked through the states.  It *)
(* is finalised even when every reminder failed, for the dues were read.     *)
Finishes(p) == command[p] \in {"draft", "submitted"} \/ May(command[p], "finalised")

(* Which reminders went is another matter: one that was given up as too slow *)
(* goes all the same, and one that came back undelivered or suppressed       *)
(* throws nothing, so its step is done.  A reminder that went is not due any *)
(* more; when the unit of work fails it stays sent and nothing else of the   *)
(* run remains.                                                              *)
Execute(p, seen, k) ==
    /\ command[p] # None /\ report[p, k] = None
    /\ MayRun(p, seen)
    /\ \E outcome \in Outcome(p), sent \in SUBSET (plan[p].steps \ {Cancellation}) :
         /\ ran' = [ran EXCEPT ![p] = @ \cup {[s EXCEPT !.amount = due[s.to]] : s \in sent}]
         /\ \/ /\ Finishes(p)
               /\ due' = [c \in Customers |-> IF \E s \in sent : s.to = c THEN 0 ELSE due[c]]
               /\ plan' = [plan EXCEPT ![p].state = "EXECUTED"]
               /\ command' = [command EXCEPT ![p] = "finalised"]
               /\ prepared' = IF Cancellation \in plan[p].steps THEN prepared \cup {p} ELSE prepared
               /\ report' = [report EXCEPT ![<<p, k>>] = outcome]
               /\ UNCHANGED rollbacks
            \/ /\ rollbacks < MaxRollbacks /\ rollbacks' = rollbacks + 1
               /\ UNCHANGED <<due, plan, command, prepared, report>>
    /\ UNCHANGED <<maySend, agreed, changes>>

\* A bill is paid, disputed, falls due; a permission is taken or given.
BooksChange ==
    /\ changes < MaxChanges /\ changes' = changes + 1
    /\ \/ \E c \in Customers, n \in 0..MaxOwed : n # due[c] /\ due' = [due EXCEPT ![c] = n] /\ UNCHANGED maySend
       \/ maySend' = ~maySend /\ UNCHANGED due
    /\ UNCHANGED <<plan, command, prepared, report, ran, agreed, rollbacks>>

Lists == {l \in SUBSET Steps : l = {Cancellation} \/ \A s, t \in l : s # Cancellation /\ (s.to = t.to => s = t)}

Next ==
    \/ \E p \in Plans :
        \/ \E intent \in {"CHASE_UNPAID", "CANCEL_INVOICE"} : Ask(p, intent)
        \/ Preview(p) \/ Reject(p)
        \/ \E seen \in Lists : Approve(p, seen) \/ \E k \in Keys : Execute(p, seen, k)
    \/ BooksChange

Spec == Init /\ [][Next]_vars

-----------------------------------------------------------------------------
(* Nothing is done that a person did not see and agree to, to the customer   *)
(* and the amount, however often the list was shown again, and whatever      *)
(* happened to the books in between (service.ts:273-285, 306-329).           *)
OnlyWhatWasAgreed == \A p \in Plans : ran[p] \subseteq agreed[p]

(* A plan is carried out once, under whatever keys it is asked for; and      *)
(* unless its unit of work failed, a reminder that went is in the plan's     *)
(* report, as done or as failed, and a cancellation that was prepared too    *)
(* (service.ts:291, 349-365, 397).  The converse is not claimed: a step that *)
(* is reported as done asked for a reminder, which may have come back        *)
(* undelivered (tools.ts:154, collections/service.ts:457).                   *)
CarriedOutOnce ==
    \A p \in Plans :
        LET reports == {report[p, k] : k \in {l \in Keys : report[p, l] # None}}
        IN /\ Cardinality({k \in Keys : report[p, k] # None}) <= 1
           /\ rollbacks = 0 => \A s \in ran[p] : \E r \in reports : s \in DOMAIN r /\ r[s] # "PREPARED"
           /\ p \in prepared => reports # {}
=============================================================================
