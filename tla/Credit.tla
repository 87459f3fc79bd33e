------------------------------- MODULE Credit -------------------------------
(* Input tax credit (packages/itc) and the monthly returns it is taken in    *)
(* (packages/gst-returns).  A bill in the books is compared with what its    *)
(* supplier told the government; what both have, or a person answers for, is *)
(* credit on the month's return, and goods sent back take theirs off it.     *)
(* What is not taken waits for a later month; a claim on a purchase says in  *)
(* which month it was taken, so that no later month takes it again.          *)
(*                                                                           *)
(* A month's comparison is worked out anew each time it is looked at.  A     *)
(* return keeps a photograph of it: one is made when the return is prepared, *)
(* which also claims what is on it, and another when it is approved.  Every  *)
(* request is one unit of work.                                              *)
(*                                                                           *)
(* Left out: copies of a bill, reverse charge, imports, tax that may never   *)
(* be claimed and bills without a GST number; the sales side of a return and *)
(* what may block it; sending it, for which the server has no channel; and   *)
(* the reversal of a purchase, which it does not offer.                      *)
EXTENDS Integers, FiniteSets, FiniteSetsExt

CONSTANTS
    Bills, Notes,   \* purchases, and goods sent back
    BillOf,         \* the bill a note corrects
    Tax,            \* the tax of each in our books
    Months,
    LastReturn,     \* the last month whose return is due in time for a claim
    Orderly,        \* months are worked in turn, and what is approved is what was prepared
    MaxInputs,      \* bound on files read and answers given
    None

VARIABLES
    book,           \* the month a document is dated in
    stated,         \* what a month's statement of the government says of a bill
    read,           \* files already read, by month
    answer,         \* the latest answer on a line of a month, and the figures it was given about
    accepted,       \* lines of a month that were accepted once: the request may come again
    claim,          \* the month credit on a document was claimed for
    return,         \* a month's return
    late,           \* the last day for a claim has gone by
    inputs

vars == <<book, stated, read, answer, accepted, claim, return, late, inputs>>

Documents == Bills \cup Notes
Statements == {"full", "less", "withdrawn", "otherHead"}
Kinds == {"ACCEPT", "REFUSE"}   \* refused or kept pending: the same to a return
States == {"NONE", "DRAFT", "APPROVED"}   \* exported or not: the same to all that follows
Answers == [kind : Kinds, about : Statements \cup {None}]
Photos == [Documents -> Nat]

TypeOK ==
    /\ book \in [Documents -> Months \cup {None}]
    /\ stated \in [Months -> [Bills -> Statements \cup {None}]]
    /\ read \in [Months -> SUBSET (Bills \X Statements)]
    /\ \A m \in Months, d \in Documents : answer[m][d] \in {None} \cup Answers
    /\ accepted \in [Months -> SUBSET Documents]
    /\ claim \in [Documents -> Months \cup {None}]
    /\ return \in [Months -> [state : States, photo : Photos]]
    /\ late \in BOOLEAN /\ inputs \in 0..MaxInputs

Init ==
    /\ book = [d \in Documents |-> None]
    /\ stated = [m \in Months |-> [b \in Bills |-> None]]
    /\ read = [m \in Months |-> {}]
    /\ answer = [m \in Months |-> [d \in Documents |-> None]]
    /\ accepted = [m \in Months |-> {}]
    /\ claim = [d \in Documents |-> None]
    /\ return = [m \in Months |-> [state |-> "NONE", photo |-> [d \in Documents |-> 0]]]
    /\ late = FALSE /\ inputs = 0

-----------------------------------------------------------------------------
(* A month's comparison, with the answers given on its lines                 *)

ClaimedBefore(d, m) == claim[d] # None /\ claim[d] < m

Shown(d, m) == book[d] # None /\ book[d] <= m /\ ~ClaimedBefore(d, m)

\* The latest month's word on a bill, carried forward with it.
Evidence(d, m) ==
    LET spoken == IF d \in Bills THEN {n \in Months : n <= m /\ stated[n][d] # None} ELSE {}
    IN IF spoken = {} THEN None ELSE stated[Max(spoken)][d]

\* An acceptance answers the figures it was given about, a refusal any.
Accepts(d, m, given) == given[d] # None /\ given[d].kind = "ACCEPT" /\ given[d].about = Evidence(d, m)
Refuses(d, given) == given[d] # None /\ given[d].kind # "ACCEPT"

IsTimeBarred(m) == late \/ m > LastReturn

\* assessLine, for a bill
BillTaken(b, m, given) ==
    /\ Shown(b, m) /\ ~IsTimeBarred(m)
    /\ \/ Evidence(b, m) = "full" /\ ~Refuses(b, given)
       \/ Evidence(b, m) \in {None, "less", "withdrawn"} /\ Accepts(b, m, given)

\* Bug: goods sent back come off whether or not their bill's credit was taken.
NoteTakenAlone(n, m, given) == Shown(n, m)
\* Goods sent back wait with their bill, and nobody's answer holds them.
NoteTaken(n, m, given) ==
    Shown(n, m) /\ (Shown(BillOf[n], m) => BillTaken(BillOf[n], m, given))

Taken(d, m, given) == IF d \in Bills THEN BillTaken(d, m, given) ELSE NoteTaken(d, m, given)

\* The lower of the two figures; our own where the government has none.
Claimable(d, m) == IF Evidence(d, m) = "less" THEN Tax[d] - 1 ELSE Tax[d]

\* The credit side of the month's return.
Linkage(m) == [d \in Documents |-> IF Taken(d, m, answer[m]) THEN Claimable(d, m) ELSE 0]
TakenIn(m) == {d \in Documents : Taken(d, m, answer[m])}

\* recordClaim: a document that has a claim keeps it.
Recorded(taken, m) == [d \in Documents |-> IF d \in taken /\ claim[d] = None THEN m ELSE claim[d]]

-----------------------------------------------------------------------------
(* The books, the government's statements, answers                           *)

Untouched(m) == return[m].state = "NONE" /\ \A d \in Documents : answer[m][d] = None
InTurn(m) == Orderly => \A n \in Months : n > m => Untouched(n)

Post(d, m) ==
    /\ book[d] = None
    /\ d \in Notes => book[BillOf[d]] # None /\ book[BillOf[d]] <= m
    /\ book' = [book EXCEPT ![d] = m]
    /\ UNCHANGED <<stated, read, answer, accepted, claim, return, late, inputs>>

\* A file already read for the month is not read again, whatever came since.
ImportFile(m, b, s) ==
    /\ <<b, s>> \notin read[m]
    /\ inputs < MaxInputs /\ inputs' = inputs + 1
    /\ stated' = [stated EXCEPT ![m][b] = s]
    /\ read' = [read EXCEPT ![m] = @ \cup {<<b, s>>}]
    /\ UNCHANGED <<book, answer, accepted, claim, return, late>>

Decide(m, d, kind) ==
    /\ InTurn(m) /\ Shown(d, m)
    /\ inputs < MaxInputs /\ inputs' = inputs + 1
    /\ answer' = [answer EXCEPT ![m][d] = [kind |-> kind, about |-> Evidence(d, m)]]
    /\ accepted' = IF kind = "ACCEPT" THEN [accepted EXCEPT ![m] = @ \cup {d}] ELSE accepted
    /\ claim' = Recorded(IF kind = "ACCEPT" /\ Taken(d, m, answer'[m]) THEN {d} ELSE {}, m)
    /\ UNCHANGED <<book, stated, read, return, late>>

\* The request of an acceptance comes again and is answered by the month as it is now.
DecideAgain(m, d) ==
    /\ InTurn(m) /\ d \in accepted[m]
    /\ claim' = Recorded({d} \cap TakenIn(m), m)
    /\ UNCHANGED <<book, stated, read, answer, accepted, return, late, inputs>>

YearEnds == late' = TRUE /\ UNCHANGED <<book, stated, read, answer, accepted, claim, return, inputs>>

-----------------------------------------------------------------------------
(* The return                                                                *)

Photograph(m, state) == [return EXCEPT ![m] = [state |-> state, photo |-> Linkage(m)]]

\* Bug: goods sent back are left out.
ClaimPeriodBills(m) == Recorded(TakenIn(m) \cap Bills, m)
ClaimPeriod(m) == Recorded(TakenIn(m), m)

Signed(m) == return[m].state = "APPROVED"

Prepare(m) ==
    /\ InTurn(m) /\ ~Signed(m)
    /\ return' = Photograph(m, "DRAFT")
    /\ claim' = ClaimPeriod(m)
    /\ UNCHANGED <<book, stated, read, answer, accepted, late, inputs>>

\* With a reference already used no photograph is taken, but the claims are.
PrepareAgain(m) ==
    /\ InTurn(m) /\ return[m].state # "NONE"
    /\ claim' = ClaimPeriod(m)
    /\ UNCHANGED <<book, stated, read, answer, accepted, return, late, inputs>>

Approve(m) ==
    /\ InTurn(m) /\ return[m].state = "DRAFT"
    /\ Orderly => return[m].photo = Linkage(m)
    /\ return' = Photograph(m, "APPROVED")
    /\ UNCHANGED <<book, stated, read, answer, accepted, claim, late, inputs>>

Reopen(m) ==
    /\ InTurn(m) /\ Signed(m)
    /\ return' = [return EXCEPT ![m].state = "DRAFT"]
    /\ UNCHANGED <<book, stated, read, answer, accepted, claim, late, inputs>>

Next ==
    \/ YearEnds
    \/ \E m \in Months :
         \/ Prepare(m) \/ PrepareAgain(m) \/ Approve(m) \/ Reopen(m)
         \/ \E d \in Documents : Post(d, m) \/ DecideAgain(m, d) \/ \E k \in Kinds : Decide(m, d, k)
         \/ \E b \in Bills, s \in Statements : ImportFile(m, b, s)

Spec == Init /\ [][Next]_vars

-----------------------------------------------------------------------------
(* "can never feed two returns" (docs/contracts/itc-reconciliation-v1.md):   *)
(* what one return a person signed takes credit on, no other does.           *)
TakenOnce ==
    \A m, n \in Months : m # n /\ Signed(m) /\ Signed(n) =>
        \A d \in Documents : return[m].photo[d] = 0 \/ return[n].photo[d] = 0

(* Credit is given back only where it was taken: goods sent back come off a  *)
(* signed return only if their bill is on it or was claimed for an earlier   *)
(* one (itc.ts:680), and what is on a signed return is claimed for its month *)
(* and for no other, whatever was answered, filed late or prepared again.    *)
CreditFollowsClaims ==
    \A m \in Months : Signed(m) =>
        \A d \in Documents : return[m].photo[d] > 0 =>
            /\ claim[d] = m
            /\ d \in Notes => return[m].photo[BillOf[d]] > 0 \/ ClaimedBefore(BillOf[d], m)

(* Nothing is taken twice, and nothing without a claim.                      *)
CreditAddsUp == TakenOnce /\ CreditFollowsClaims
=============================================================================
