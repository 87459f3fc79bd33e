------------------------------ MODULE MCSales ------------------------------
(* Small instances of Sales and, beside it, of the line on which bills go to *)
(* the government (Gsp), of goods that leave before their bill (Challans)    *)
(* of the permit they travel on (EwayBill) and of the credit on what was     *)
(* bought (Credit), one chosen at the start: requests with nothing but the   *)
(* store's transactions between them ("tills", and "count" where a stock     *)
(* count may find goods missing), requests each in the one unit of work the  *)
(* API puts around them ("requests"), the line ("line"), the challans        *)
(* ("challans"), the permit ("road"), the credit ("credit").                 *)
EXTENDS Sales, TLC

CONSTANTS Cases,       \* the cases a run looks at
          MaxRequested, \* bound: MaxVersion of the third case
          None, Attempts, Events, MaxFailures, MaxSteps,
          Validity, CancelWindow, RejectWindow, Around, MaxNow, MaxLosses, MaxKeys, \* of EwayBill
          Purchases, SentBack, BillOf, Tax, Months, LastReturn, Orderly, MaxInputs  \* of Credit: bills, and goods of them sent back

VARIABLES case, auth, row, making, gov, stray, event, stored, known, delivery, asked, failures, steps,
          challan, sale, onHand, kept, lost, permit, portal, said, now, drift, losses,
          book, stated, read, answer, accepted, claim, return, late, inputs

challans == <<challan, sale, onHand, kept, lost>>
road == <<permit, portal, said, now, drift, losses>>
credit == <<book, stated, read, answer, accepted, claim, return, late, inputs>>
line == <<auth, row, making, gov, stray, event, stored, known, delivery, asked, failures, steps>>

Says(qty, big, ok) == [qty |-> qty, big |-> big, ok |-> ok]

\* A small bill, one above the limit, and one the calculator cannot price yet
Small == Says(1, FALSE, TRUE)
Large == Says(2, TRUE, TRUE)
Unpriceable == Says(1, FALSE, FALSE)
All == {Small, Large, Unpriceable}

InOneUnit == INSTANCE Sales WITH OneAction <- TRUE, MaxVersion <- MaxRequested

Only(contents) == \A b \in Bills : bills[b].says \in contents \cup {Nothing}

\* Of the bills that two tills work on, one is written at most twice.
OneShort == \E b \in Bills : bills[b].version <= 2

\* The references are as interchangeable as bills, the deliveries as callers.
Line == INSTANCE Gsp WITH Calls <- Attempts, References <- Bills, Deliveries <- Callers

\* So are the challans.
Desk == INSTANCE Challans WITH Challans <- Callers, Stock <- 3, MaxLost <- 1, bill <- sale, held <- kept

\* And the vehicles.
Road == INSTANCE EwayBill WITH Vehicles <- Callers, record <- permit

\* One bill and goods of it sent back, over two months worked in turn; MCCredit has them
\* worked as the code lets them be.
Claims == INSTANCE Credit WITH Bills <- Purchases, Notes <- SentBack
TheBill == [n \in {"note"} |-> "bill"]
TheTax == [d \in {"bill", "note"} |-> IF d = "bill" THEN 2 ELSE 1]

\* None is no reference, vehicle, permit, tick, month or answer, nor a challan or a bill; challans are
\* finitely many; what is sent back was bought, and a bill that the government says less of is still
\* worth some credit.
ASSUME GovernmentAssumption ==
  /\ MaxNow \in Nat /\ Validity \in Nat /\ None \notin Bills \cup Callers \cup Road!Ticks \cup Road!Permits
  /\ IsFiniteSet(Callers) /\ None \notin Desk!Papers \cup Desk!Sales
  /\ Months \subseteq Int /\ IsFiniteSet(Months) /\ None \notin Months \cup Claims!Answers
  /\ Purchases \cap SentBack = {} /\ BillOf \in [SentBack -> Purchases]
  /\ Tax \in [Purchases \cup SentBack -> Nat \ {0}] /\ \A b \in Purchases : Tax[b] >= 2

MCInit == case \in Cases /\ Init /\ Line!Init /\ Desk!Init /\ Road!Init /\ Claims!Init
MCNext ==
  /\ case' = case
  /\ \/ case = "tills" /\ Next /\ (Only({Small, Large}) /\ missing = 0 /\ OneShort)' /\ UNCHANGED <<line, challans, road, credit>>
     \/ case = "count" /\ Next /\ (Only({Small}) /\ crashes = 0)' /\ UNCHANGED <<line, challans, road, credit>>
     \/ case = "requests" /\ InOneUnit!Next /\ UNCHANGED <<line, challans, road, credit>>
     \/ case = "line" /\ Line!Next /\ UNCHANGED <<vars, challans, road, credit>>
     \/ case = "challans" /\ Desk!Next /\ UNCHANGED <<vars, line, road, credit>>
     \/ case = "road" /\ Road!Next /\ UNCHANGED <<vars, line, challans, credit>>
     \/ case = "credit" /\ Claims!Next /\ UNCHANGED <<vars, line, challans, road>>
MCSpec == MCInit /\ [][MCNext]_<<vars, case, line, challans, road, credit>>

\* With each request in a unit of work of its own (asOneAction, durable.ts:92):
\* an issued bill's goods, all of them and no more, have left the godown, and
\* between requests only a bill that waits for approval holds goods; and goods that
\* left on a challan are kept off sale until their bill, which is on record, takes
\* them (challan-application.ts:226, 359-362).
RequestsMoveGoods ==
  /\ case = "requests" => IssuedGoodsLeft /\ OnlyWaitingBillsHold
  /\ Desk!OutIsKept /\ Desk!BilledIsOnRecord

\* So do bills waiting for approval stay until someone decides (discardDraft).
RequestsKeepWaiting == [][case = "requests" => \A b \in Bills : bills[b].state = "PENDING_APPROVAL" => Exists(b)']_vars

\* What was issued stays issued, word for word, what waits keeps waiting, and
\* an answer we hold is not replaced by a later message (webhooks.ts:24).
WhatIsSettledStays == IssuedStays /\ RequestsKeepWaiting /\ Line!AnswersStand

\* Bills, requests, the permission, the calls and the challans are well formed.
TypesOK == TypeOK /\ Line!TypeOK /\ Desk!TypeOK /\ Road!TypeOK /\ Claims!TypeOK

\* An answer that disagrees with one we hold is in front of a person (webhooks.ts:26),
\* no permit is shown that is more than the portal gave (transport/service.ts:5-13),
\* and, where months are worked in turn and what is approved is what was prepared,
\* credit is taken in one return and given back only if taken (itc.ts:680,
\* docs/contracts/itc-reconciliation-v1.md:158-162).
GovernmentIsFollowed ==
  /\ Line!DisagreementsAreAsked /\ Road!PermitsAreReal
  /\ case = "credit" => Claims!CreditAddsUp

Symmetry == Permutations(Callers) \cup Permutations(Bills)
=============================================================================
