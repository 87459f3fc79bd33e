----------------------------- MODULE MCInventory -----------------------------
(* Small instances of what one request after another does to a shop: its     *)
(* goods (Inventory), and beside them how it buys them (Purchasing), how it  *)
(* brings them in from another program (Migration), and its chasing of       *)
(* customers for money, by its people and jobs (Collections) and by the      *)
(* assistant they approve (ActionAgent).  Which a behaviour looks at is      *)
(* chosen at the start.                                                      *)
EXTENDS Inventory, TLC

CONSTANTS Cases, None,
          Purchases, Number, Billed, Dear, Ordered, Arrivals, MaxSold, MaxApprovals, \* of Purchasing
          Chased, MaxDay, MaxRollbacks,                                            \* of Collections: whom to chase, by case
          Plans, RunKeys, MaxOwed, MaxChanges,                                     \* of ActionAgent
          Files, Kind, RowsOf, Already, Callers, MaxBatches, MaxVersions, MaxFails \* of Migration

VARIABLES case, day, owed, disputed, promised, optedOut, reminder, note, received, rollbacks,
          due, maySend, plan, command, prepared, report, ran, agreed, changes,
          order, delivery, bill, onHand, sold, approvals,
          batches, brought, names, soldOn, callers, disturbed, failed, fails

chase == <<day, owed, disputed, promised, optedOut, reminder, note, received>>
assistant == <<due, maySend, plan, command, prepared, report, ran, agreed, changes>>
purchases == <<order, delivery, bill, onHand, sold, approvals>>
imports == <<batches, brought, names, soldOn, callers, disturbed, failed, fails>>

In(k, g, n, c, d) == [key |-> k, godown |-> g, qty |-> n, cost |-> c, date |-> d]
Out(k, g, n, d) == [key |-> k, godown |-> g, qty |-> n, date |-> d]
Line(g, n) == [godown |-> g, qty |-> n]

\* Two receipts at different prices, the second dated first; a count that may take
\* goods a bill holds; one transfer; a bill of two lines for one godown and a
\* bill that takes from both.
Receipts == {In("r1", "shop", 3, 5, 2), In("r2", "shop", 1, 2, 1)}
Losses == {Out("l1", "shop", 1, 1)}
Carried == {[key |-> "t1", from |-> "shop", to |-> "store", qty |-> 1, date |-> 1]}
Bills == ("d1" :> <<Line("shop", 1), Line("shop", 1)>>) @@ ("d2" :> <<Line("store", 1), Line("shop", 1)>>)

\* Room for both receipts, and for both bills to leave and come back.
MaxMoves == 10

\* A customer with one bill on a ladder of two rungs, with payments, disputes,
\* promises and an opt-out; one with two bills of different age on a ladder of
\* one; and one with no bill.
Policy == [grace |-> 0, minimum |-> 1, large |-> 1]
OneBill == Policy @@ [bills |-> {"b1"}, billed |-> [b1 |-> 2], dueOn |-> [b1 |-> 0], ladder |-> <<0, 1>>, gap |-> 1, held |-> 1]
TwoBills == Policy @@ [bills |-> {"b1", "b2"}, billed |-> [b1 |-> 1, b2 |-> 2], dueOn |-> [b1 |-> 0, b2 |-> 1],
                       ladder |-> <<0>>, gap |-> 2, held |-> 0]
Debtors == ("one bill" :> OneBill) @@ ("two bills" :> TwoBills)
NoBill == Policy @@ [bills |-> {}, billed |-> <<>>, dueOn |-> <<>>, ladder |-> <<>>, gap |-> 0, held |-> 0]

Chase(d) == INSTANCE Collections WITH Bills <- d.bills, Billed <- d.billed, DueOn <- d.dueOn, Offset <- d.ladder,
              MinGap <- d.gap, MaxHeld <- d.held, Grace <- d.grace, Minimum <- d.minimum, Large <- d.large

\* Two plans for reminders to two customers, each run under two keys.
Agent == INSTANCE ActionAgent WITH Customers <- Documents, Keys <- RunKeys

\* An order of two for which one or two of two come at a time; two bills with one
\* number, of which one asks for more and at a higher price.  With goods that are
\* sold and bills recorded; and with a comparison that is accepted instead.
Arrival(n) == [received |-> 2, accepted |-> n]
Some == {Arrival(1), Arrival(2)}
OneNumber == [p \in Purchases |-> "n1"]
Asks == [p \in Purchases |-> IF p = "p1" THEN 2 ELSE 3]
Overcharges == [p \in Purchases |-> p # "p1"]
Buying == INSTANCE Purchasing WITH Deliveries <- Documents

\* None is no delivery, nor the record of one; quantities are whole, and an order is for something.
ASSUME PurchasingAssumption ==
  /\ IsFiniteSet(Documents) /\ IsFiniteSet(Purchases) /\ Billed \in [Purchases -> Nat] /\ Ordered \in Nat \ {0}
  /\ Arrivals \subseteq [received : Nat, accepted : Nat]
  /\ None \notin Documents /\ None \notin Buying!Receipts

\* Files of another program: two lists of customers that share a name, one of whom
\* the business has already; counts of two goods; a trial balance.  Both of two
\* imports are of one kind: names, goods and balances do not meet.
Sheets ==
  [customers |-> <<"asha", "ravi">>, dealers |-> <<"ravi", "mira">>, counts |-> <<"rice", "oats">>, balances |-> <<"all">>]
FileNames == DOMAIN Sheets
Kinds == [customers |-> "names", dealers |-> "names", counts |-> "stock", balances |-> "balances"]
Import == INSTANCE Migration WITH sold <- soldOn
WithinKind == \A m, n \in DOMAIN batches : Import!KindOf(m) = Import!KindOf(n)

\* A file is of one kind, and its rows are in order.  And a key names one transfer.
ASSUME MigrationAssumption ==
  /\ Kind \in [Files -> {"names", "stock", "balances"}]
  /\ \A f \in Files : DOMAIN RowsOf[f] \subseteq Nat
  /\ MaxBatches \in Nat
ASSUME TransfersAssumption == \A t, u \in Transfers : t.key = u.key => t = u

\* Whoever is chased has finitely many bills, each due on some day, and a ladder of
\* days.  And None is no state of a notification or a command, nor a report.
Chaseable(d) ==
  /\ IsFiniteSet(d.bills) /\ d.dueOn \in [d.bills -> Int]
  /\ d.ladder \in Seq(Int) /\ d.gap \in Nat
ASSUME ChasingAssumption == None # "delivered" /\ "assistant" \notin DOMAIN Chased /\ \A c \in DOMAIN Chased : Chaseable(Chased[c])
ASSUME AgentAssumption ==
  /\ MaxOwed \in Nat /\ None \notin Agent!Statuses
  /\ \A l \in SUBSET Agent!Steps : None \notin [l -> Agent!Outcomes]

MCInit ==
  /\ case \in Cases
  /\ Init /\ Buying!Init /\ Import!Init
  /\ IF case \in DOMAIN Chased THEN \E d \in DOMAIN Chased : d = case /\ Chase(Chased[d])!Init ELSE Chase(NoBill)!Init
  /\ Agent!Init /\ (case = "assistant" \/ \A d \in Documents : due[d] = 0)
MCNext ==
  /\ case' = case
  /\ \/ case = "goods" /\ Next /\ Len(moves') <= MaxMoves /\ UNCHANGED <<chase, assistant, rollbacks, purchases, imports>>
     \/ \E d \in DOMAIN Chased : d = case /\ Chase(Chased[d])!Next /\ UNCHANGED <<vars, assistant, purchases, imports>>
     \/ case = "assistant" /\ Agent!Next /\ UNCHANGED <<vars, chase, purchases, imports>>
     \/ case = "bought" /\ Buying!Next /\ approvals' = {} /\ UNCHANGED <<vars, chase, assistant, rollbacks, imports>>
     \/ case = "compared" /\ Buying!Next /\ (bill' = bill /\ sold' = sold) /\ UNCHANGED <<vars, chase, assistant, rollbacks, imports>>
     \/ case = "moving" /\ Import!Next /\ WithinKind' /\ UNCHANGED <<vars, chase, assistant, rollbacks, purchases>>
MCSpec == MCInit /\ [][MCNext]_<<vars, chase, assistant, rollbacks, purchases, imports, case>>

\* Movements, holds, reminders, notifications and plans are well formed.
TypesOK ==
  CASE case = "goods" -> TypeOK
    [] case = "moving" -> Import!TypeOK
    [] case = "assistant" -> Agent!TypeOK
    [] case \in {"bought", "compared"} -> Buying!TypeOK
    [] OTHER -> \A d \in DOMAIN Chased : d = case => Chase(Chased[d])!TypeOK

\* The entries in the books add up to what the stock report works out, in whatever
\* order goods are dated; goods that leave for a bill come back at most once, and
\* goods that leave for another godown arrive there, whatever is cut short
\* (balances.ts:113-139, service.ts:516-608).  And what comes from another program
\* stands whole or is taken out whole, and touches nothing that others brought in
\* (migration/src/service.ts:393, 488, duplicates.ts:12).
StockAddsUp ==
  /\ BooksMatchReport /\ MovementsPair
  /\ Import!OthersUntouched /\ Import!TakenOutWhole /\ Import!StandsWhole

\* Where bills name the delivery that brought their goods, what is bought comes in
\* once; the order shows what has arrived, backwards too; and what a person accepted
\* clears a bill with the differences that person saw
\* (posting-service.ts:199, matching-service.ts:518-539).
PurchasesAddUp == Buying!GoodsComeInOnce /\ Buying!OrderShowsArrivals /\ Buying!AcceptedAsSeen

\* A customer hears of a bill's rung once, a reminder shown as sent did reach
\* somebody, and the messages shown as sent are never closer than the gap
\* (collections/service.ts:376, adapters.ts:103, plan.ts:206); and the assistant
\* chases nobody but those a person saw on the list and agreed to, for that
\* amount, once (action-agent/service.ts:273-329).
CustomersAreSpared ==
  /\ Agent!OnlyWhatWasAgreed /\ Agent!CarriedOutOnce
  /\ \A d \in DOMAIN Chased : d = case =>
       Chase(Chased[d])!OncePerRung /\ Chase(Chased[d])!SentIsReceived /\ Chase(Chased[d])!NeverTooSoon
=============================================================================
