------------------------------ MODULE MCLedger ------------------------------
(* Small instances of Ledger: one caller at a time over two months with     *)
(* every kind of entry, and two callers at once, one of which may die, over *)
(* one month with fewer kinds; and beside it of Receivables, Returns, the    *)
(* connection to a bank and the matching of its lines with the books.  Which *)
(* instance a behaviour looks at is chosen at the start.                     *)
EXTENDS Ledger, TLC

CONSTANTS Month, \* the one month of the second case
          Cases,  \* the cases a run looks at
      OneSale, OnePurchase, Later, None,
      Price,                        \* what a bill comes to
      Statement, Receipts,          \* at the bank and in the books: lines, and receipts recorded by hand
      Amount, Reference,            \* of each
      MaxLines, MaxLost, MaxMatches \* bounds: of BankFeed, and of BankMatch

VARIABLES case, bill, pay, advance, proforma, party, paidAhead, writtenOff, issued, note, asked,
          link, cursor, results, bank, call, lost, arrived, book, offered, matches, reading

money == <<bill, pay, advance, proforma, party, paidAhead, writtenOff>>
notes == <<issued, note, asked>>
feed == <<link, cursor, results, bank, call, lost>>
matching == <<arrived, book, offered, matches, reading>>

Line(a, d, c) == [account |-> a, debit |-> d, credit |-> c]

\* A sale, a payment with a split credit, and two that are refused.
Sale == <<Line("customer", 2, 0), Line("sales", 0, 2)>>
Split == <<Line("cash", 3, 0), Line("customer", 0, 2), Line("sales", 0, 1)>>
Unbalanced == <<Line("cash", 2, 0), Line("sales", 0, 1)>>
ToHeading == <<Line("assets", 1, 0), Line("sales", 0, 1)>>

AllEntries == {Sale, Split, Unbalanced, ToHeading}
TakePostings == {"customer", "sales", "cash"}

\* Only one month is ever closed; alone, the other may be posted to.
Within ==
  \/ /\ case = "alone" /\ crashes = 0
     /\ \A m \in Months \ {Month} : period[m] \in {"NONE", "OPEN"}
     /\ \A c, d \in Callers : c # d => Free(c) \/ Free(d)
     /\ \A c \in Callers : task[c].kind = "period" => task[c].month = Month
     /\ \A c \in Callers : task[c].kind = "amend" => task[c].lines # Unbalanced
  \/ /\ case = "together"
     /\ \A m \in Months \ {Month} : period[m] = "NONE"
     /\ \A c \in Callers : task[c].kind = "period" => task[c].month = Month
     /\ \A c \in Callers : task[c].kind = "amend" => task[c].lines \in {Sale, ToHeading}
     /\ \A i \in Ids : books[i].lines \in {Sale, Mirror(Sale)}

\* Money of one sale and one purchase, with cheques, notes and bad debts; of
\* two sales, with what settles them otherwise and a proforma; and three payments.
Both == INSTANCE ReceivablesProofs WITH Sales <- OneSale, Purchases <- OnePurchase, Payments <- Callers, Value <- Price,
          Kinds <- {"cheques", "notes", "bad debts"}
Customer == INSTANCE ReceivablesProofs WITH Sales <- Keys, Purchases <- {}, Payments <- Callers, Value <- Price,
              Kinds <- {"settlements", "notes", "proformas"}
Three == INSTANCE ReceivablesProofs WITH Sales <- OneSale, Purchases <- OnePurchase, Payments <- Callers \cup Later, Value <- Price,
           Kinds <- {}
ASSUME MoneyAssumption == Both!ReceivablesAssumption /\ Customer!ReceivablesAssumption /\ Three!ReceivablesAssumption

\* Three notes on a bill of three pieces and freight, whose shares do not divide.
Notes == INSTANCE Returns WITH bill <- issued, Lines <- {"soap", "freight"}, Charges <- {"freight"}, Keys <- Keys \cup Later,
           Sold <- ("soap" :> 3 @@ "freight" :> 1), Value <- ("soap" :> 20 @@ "freight" :> 1),
           Tax <- ("soap" :> 2 @@ "freight" :> 0), Amounts <- {0, 1, 2, 9}

\* Keys are alike, so the third is taken when the others are.
Taken(k) == note[k] # None \/ \E c \in Callers : asked[c] # None /\ asked[c].key = k
LaterLast == (\E l \in Later : Taken(l)) => \A k \in Keys : Taken(k)

\* A bank with two lines, two syncs at once under two keys, one call that fails.
Feed == INSTANCE BankFeed
\* Two lines of one amount, only one with a reference, and a receipt of both.
Matching == INSTANCE BankMatch WITH Callers <- {"run"}, Lines <- Statement
TheAmounts == "first" :> 250 @@ "second" :> 250 @@ "both" :> 500
TheReferences == "first" :> "ref" @@ "second" :> None @@ "both" :> None

\* None marks no sync's lines; and there are finitely many to match.
ASSUME BankAssumption ==
  /\ MaxLines \in Nat /\ \A page \in SUBSET (1..MaxLines) : page # None
  /\ IsFiniteSet(Statement) /\ IsFiniteSet(Receipts)

MCInit ==
  /\ case \in Cases
  /\ Init /\ Notes!Init /\ Feed!Init /\ Matching!Init
  /\ IF case = "customer" THEN Customer!Init ELSE Both!Init
MCNext ==
  /\ case' = case
  /\ \/ case \in {"alone", "together"} /\ Next /\ Within' /\ UNCHANGED <<money, notes, feed, matching>>
     \/ case = "both" /\ Both!Next /\ UNCHANGED <<vars, notes, feed, matching>>
     \/ case = "customer" /\ Customer!Next /\ UNCHANGED <<vars, notes, feed, matching>>
     \/ case = "three" /\ Three!Next /\ UNCHANGED <<vars, notes, feed, matching>>
     \/ case = "notes" /\ Notes!Next /\ LaterLast' /\ UNCHANGED <<vars, money, feed, matching>>
     \/ case = "feed" /\ Feed!Next /\ UNCHANGED <<vars, money, notes, matching>>
     \/ case = "matching" /\ Matching!Next /\ UNCHANGED <<vars, money, notes, feed>>
MCSpec == MCInit /\ [][MCNext]_<<vars, money, notes, feed, matching, case>>

\* A month that is closed for good takes no entry, by any path, whatever runs
\* beside it; and while one caller is served at a time, as the API's unit of
\* work per request does it (durable.ts:92), it is never reopened (setPeriodState).
ClosedMonthsStayClosed ==
  [][/\ NothingInClosedMonths
     /\ case = "alone" => \A m \in Months : period[m] = "HARD_LOCKED" => period'[m] = "HARD_LOCKED"]_vars

\* And what was entered in it keeps its amounts, month and number; what a sync
\* brought in stays, a connection that ended stays ended (bank-feeds/service.ts:189),
\* and what a person undid no run matches again (bank-reconciliation/service.ts:28).
HistoryStands == ClosedMonthsStayClosed /\ EntriesAreKept /\ Feed!FeedStands /\ Matching!UndoneStays

\* Entries, months, documents, payments and bank lines are well formed.
TypesOK ==
  CASE case \in {"alone", "together"} -> TypeOK
    [] case = "customer" -> Customer!TypeOK
    [] case \in {"both", "three"} -> Three!TypeOK
    [] case = "notes" -> Notes!TypeOK
    [] case = "feed" -> Feed!TypeOK
    [] case = "matching" -> Matching!TypeOK

\* The books and the screens say the same of what is owed, on account and paid
\* ahead (receivables/service.ts:144, allocation.ts:18); and what came from the
\* bank is complete as far as its cursor says (bank-feeds-v1.md:19).
BooksAgree ==
  /\ case = "both" => Both!BooksAgree
  /\ case = "customer" => Customer!BooksAgree
  /\ case = "three" => Three!BooksAgree
  /\ case = "feed" => Feed!LinesComeOnce

\* No rupee received is spent twice (receivables/migrations.ts:433), and no line
\* of the bank or receipt is matched twice (bank-reconciliation-v1.md:17).
SpentOnce ==
  /\ case = "both" => Both!SpentOnce
  /\ case = "customer" => Customer!SpentOnce
  /\ case = "three" => Three!SpentOnce
  /\ case = "matching" => Matching!MatchedOnce

\* What comes back and what is corrected never outgrow the bill
\* (returns/service.ts:261, 672, 684).
CreditsFitTheBill == case = "notes" => Notes!CreditsFitTheBill

Symmetry == Permutations(Callers) \cup Permutations(Keys)
=============================================================================
