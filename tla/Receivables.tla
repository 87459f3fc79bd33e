---------------------------- MODULE Receivables ----------------------------
(***************************************************************************)
(* Money of one customer who is also a supplier (packages/receivables):    *)
(* payments and what they settle, cheques, refunds, write-offs, advances   *)
(* paid to a supplier and advances taken against a proforma; with the      *)
(* bills, notes and cancellations that change what is owed.  Every request *)
(* is one unit of work under the company's lock, so an operation is one    *)
(* step.  Amounts are small whole numbers.                                 *)
(***************************************************************************)
EXTENDS Integers, FiniteSets, FiniteSetsExt

CONSTANTS
  Sales, Purchases,
  Payments,
  None,
  Value,           \* what every bill comes to, and the most one payment does
  Kinds            \* bound: which of cheques, settlements, notes, bad debts and proformas are looked at

\* Finitely many documents, a sale is no purchase, and None marks no payment.
ReceivablesAssumption ==
  /\ IsFiniteSet(Sales) /\ IsFiniteSet(Purchases) /\ Sales \cap Purchases = {}
  /\ IsFiniteSet(Payments) /\ None \notin Payments
  /\ Value \in Nat \ {0}

VARIABLES
  bill,            \* the documents: openDocuments lists the open ones
  pay,             \* the payments
  advance,         \* the receipt voucher of money taken against the proforma
  proforma,        \* "open", or the bill it became
  party,           \* the party's account in the books: above zero, they owe us
  paidAhead,       \* "Advances paid to suppliers" in the books
  writtenOff

vars == <<bill, pay, advance, proforma, party, paidAhead, writtenOff>>

Bills == Sales \cup Purchases
Amounts == 1..Value
Nothing == [b \in Bills |-> 0]
Untouched == <<bill, advance, proforma, writtenOff>>

Payment == [dir : {"RECEIPT", "PAYMENT"}, amount : Amounts, alloc : [Bills -> 0..Value], settle : [Bills -> 0..Value],
            refundOf : Payments \cup {None}, ahead : BOOLEAN, state : {"RECORDED", "REVERSED"},
            cheque : {"none", "PENDING", "DEPOSITED", "CLEARED", "BOUNCED", "CANCELLED"}]

TypeOK ==
  /\ bill \in [Bills -> [state : {"none", "open", "closed"}, value : 0..Value]]
  /\ DOMAIN pay \subseteq Payments /\ \A p \in DOMAIN pay : pay[p] \in Payment
  /\ advance \in {None} \cup [of : DOMAIN pay, applied : -1..Value, refund : 0..Value]
  /\ proforma \in {"open"} \cup Sales
  /\ party \in Int /\ paidAhead \in Nat /\ writtenOff \in Nat

Init ==
  /\ bill = [b \in Bills |-> [state |-> "none", value |-> 0]]
  /\ pay = [p \in {} |-> Payment]
  /\ advance = None /\ proforma = "open"
  /\ party = 0 /\ paidAhead = 0 /\ writtenOff = 0

-----------------------------------------------------------------------------
(* What is owed and what is left (allocation.ts) *)

Live == {p \in DOMAIN pay : pay[p].state = "RECORDED"}
\* All a function gives, added up
Total(f) == MapThenSumSet(LAMBDA x : f[x], DOMAIN f)
On(b, payments) == Total([p \in payments |-> pay[p].alloc[b] + pay[p].settle[b]])
Owed(b, payments) == bill[b].value - On(b, payments)
Unallocated(p) == pay[p].amount - Total(pay[p].alloc)
Refunded(p) == Total([q \in {q \in Live : pay[q].refundOf = p} |-> pay[q].amount])
Side(dir) == IF dir = "RECEIPT" THEN Sales ELSE Purchases

\* validateAllocation: every part within its bill, the whole within the money
Fits(alloc, amount, dir, others) ==
  /\ \A b \in Bills : alloc[b] > 0 => b \in Side(dir) /\ bill[b].state = "open" /\ alloc[b] <= Owed(b, others)
  /\ Total(alloc) <= amount

-----------------------------------------------------------------------------
(* Documents: issued, reduced by a credit or debit note, cancelled *)

Issue(b) ==
  /\ bill[b].state = "none"
  /\ bill' = [bill EXCEPT ![b] = [state |-> "open", value |-> Value]]
  /\ party' = party + (IF b \in Sales THEN Value ELSE -Value)
  /\ UNCHANGED <<pay, advance, proforma, paidAhead, writtenOff>>

Return(b) ==
  /\ bill[b].state = "open" /\ bill[b].value > 0 /\ "notes" \in Kinds
  /\ bill' = [bill EXCEPT ![b].value = @ - 1]
  /\ party' = party - (IF b \in Sales THEN 1 ELSE -1)
  /\ UNCHANGED <<pay, advance, proforma, paidAhead, writtenOff>>

Close(b) ==
  /\ bill[b].state = "open"
  /\ bill' = [bill EXCEPT ![b] = [state |-> "closed", value |-> 0]]
  /\ party' = party - (IF b \in Sales THEN bill[b].value ELSE -bill[b].value)
  /\ UNCHANGED <<advance, proforma, paidAhead, writtenOff>>

\* Bug: the money stays on the bill that is gone.
CancelSaleAlone(b) == b \in Sales /\ bill[b].value = Value /\ Close(b) /\ UNCHANGED pay

\* Refused once a credit note exists.  The money received is taken off the
\* bill by allocating every receipt anew; what TDS or a discount settled on
\* the bill stays where it is.
CancelSale(b) ==
  LET touched == {p \in Live : pay[p].alloc[b] > 0}
  IN /\ b \in Sales /\ bill[b].value = Value
     /\ \A p \in touched :
          /\ \A c \in Bills \ {b} : pay[p].alloc[c] > 0 => bill[c].state = "open" /\ pay[p].alloc[c] <= Owed(c, Live \ {p})
          /\ Total(pay[p].alloc) - pay[p].alloc[b] <= pay[p].amount - Refunded(p)
     /\ Close(b)
     /\ pay' = [p \in DOMAIN pay |-> IF p \in touched THEN [pay[p] EXCEPT !.alloc[b] = 0] ELSE pay[p]]

\* A purchase that is undone: what was paid for it stays on the payment.
ReversePurchase(b) == b \in Purchases /\ Close(b) /\ UNCHANGED pay

-----------------------------------------------------------------------------
(* Payments (ReceivablesService) *)

New(p, r) == pay' = [q \in DOMAIN pay \cup {p} |-> IF q = p THEN r ELSE pay[q]]

Receipt(p, n, alloc, settle, cheque) ==
  /\ p \notin DOMAIN pay
  /\ Fits(alloc, n, "RECEIPT", Live)
  /\ \A b \in Bills : settle[b] > 0 => b \in Sales /\ bill[b].state = "open" /\ alloc[b] + settle[b] <= Owed(b, Live)
  /\ New(p, [dir |-> "RECEIPT", amount |-> n, alloc |-> alloc, settle |-> settle, refundOf |-> None, ahead |-> FALSE,
             state |-> "RECORDED", cheque |-> cheque])
  /\ party' = party - n - Total(settle)

RecordReceipt(p, n, alloc, settle, cheque) ==
  Receipt(p, n, alloc, settle, cheque) /\ UNCHANGED <<Untouched, paidAhead>>

\* What no bill takes is an advance, and only when a person says so.
RecordPayment(p, n, alloc) ==
  LET against == Total(alloc)
  IN /\ p \notin DOMAIN pay
     /\ Fits(alloc, n, "PAYMENT", Live)
     /\ New(p, [dir |-> "PAYMENT", amount |-> n, alloc |-> alloc, settle |-> Nothing, refundOf |-> None,
                ahead |-> against < n, state |-> "RECORDED", cheque |-> "none"])
     /\ party' = party + against
     /\ paidAhead' = paidAhead + (n - against)
     /\ UNCHANGED Untouched

\* Bug: what was paid back before is forgotten.
RefundMore(p, q, n) ==
  /\ p \notin DOMAIN pay /\ q \in Live
  /\ pay[q].dir = "RECEIPT" /\ n <= Unallocated(q)
  /\ New(p, [dir |-> "PAYMENT", amount |-> n, alloc |-> Nothing, settle |-> Nothing, refundOf |-> q, ahead |-> FALSE,
             state |-> "RECORDED", cheque |-> "none"])
  /\ party' = party + n

Refund(p, q, n) ==
  /\ p \notin DOMAIN pay /\ q \in Live
  /\ pay[q].dir = "RECEIPT" /\ n <= Unallocated(q) - Refunded(q)
  /\ New(p, [dir |-> "PAYMENT", amount |-> n, alloc |-> Nothing, settle |-> Nothing, refundOf |-> q, ahead |-> FALSE,
             state |-> "RECORDED", cheque |-> "none"])
  /\ party' = party + n

RefundReceipt(p, q, n) == Refund(p, q, n) /\ UNCHANGED <<Untouched, paidAhead>>

\* A payment's bills are chosen anew; the database counts what TDS and
\* discounts settled on them too, but against the bill as it was issued.
Allocate(p, alloc) ==
  LET others == Live \ {p}
  IN /\ p \in Live /\ ~pay[p].ahead /\ alloc # pay[p].alloc
     /\ Fits(alloc, pay[p].amount - Refunded(p), pay[p].dir, others)
     /\ \A b \in Sales : alloc[b] > 0 => alloc[b] + pay[p].settle[b] + On(b, others) <= Value
     /\ pay' = [pay EXCEPT ![p].alloc = alloc]
     /\ UNCHANGED <<Untouched, party, paidAhead>>

\* Undone, by hand or because the bank sent the cheque back: it settles nothing.
Undo(p, cheque) ==
  /\ p \in Live /\ ~(pay[p].ahead /\ Total(pay[p].alloc) > 0)
  /\ pay' = [pay EXCEPT ![p].state = "REVERSED", ![p].alloc = Nothing, ![p].settle = Nothing, ![p].cheque = cheque]
  /\ party' = party + (IF pay[p].dir = "RECEIPT" THEN pay[p].amount + Total(pay[p].settle)
                       ELSE IF pay[p].ahead THEN 0 ELSE -pay[p].amount)
  /\ paidAhead' = paidAhead - (IF pay[p].ahead THEN pay[p].amount ELSE 0)
  /\ UNCHANGED Untouched

ReversePayment(p) == p \in Live /\ Undo(p, pay[p].cheque)

\* A cheque's life; nothing asks whether its payment still stands.
ChequeMoves == [PENDING |-> {"DEPOSITED", "BOUNCED", "CANCELLED"}, DEPOSITED |-> {"CLEARED", "BOUNCED"}]

ChequeEvent(p, to) ==
  /\ p \in DOMAIN pay /\ pay[p].cheque \in DOMAIN ChequeMoves
  /\ to \in ChequeMoves[pay[p].cheque]
  /\ IF to = "BOUNCED"
     THEN Undo(p, to)
     ELSE pay' = [pay EXCEPT ![p].cheque = to] /\ UNCHANGED <<Untouched, party, paidAhead>>

\* Bad debt, within what the party owes in all: no bill is marked for it.
WriteOff(n) ==
  /\ n <= Total([b \in {b \in Bills : bill[b].state = "open"} |-> Owed(b, Live)])
  /\ "bad debts" \in Kinds /\ writtenOff + n <= 1            \* bound
  /\ writtenOff' = writtenOff + n
  /\ party' = party - n
  /\ UNCHANGED <<bill, pay, advance, proforma, paidAhead>>

\* Bug: the entry is made, and the advance is not marked as used.
UseAdvanceUnmarked(b, n, takes) ==
  /\ b \in Purchases /\ bill[b].state = "open"
  /\ party' = party + n /\ paidAhead' = paidAhead - n
  /\ UNCHANGED <<Untouched, pay>>

\* A supplier's advances against one bill, one after the other, as far as they
\* go; once for each bill.
UseAdvance(b, n, takes) ==
  LET ahead == {p \in Live : pay[p].ahead}
      wanted == Min({n, Owed(b, Live)})
      free == Total([p \in ahead |-> Unallocated(p)])
      taken == Total([p \in ahead |-> takes[p]])
  IN /\ b \in Purchases /\ bill[b].state = "open"
     /\ \A p \in ahead : pay[p].alloc[b] = 0 /\ takes[p] <= Unallocated(p)
     /\ wanted > 0 /\ taken = Min({wanted, free}) /\ taken > 0
     /\ Cardinality({p \in ahead : 0 < takes[p] /\ takes[p] < Unallocated(p)}) <= 1
     /\ \A p \in DOMAIN pay \ ahead : takes[p] = 0
     /\ pay' = [p \in DOMAIN pay |-> IF p \in ahead THEN [pay[p] EXCEPT !.alloc[b] = @ + takes[p]] ELSE pay[p]]
     /\ party' = party + taken
     /\ paidAhead' = paidAhead - taken
     /\ UNCHANGED Untouched

-----------------------------------------------------------------------------
(* Money taken against a proforma (AdvanceService); bound: one of them *)

ReceiveAdvance(p, n) ==
  /\ advance = None /\ proforma = "open" /\ "proformas" \in Kinds
  /\ Receipt(p, n, Nothing, Nothing, "none")
  /\ advance' = [of |-> p, applied |-> -1, refund |-> 0]
  /\ UNCHANGED <<bill, proforma, paidAhead, writtenOff>>

\* The proforma becomes a bill, which takes no more of the advance than it
\* owes.  An advance that was undone or paid back is passed over.
Link(b) ==
  LET p == advance.of
      applied == Min({Max({Owed(b, Live), 0}), Unallocated(p)})
  IN /\ b \in Sales /\ bill[b].state = "open" /\ proforma = "open" /\ "proformas" \in Kinds
     /\ proforma' = b
     /\ IF advance # None /\ (advance # None => advance.refund = 0 /\ p \in Live)
        THEN /\ applied + Total(pay[p].alloc) <= pay[p].amount - Refunded(p)
             /\ advance' = [advance EXCEPT !.applied = IF pay[p].alloc[b] > 0 THEN pay[p].alloc[b] ELSE applied]
             /\ pay' = IF pay[p].alloc[b] > 0 THEN pay ELSE [pay EXCEPT ![p].alloc[b] = applied]
        ELSE UNCHANGED <<advance, pay>>
     /\ UNCHANGED <<bill, party, paidAhead, writtenOff>>

RefundAdvance(q) ==
  LET unused == pay[advance.of].amount - Max({advance.applied, 0})
  IN /\ advance # None
     /\ advance.refund = 0 /\ unused > 0
     /\ ~(proforma # "open" /\ advance.applied = -1)
     /\ Refund(q, advance.of, unused)
     /\ advance' = [advance EXCEPT !.refund = unused]
     /\ UNCHANGED <<bill, proforma, paidAhead, writtenOff>>

Splits(bills) == {f \in [Bills -> 0..Value] : (\A b \in Bills \ bills : f[b] = 0) /\ Total(f) <= Value}

Next ==
  \/ \E b \in Bills : Issue(b) \/ Return(b) \/ CancelSale(b) \/ ReversePurchase(b) \/ Link(b)
  \/ \E p \in Payments \ DOMAIN pay, n \in Amounts :
       \/ \E alloc \in Splits(Sales), settle \in Splits(IF "settlements" \in Kinds THEN Sales ELSE {}),
             cheque \in IF "cheques" \in Kinds THEN {"none", "PENDING"} ELSE {"none"} :
            RecordReceipt(p, n, alloc, settle, cheque)
       \/ \E alloc \in Splits(Purchases) : RecordPayment(p, n, alloc)
       \/ \E q \in DOMAIN pay : RefundReceipt(p, q, n)
       \/ ReceiveAdvance(p, n)
  \/ \E p \in Payments \ DOMAIN pay : RefundAdvance(p)
  \/ \E p \in DOMAIN pay :
       \/ \E alloc \in Splits(Side(pay[p].dir)) : Allocate(p, alloc)
       \/ ReversePayment(p)
       \/ \E to \in {"DEPOSITED", "CLEARED", "BOUNCED", "CANCELLED"} : ChequeEvent(p, to)
  \/ \E n \in Amounts : WriteOff(n)
  \/ \E b \in Purchases, n \in Amounts, takes \in [DOMAIN pay -> 0..Value] : UseAdvance(b, n, takes)

Spec == Init /\ [][Next]_vars

-----------------------------------------------------------------------------
Open == {b \in Bills : bill[b].state = "open"}

(* onAccountOf and advancesPaidOf *)
OnAccount ==
  Total([p \in {p \in Live : pay[p].dir = "RECEIPT"} |-> Unallocated(p)])
  - Total([p \in {p \in Live : pay[p].refundOf # None} |-> pay[p].amount])
AdvancesPaid == Total([p \in {p \in Live : pay[p].ahead} |-> Unallocated(p)])

(* What the screens do not show: bad debts, what was settled on bills that   *)
(* are gone, money paid out that a later choice left on no bill, and money   *)
(* paid back that a later choice put on a bill too.                          *)
UnseenOf(r) ==
  LET on(f, bills) == Total([b \in bills |-> f[b]])
      gone == on(r.alloc, Bills \ Open)
  IN CASE r.dir = "RECEIPT" -> gone + on(r.settle, Bills \ Open)
       [] r.refundOf # None -> on(r.alloc, Open)
       [] OTHER -> -(gone + (IF r.ahead THEN 0 ELSE r.amount - Total(r.alloc)))
Unseen == writtenOff + Total([p \in Live |-> UnseenOf(pay[p])])

(* The books and the screens say the same (service.ts:144, allocation.ts:18):*)
(* the party's account is what the open bills still owe, less the money on   *)
(* account, but for what no screen shows; the advances account is the unused *)
(* advances; and a cancelled bill holds no customer's money.                 *)
BooksAgree ==
  /\ party = Total([b \in Open \cap Sales |-> Owed(b, Live)]) - Total([b \in Open \cap Purchases |-> Owed(b, Live)])
             - OnAccount - Unseen
  /\ paidAhead = AdvancesPaid
  /\ \A p \in Live, b \in Sales \ Open : pay[p].alloc[b] = 0

(* "What bills took of a receipt and what was paid back out of it never come *)
(* to more than it" (receivables/migrations.ts:433), whether bills were      *)
(* chosen anew, cancelled, or an advance applied and paid back in between.   *)
SpentOnce ==
  /\ \A p \in Live : Total(pay[p].alloc) + Refunded(p) <= pay[p].amount
  /\ advance # None => Max({advance.applied, 0}) + advance.refund <= pay[advance.of].amount
=============================================================================
