------------------------- MODULE ReceivablesProofs -------------------------
(***************************************************************************)
(* No money is spent twice, and the books say what the screens say: for    *)
(* any number of bills and payments and bills of any value.                *)
(***************************************************************************)
EXTENDS Receivables, Sums

-----------------------------------------------------------------------------
(* What payments come to, as sums over all that could be made *)

Standing(py) == {q \in DOMAIN py : py[q].state = "RECORDED"}

\* What was paid back of p
Back(py, p) == [q \in Payments |-> IF q \in Standing(py) /\ py[q].refundOf = p THEN py[q].amount ELSE 0]

\* What a payment takes off the party's account
Moved(r) ==
  IF r.dir = "RECEIPT" THEN r.amount + Total(r.settle)
  ELSE IF r.ahead THEN 0 - Total(r.alloc)
  ELSE 0 - r.amount

Moves(py) == [q \in Payments |-> IF q \in Standing(py) THEN Moved(py[q]) ELSE 0]

\* What a payment made ahead still has
Spare(r) == IF r.ahead THEN r.amount - Total(r.alloc) ELSE 0

Spares(py) == [q \in Payments |-> IF q \in Standing(py) THEN Spare(py[q]) ELSE 0]

Worth(bl) == [b \in Bills |-> IF b \in Sales THEN bl[b].value ELSE 0 - bl[b].value]

All(f) == SumOver(f, Payments)

\* Receipts are for sales and payments for purchases; only a receipt settles
\* by tax or discount, only a payment refunds or is made ahead, and not both.
Sound(r) ==
  /\ \A b \in Bills : (r.alloc[b] > 0 => b \in Side(r.dir)) /\ (r.settle[b] > 0 => b \in Sales /\ r.dir = "RECEIPT")
  /\ r.dir = "RECEIPT" => r.refundOf = None /\ ~r.ahead
  /\ r.refundOf # None => ~r.ahead

Good(py) ==
  /\ DOMAIN py \subseteq Payments
  /\ \A p \in DOMAIN py :
       /\ py[p] \in Payment /\ Sound(py[p])
       /\ py[p].refundOf # None => py[p].refundOf \in DOMAIN py /\ py[py[p].refundOf].dir = "RECEIPT"

\* What bills took of a payment and what was paid back out of it fit into it.
Fit(py) == \A p \in Standing(py) : Total(py[p].alloc) + All(Back(py, p)) <= py[p].amount

-----------------------------------------------------------------------------
(* The inductive invariant *)

Documents ==
  /\ \A b \in Bills : bill[b].state # "open" => bill[b].value = 0
  /\ \A p \in Live, b \in Sales : bill[b].state # "open" => pay[p].alloc[b] = 0

Booked ==
  /\ party = SumOver(Worth(bill), Bills) - All(Moves(pay)) - writtenOff
  /\ paidAhead = All(Spares(pay))

AdvanceKept ==
  advance # None => /\ pay[advance.of].dir = "RECEIPT"
                    /\ Max({advance.applied, 0}) + advance.refund <= pay[advance.of].amount

IInv == TypeOK /\ Good(pay) /\ Fit(pay) /\ Documents /\ Booked /\ AdvanceKept

-----------------------------------------------------------------------------
(* Sums over bills and over payments *)

LEMMA BillsFinite == ReceivablesAssumption => IsFiniteSet(Bills)
  BY FS_Union DEF ReceivablesAssumption, Bills

LEMMA TotalIs == \A f, S : DOMAIN f = S => Total(f) = SumOver(f, S)
  BY DEF Total, SumOver

\* Amounts on bills add up to no less than each of them.
LEMMA TotalBounds ==
  ASSUME ReceivablesAssumption, NEW f \in [Bills -> Nat]
  PROVE  Total(f) \in Nat /\ \A b \in Bills : f[b] <= Total(f)
<1>1. Total(f) = SumOver(f, Bills)
  BY TotalIs
<1> QED BY <1>1, BillsFinite, SumBounds

LEMMA TotalChanges ==
  ASSUME ReceivablesAssumption, NEW f \in [Bills -> Nat], NEW b \in Bills, NEW n \in Nat
  PROVE  Total([f EXCEPT ![b] = n]) = Total(f) - f[b] + n
<1> DEFINE g == [f EXCEPT ![b] = n]
<1>1. g \in [Bills -> Nat] /\ g[b] = n /\ \A o \in Bills \ {b} : f[o] = g[o]
  OBVIOUS
<1>2. DOMAIN f = Bills /\ DOMAIN g = Bills
  OBVIOUS
<1> HIDE DEF g
<1>3. Total(f) = SumOver(f, Bills) /\ Total(g) = SumOver(g, Bills)
  BY <1>2, TotalIs
<1>4. \A o \in Bills : f[o] \in Int /\ g[o] \in Int
  BY <1>1
<1>5. SumOver(g, Bills) = SumOver(f, Bills) - f[b] + g[b]
  BY <1>1, <1>4, BillsFinite, SumChanges
<1> QED BY <1>1, <1>3, <1>5 DEF g

LEMMA TotalOfNothing ==
  ASSUME ReceivablesAssumption
  PROVE  Total(Nothing) = 0 /\ Nothing \in [Bills -> 0..Value]
<1>1. DOMAIN Nothing = Bills /\ \A b \in Bills : Nothing[b] = 0
  BY DEF Nothing
<1>2. Total(Nothing) = SumOver(Nothing, Bills)
  BY <1>1, TotalIs
<1>3. SumOver(Nothing, Bills) = 0
  BY <1>1, BillsFinite, SumOfNothings
<1> QED BY <1>2, <1>3 DEF Nothing, ReceivablesAssumption

\* A payment's fields are what they should be, and its sums are numbers.
LEMMA PaymentParts ==
  ASSUME ReceivablesAssumption, NEW r \in Payment
  PROVE  /\ r.alloc \in [Bills -> Nat] /\ r.settle \in [Bills -> Nat]
         /\ r.amount \in Nat /\ r.amount <= Value
         /\ Total(r.alloc) \in Nat /\ Total(r.settle) \in Nat
         /\ Moved(r) \in Int /\ Spare(r) \in Int
<1>1. /\ r.alloc \in [Bills -> 0..Value] /\ r.settle \in [Bills -> 0..Value]
      /\ r.amount \in 1..Value /\ Value \in Nat /\ r.ahead \in BOOLEAN
  BY DEF Payment, Amounts, ReceivablesAssumption
<1>2. r.alloc \in [Bills -> Nat] /\ r.settle \in [Bills -> Nat] /\ r.amount \in Nat /\ r.amount <= Value
  BY <1>1
<1>3. Total(r.alloc) \in Nat /\ Total(r.settle) \in Nat
  BY <1>2, TotalBounds
<1>4. Moved(r) \in Int /\ Spare(r) \in Int
  BY <1>2, <1>3 DEF Moved, Spare
<1> QED BY <1>2, <1>3, <1>4

LEMMA SumsAreNumbers ==
  ASSUME ReceivablesAssumption, NEW py, Good(py)
  PROVE  /\ \A q \in Payments : Moves(py)[q] \in Int /\ Spares(py)[q] \in Int
         /\ \A p : \A q \in Payments : Back(py, p)[q] \in Nat
         /\ \A p : All(Back(py, p)) \in Nat
<1>1. \A q \in Standing(py) : q \in Payments /\ py[q] \in Payment
  BY DEF Good, Standing
<1>2. \A q \in Standing(py) : Moved(py[q]) \in Int /\ Spare(py[q]) \in Int /\ py[q].amount \in Nat
  BY <1>1, PaymentParts
<1>3. \A p : \A q \in Payments : Back(py, p)[q] \in Nat
  BY <1>2 DEF Back
<1>4. ASSUME NEW p PROVE All(Back(py, p)) \in Nat
  BY <1>3, SumBounds DEF All, ReceivablesAssumption
<1> QED BY <1>2, <1>3, <1>4 DEF Moves, Spares

\* Payments that differ in one only have sums that differ by that one.
LEMMA OneDiffers ==
  ASSUME ReceivablesAssumption, NEW py, NEW pz, Good(py), Good(pz), NEW p \in Payments,
         \A q \in Payments \ {p} : (q \in DOMAIN py <=> q \in DOMAIN pz) /\ (q \in DOMAIN py => py[q] = pz[q])
  PROVE  /\ All(Moves(pz)) = All(Moves(py)) - Moves(py)[p] + Moves(pz)[p]
         /\ All(Spares(pz)) = All(Spares(py)) - Spares(py)[p] + Spares(pz)[p]
         /\ \A o : All(Back(pz, o)) = All(Back(py, o)) - Back(py, o)[p] + Back(pz, o)[p]
         /\ All(Moves(py)) \in Int /\ All(Spares(py)) \in Int
<1>1. \A q \in Payments \ {p} : (q \in Standing(py) <=> q \in Standing(pz)) /\ (q \in Standing(py) => py[q] = pz[q])
  BY DEF Standing
<1>2. \A q \in Payments \ {p} : Moves(py)[q] = Moves(pz)[q] /\ Spares(py)[q] = Spares(pz)[q]
  BY <1>1 DEF Moves, Spares
<1>3. \A o : \A q \in Payments \ {p} : Back(py, o)[q] = Back(pz, o)[q]
  BY <1>1 DEF Back
<1>4. IsFiniteSet(Payments)
  BY DEF ReceivablesAssumption
<1>5. \A q \in Payments : Moves(py)[q] \in Int /\ Moves(pz)[q] \in Int /\ Spares(py)[q] \in Int /\ Spares(pz)[q] \in Int
  BY SumsAreNumbers
<1>6. \A o : \A q \in Payments : Back(py, o)[q] \in Int /\ Back(pz, o)[q] \in Int
  BY SumsAreNumbers
<1>7. All(Moves(pz)) = All(Moves(py)) - Moves(py)[p] + Moves(pz)[p] /\ All(Moves(py)) \in Int
  BY <1>2, <1>4, <1>5, SumChanges DEF All
<1>8. All(Spares(pz)) = All(Spares(py)) - Spares(py)[p] + Spares(pz)[p] /\ All(Spares(py)) \in Int
  BY <1>2, <1>4, <1>5, SumChanges DEF All
<1>9. ASSUME NEW o PROVE All(Back(pz, o)) = All(Back(py, o)) - Back(py, o)[p] + Back(pz, o)[p]
  BY <1>3, <1>4, <1>6, SumChanges DEF All
<1> QED BY <1>7, <1>8, <1>9

\* A new payment within the money, refunding no more than is left of its receipt.
LEMMA AddsPayment ==
  ASSUME ReceivablesAssumption, NEW py, Good(py), Fit(py), NEW p \in Payments \ DOMAIN py,
         NEW r \in Payment, Sound(r), r.state = "RECORDED", Total(r.alloc) <= r.amount,
         r.refundOf # None =>
           /\ r.refundOf \in Standing(py) /\ py[r.refundOf].dir = "RECEIPT"
           /\ r.amount <= py[r.refundOf].amount - Total(py[r.refundOf].alloc) - All(Back(py, r.refundOf)),
         NEW pz, pz = [q \in DOMAIN py \cup {p} |-> IF q = p THEN r ELSE py[q]]
  PROVE  /\ Good(pz) /\ Fit(pz)
         /\ All(Moves(pz)) = All(Moves(py)) + Moved(r)
         /\ All(Spares(pz)) = All(Spares(py)) + Spare(r)
         /\ All(Moves(py)) \in Int /\ All(Spares(py)) \in Int
<1>1. DOMAIN pz = DOMAIN py \cup {p} /\ pz[p] = r /\ \A q \in DOMAIN py : pz[q] = py[q] /\ q # p
  OBVIOUS
<1>2. Good(pz)
  <2>1. r.refundOf # None => r.refundOf \in DOMAIN py /\ pz[r.refundOf].dir = "RECEIPT"
    BY <1>1 DEF Standing
  <2>2. \A q \in DOMAIN py : py[q].refundOf # None => py[q].refundOf \in DOMAIN py /\ pz[py[q].refundOf].dir = "RECEIPT"
    BY <1>1 DEF Good
  <2>3. DOMAIN pz \subseteq Payments /\ \A q \in DOMAIN pz : pz[q] \in Payment /\ Sound(pz[q])
    BY <1>1 DEF Good
  <2>4. ASSUME NEW q \in DOMAIN pz, pz[q].refundOf # None
        PROVE  pz[q].refundOf \in DOMAIN pz /\ pz[pz[q].refundOf].dir = "RECEIPT"
    BY <1>1, <2>1, <2>2, <2>4
  <2> QED BY <2>3, <2>4 DEF Good
<1>3. Standing(pz) = Standing(py) \cup {p}
  BY <1>1 DEF Standing
<1>4. \A q \in Payments \ {p} : (q \in DOMAIN py <=> q \in DOMAIN pz) /\ (q \in DOMAIN py => py[q] = pz[q])
  BY <1>1
<1>5. p \notin Standing(py) /\ Standing(py) \subseteq DOMAIN py
  BY DEF Standing
<1>6. /\ Moves(py)[p] = 0 /\ Moves(pz)[p] = Moved(r) /\ Spares(py)[p] = 0 /\ Spares(pz)[p] = Spare(r)
      /\ \A o : Back(py, o)[p] = 0 /\ Back(pz, o)[p] = IF r.refundOf = o THEN r.amount ELSE 0
  BY <1>1, <1>3, <1>5 DEF Moves, Spares, Back
<1>a. /\ All(Moves(pz)) = All(Moves(py)) - Moves(py)[p] + Moves(pz)[p]
      /\ All(Spares(pz)) = All(Spares(py)) - Spares(py)[p] + Spares(pz)[p]
      /\ \A o : All(Back(pz, o)) = All(Back(py, o)) - Back(py, o)[p] + Back(pz, o)[p]
      /\ All(Moves(py)) \in Int /\ All(Spares(py)) \in Int
  BY <1>2, <1>4, OneDiffers
<1>7. /\ All(Moves(pz)) = All(Moves(py)) - 0 + Moved(r) /\ All(Spares(pz)) = All(Spares(py)) - 0 + Spare(r)
      /\ All(Moves(py)) \in Int /\ All(Spares(py)) \in Int
  BY <1>a, <1>6
<1>8. Moved(r) \in Int /\ Spare(r) \in Int /\ r.amount \in Nat /\ Total(r.alloc) \in Nat
  BY PaymentParts
<1>9. \A o : All(Back(py, o)) \in Nat
  BY SumsAreNumbers
<1>10. All(Back(py, p)) = 0 /\ r.refundOf # p
  <2>1. \A q \in Standing(py) : py[q].refundOf # p
    BY <1>5 DEF Good, ReceivablesAssumption
  <2>2. \A q \in Payments : Back(py, p)[q] = 0
    BY <2>1 DEF Back
  <2>3. All(Back(py, p)) = 0
    BY <2>2, SumOfNothings DEF All, ReceivablesAssumption
  <2> QED BY <1>5, <2>3 DEF ReceivablesAssumption
<1>b. \A o : All(Back(py, o)) \in Nat /\ All(Back(pz, o)) = All(Back(py, o)) + (IF r.refundOf = o THEN r.amount ELSE 0)
  <2> TAKE o
  <2>1. All(Back(pz, o)) = All(Back(py, o)) - Back(py, o)[p] + Back(pz, o)[p]
    BY <1>a
  <2>2. Back(py, o)[p] = 0 /\ Back(pz, o)[p] = IF r.refundOf = o THEN r.amount ELSE 0
    BY <1>6
  <2>3. All(Back(py, o)) \in Nat
    BY <1>9
  <2> QED BY <1>8, <2>1, <2>2, <2>3
<1>11. Fit(pz)
  <2> SUFFICES ASSUME NEW o \in Standing(pz) PROVE Total(pz[o].alloc) + All(Back(pz, o)) <= pz[o].amount
    BY DEF Fit
  <2>0. All(Back(py, o)) \in Nat /\ All(Back(pz, o)) = All(Back(py, o)) + (IF r.refundOf = o THEN r.amount ELSE 0)
    BY <1>b
  <2>1. CASE o = p
    <3>1. pz[o] = r /\ All(Back(py, o)) = 0 /\ r.refundOf # o
      BY <1>1, <1>10, <2>1
    <3>2. All(Back(pz, o)) = 0
      BY <2>0, <3>1
    <3> QED BY <1>8, <3>1, <3>2
  <2>2. CASE o # p
    <3>1. o \in Standing(py) /\ pz[o] = py[o] /\ py[o] \in Payment /\ o \in Payments
      BY <1>1, <1>3, <1>5, <2>2 DEF Good
    <3>2. Total(py[o].alloc) \in Nat /\ py[o].amount \in Nat
      BY <3>1, PaymentParts
    <3>3. Total(py[o].alloc) + All(Back(py, o)) <= py[o].amount
      BY <3>1 DEF Fit
    <3>4. o # None
      BY <3>1 DEF ReceivablesAssumption
    <3>5. CASE r.refundOf = o
      <4>1. r.amount <= py[o].amount - Total(py[o].alloc) - All(Back(py, o))
        BY <3>4, <3>5
      <4>2. All(Back(pz, o)) = All(Back(py, o)) + r.amount
        BY <2>0, <3>5
      <4>3. pz[o].alloc = py[o].alloc /\ pz[o].amount = py[o].amount
        BY <3>1
      <4> QED BY <1>8, <2>0, <3>2, <4>1, <4>2, <4>3
    <3>6. CASE r.refundOf # o
      <4>1. All(Back(pz, o)) = All(Back(py, o))
        BY <2>0, <3>6
      <4> QED BY <3>1, <3>3, <4>1
    <3> QED BY <3>5, <3>6
  <2> QED BY <2>1, <2>2
<1> QED BY <1>2, <1>7, <1>8, <1>11

\* A payment that changes what it settles, or stops standing, and keeps the rest.
LEMMA ReplacesPayment ==
  ASSUME ReceivablesAssumption, NEW py, Good(py), Fit(py), NEW p \in DOMAIN py,
         NEW r \in Payment, Sound(r), r.dir = py[p].dir, r.refundOf = py[p].refundOf,
         r.ahead = py[p].ahead, r.amount = py[p].amount,
         r.state = "RECORDED" => p \in Standing(py) /\ Total(r.alloc) + All(Back(py, p)) <= r.amount,
         NEW pz, DOMAIN pz = DOMAIN py, pz[p] = r, \A q \in DOMAIN py \ {p} : pz[q] = py[q]
  PROVE  /\ Good(pz) /\ Fit(pz)
         /\ All(Moves(pz)) = All(Moves(py)) - (IF p \in Standing(py) THEN Moved(py[p]) ELSE 0)
                             + (IF r.state = "RECORDED" THEN Moved(r) ELSE 0)
         /\ All(Spares(pz)) = All(Spares(py)) - (IF p \in Standing(py) THEN Spare(py[p]) ELSE 0)
                              + (IF r.state = "RECORDED" THEN Spare(r) ELSE 0)
         /\ All(Moves(py)) \in Int /\ All(Spares(py)) \in Int
<1>1. p \in Payments /\ py[p] \in Payment /\ DOMAIN py \subseteq Payments
  BY DEF Good
<1>2. Good(pz)
  <2>1. \A q \in DOMAIN py : pz[q].refundOf = py[q].refundOf /\ pz[q].dir = py[q].dir
    OBVIOUS
  <2>2. \A q \in DOMAIN py : pz[q] \in Payment /\ Sound(pz[q])
    BY DEF Good
  <2>3. \A q \in DOMAIN py : py[q].refundOf # None => py[q].refundOf \in DOMAIN py /\ py[py[q].refundOf].dir = "RECEIPT"
    BY DEF Good
  <2> QED BY <1>1, <2>1, <2>2, <2>3 DEF Good
<1>3. p \in Standing(pz) <=> r.state = "RECORDED"
  BY DEF Standing
<1>4. \A q \in Payments \ {p} : (q \in DOMAIN py <=> q \in DOMAIN pz) /\ (q \in DOMAIN py => py[q] = pz[q])
  OBVIOUS
<1>5. \A q \in DOMAIN py \ {p} : q \in Standing(pz) <=> q \in Standing(py)
  BY DEF Standing
<1>6. /\ Moves(py)[p] = (IF p \in Standing(py) THEN Moved(py[p]) ELSE 0)
      /\ Moves(pz)[p] = (IF r.state = "RECORDED" THEN Moved(r) ELSE 0)
      /\ Spares(py)[p] = (IF p \in Standing(py) THEN Spare(py[p]) ELSE 0)
      /\ Spares(pz)[p] = (IF r.state = "RECORDED" THEN Spare(r) ELSE 0)
  BY <1>1, <1>3 DEF Moves, Spares
<1>7. /\ All(Moves(pz)) = All(Moves(py)) - Moves(py)[p] + Moves(pz)[p]
      /\ All(Spares(pz)) = All(Spares(py)) - Spares(py)[p] + Spares(pz)[p]
      /\ \A o : All(Back(pz, o)) = All(Back(py, o)) - Back(py, o)[p] + Back(pz, o)[p]
      /\ All(Moves(py)) \in Int /\ All(Spares(py)) \in Int
  BY <1>1, <1>2, <1>4, OneDiffers
<1>8. \A o : All(Back(pz, o)) <= All(Back(py, o)) /\ All(Back(pz, o)) \in Nat /\ All(Back(py, o)) \in Nat
  <2> TAKE o
  <2>1. r.amount \in Nat
    BY PaymentParts
  <2>2. Back(pz, o)[p] <= Back(py, o)[p] /\ Back(pz, o)[p] \in Nat /\ Back(py, o)[p] \in Nat
    BY <1>1, <1>3, <2>1 DEF Back
  <2>3. All(Back(pz, o)) \in Nat /\ All(Back(py, o)) \in Nat
    BY <1>2, SumsAreNumbers
  <2>4. All(Back(pz, o)) = All(Back(py, o)) - Back(py, o)[p] + Back(pz, o)[p]
    BY <1>7
  <2> QED BY <2>2, <2>3, <2>4
<1>9. Fit(pz)
  <2> SUFFICES ASSUME NEW o \in Standing(pz) PROVE Total(pz[o].alloc) + All(Back(pz, o)) <= pz[o].amount
    BY DEF Fit
  <2>0. o \in DOMAIN py /\ pz[o] \in Payment
    BY <1>2 DEF Standing, Good
  <2>1. Total(pz[o].alloc) \in Nat /\ pz[o].amount \in Nat
    BY <2>0, PaymentParts
  <2>2. Total(pz[o].alloc) + All(Back(py, o)) <= pz[o].amount
    <3>1. CASE o = p
      BY <1>3, <3>1
    <3>2. CASE o # p
      BY <1>5, <2>0, <3>2 DEF Fit
    <3> QED BY <3>1, <3>2
  <2>3. All(Back(pz, o)) <= All(Back(py, o)) /\ All(Back(pz, o)) \in Nat /\ All(Back(py, o)) \in Nat
    BY <1>8
  <2> QED BY <2>1, <2>2, <2>3
<1> QED BY <1>2, <1>6, <1>7, <1>9

\* Payments that change what they settle and nothing else refund what they did.
LEMMA SameBack ==
  ASSUME ReceivablesAssumption, NEW py, NEW pz, Good(py), DOMAIN pz = DOMAIN py,
         \A q \in DOMAIN py : /\ pz[q] \in Payment /\ Sound(pz[q])
                              /\ pz[q].state = py[q].state /\ pz[q].dir = py[q].dir /\ pz[q].amount = py[q].amount
                              /\ pz[q].refundOf = py[q].refundOf
  PROVE  Good(pz) /\ Standing(pz) = Standing(py) /\ \A o : All(Back(pz, o)) = All(Back(py, o))
<1>1. Good(pz)
  <2>1. DOMAIN pz \subseteq Payments
    BY DEF Good
  <2>2. \A q \in DOMAIN py : py[q].refundOf # None => py[q].refundOf \in DOMAIN py /\ py[py[q].refundOf].dir = "RECEIPT"
    BY DEF Good
  <2>3. ASSUME NEW q \in DOMAIN pz, pz[q].refundOf # None
        PROVE  pz[q].refundOf \in DOMAIN pz /\ pz[pz[q].refundOf].dir = "RECEIPT"
    BY <2>2, <2>3
  <2> QED BY <2>1, <2>3 DEF Good
<1>2. Standing(pz) = Standing(py)
  BY DEF Standing
<1>3. ASSUME NEW o PROVE All(Back(pz, o)) = All(Back(py, o))
  <2>1. Standing(py) \subseteq DOMAIN py
    BY DEF Standing
  <2>2. \A q \in Payments : Back(pz, o)[q] = Back(py, o)[q]
    BY <1>2, <2>1 DEF Back
  <2> QED BY <2>2, SumAgrees DEF All, ReceivablesAssumption
<1> QED BY <1>1, <1>2, <1>3

\* The money of receipts is taken off a bill that is cancelled.
LEMMA ClearsBill ==
  ASSUME ReceivablesAssumption, NEW py, Good(py), Fit(py), NEW b \in Sales, NEW pz,
         DOMAIN pz = DOMAIN py,
         \A q \in DOMAIN py : pz[q] = IF q \in Standing(py) /\ py[q].alloc[b] > 0
                                      THEN [py[q] EXCEPT !.alloc[b] = 0] ELSE py[q]
  PROVE  /\ Good(pz) /\ Fit(pz) /\ Standing(pz) = Standing(py)
         /\ All(Moves(pz)) = All(Moves(py)) /\ All(Spares(pz)) = All(Spares(py))
<1>0. b \in Bills /\ b \notin Purchases
  BY DEF Bills, ReceivablesAssumption
<1>1. ASSUME NEW q \in DOMAIN py
      PROVE  /\ pz[q] \in Payment /\ Sound(pz[q])
             /\ pz[q].state = py[q].state /\ pz[q].dir = py[q].dir /\ pz[q].amount = py[q].amount
             /\ pz[q].refundOf = py[q].refundOf
             /\ Moved(pz[q]) = Moved(py[q]) /\ Spare(pz[q]) = Spare(py[q])
             /\ Total(pz[q].alloc) <= Total(py[q].alloc)
  <2>1. py[q] \in Payment /\ Sound(py[q])
    BY DEF Good
  <2>2. py[q].alloc \in [Bills -> Nat] /\ Total(py[q].alloc) \in Nat
    BY <2>1, PaymentParts
  <2>3. CASE ~(q \in Standing(py) /\ py[q].alloc[b] > 0)
    BY <2>1, <2>2, <2>3
  <2>4. CASE q \in Standing(py) /\ py[q].alloc[b] > 0
    <3>1. py[q].dir = "RECEIPT" /\ ~py[q].ahead
      BY <1>0, <2>1, <2>4 DEF Sound, Side
    <3> DEFINE r == [py[q] EXCEPT !.alloc[b] = 0]
    <3>2. pz[q] = r
      BY <2>4
    <3>3. /\ r.alloc = [py[q].alloc EXCEPT ![b] = 0] /\ r.settle = py[q].settle /\ r.dir = py[q].dir
          /\ r.amount = py[q].amount /\ r.state = py[q].state /\ r.refundOf = py[q].refundOf /\ r.ahead = py[q].ahead
      BY <2>1 DEF Payment
    <3>4. r \in Payment
      BY <2>1, ReceivablesAssumption DEF Payment, ReceivablesAssumption
    <3> HIDE DEF r
    <3>5. Sound(r)
      <4>1. \A c \in Bills : r.alloc[c] > 0 => py[q].alloc[c] > 0
        BY <2>2, <3>3
      <4> QED BY <2>1, <3>3, <4>1 DEF Sound
    <3>6. Total(r.alloc) = Total(py[q].alloc) - py[q].alloc[b] + 0 /\ py[q].alloc[b] \in Nat
      <4>1. Total([py[q].alloc EXCEPT ![b] = 0]) = Total(py[q].alloc) - py[q].alloc[b] + 0
        BY <1>0, <2>2, TotalChanges
      <4> QED BY <1>0, <2>2, <3>3, <4>1
    <3>7. Moved(r) = Moved(py[q]) /\ Spare(r) = Spare(py[q])
      BY <3>1, <3>3 DEF Moved, Spare
    <3> QED BY <2>2, <3>2, <3>3, <3>4, <3>5, <3>6, <3>7
  <2> QED BY <2>3, <2>4
<1>2. Good(pz) /\ Standing(pz) = Standing(py) /\ \A o : All(Back(pz, o)) = All(Back(py, o))
  BY <1>1, SameBack
<1>3. Standing(py) \subseteq DOMAIN py
  BY DEF Standing
<1>4. \A q \in Payments : Moves(pz)[q] = Moves(py)[q] /\ Spares(pz)[q] = Spares(py)[q]
  BY <1>1, <1>2, <1>3 DEF Moves, Spares
<1>5. All(Moves(pz)) = All(Moves(py)) /\ All(Spares(pz)) = All(Spares(py))
  BY <1>4, SumAgrees DEF All, ReceivablesAssumption
<1>6. ASSUME NEW o \in Standing(pz) PROVE Total(pz[o].alloc) + All(Back(pz, o)) <= pz[o].amount
  <2>1. o \in Standing(py) /\ o \in DOMAIN py /\ py[o] \in Payment /\ pz[o] \in Payment
    BY <1>1, <1>2, <1>3 DEF Good
  <2>2. Total(pz[o].alloc) \in Nat /\ Total(py[o].alloc) \in Nat /\ py[o].amount \in Nat /\ All(Back(py, o)) \in Nat
    BY <2>1, PaymentParts, SumsAreNumbers
  <2>3. Total(py[o].alloc) + All(Back(py, o)) <= py[o].amount
    BY <2>1 DEF Fit
  <2>4. Total(pz[o].alloc) <= Total(py[o].alloc) /\ pz[o].amount = py[o].amount /\ All(Back(pz, o)) = All(Back(py, o))
    BY <1>1, <1>2, <2>1
  <2> QED BY <2>2, <2>3, <2>4
<1> QED BY <1>2, <1>5, <1>6 DEF Fit

\* Advances paid to a supplier are taken by one of his bills.
Takes(py, pz, b, ahead, T) ==
  /\ ahead = {q \in Standing(py) : py[q].ahead} /\ DOMAIN T = ahead /\ DOMAIN pz = DOMAIN py
  /\ \A q \in ahead : T[q] \in Nat /\ py[q].alloc[b] = 0 /\ T[q] <= py[q].amount - Total(py[q].alloc)
  /\ \A q \in DOMAIN py : pz[q] = IF q \in ahead THEN [py[q] EXCEPT !.alloc[b] = T[q]] ELSE py[q]

LEMMA TakesAhead ==
  ASSUME ReceivablesAssumption, NEW py, Good(py), Fit(py), NEW b \in Purchases, NEW ahead, NEW T, NEW pz,
         Takes(py, pz, b, ahead, T)
  PROVE  /\ Good(pz) /\ Fit(pz) /\ Standing(pz) = Standing(py) /\ Total(T) \in Nat
         /\ All(Moves(pz)) = All(Moves(py)) - Total(T) /\ All(Spares(pz)) = All(Spares(py)) - Total(T)
         /\ All(Moves(py)) \in Int /\ All(Spares(py)) \in Int
<1> DEFINE U == [q \in Payments |-> IF q \in ahead THEN T[q] ELSE 0]
<1> USE DEF Takes
<1>0. b \in Bills /\ ahead \subseteq Standing(py) /\ Standing(py) \subseteq DOMAIN py /\ DOMAIN py \subseteq Payments
  BY DEF Bills, Good, Standing
<1>1. ASSUME NEW q \in DOMAIN py
      PROVE  /\ pz[q] \in Payment /\ Sound(pz[q])
             /\ pz[q].state = py[q].state /\ pz[q].dir = py[q].dir /\ pz[q].amount = py[q].amount
             /\ pz[q].refundOf = py[q].refundOf
             /\ q \in ahead => /\ Moved(py[q]) = Moved(pz[q]) + T[q] /\ Spare(py[q]) = Spare(pz[q]) + T[q]
                               /\ Total(pz[q].alloc) = Total(py[q].alloc) + T[q]
             /\ q \notin ahead => pz[q] = py[q]
  <2>1. py[q] \in Payment /\ Sound(py[q])
    BY DEF Good
  <2>2. py[q].alloc \in [Bills -> Nat] /\ Total(py[q].alloc) \in Nat /\ py[q].amount \in Nat /\ py[q].amount <= Value
    BY <2>1, PaymentParts
  <2>3. CASE q \notin ahead
    BY <2>1, <2>3
  <2>4. CASE q \in ahead
    <3>1. py[q].dir # "RECEIPT" /\ py[q].ahead
      BY <2>1, <2>4 DEF Sound
    <3> DEFINE r == [py[q] EXCEPT !.alloc[b] = T[q]]
    <3>2. pz[q] = r
      BY <2>4
    <3>0. T[q] \in Nat /\ T[q] <= Value /\ py[q].alloc[b] = 0
      <4>1. T[q] \in Nat /\ py[q].alloc[b] = 0 /\ T[q] <= py[q].amount - Total(py[q].alloc)
        BY <2>4
      <4>2. Value \in Nat BY DEF ReceivablesAssumption
      <4> QED BY <2>2, <4>1, <4>2
    <3>3. /\ r.alloc = [py[q].alloc EXCEPT ![b] = T[q]] /\ r.settle = py[q].settle /\ r.dir = py[q].dir
          /\ r.amount = py[q].amount /\ r.state = py[q].state /\ r.refundOf = py[q].refundOf /\ r.ahead = py[q].ahead
      BY <2>1, <3>0 DEF Payment
    <3>4. r \in Payment
      <4>1. r = [py[q] EXCEPT !.alloc = r.alloc]
        BY <2>1, <3>3 DEF Payment
      <4>2. r.alloc \in [Bills -> 0..Value]
        <5>1. py[q].alloc \in [Bills -> 0..Value] BY <2>1 DEF Payment
        <5>2. T[q] \in 0..Value BY <3>0
        <5> HIDE DEF r
        <5> QED BY <3>3, <5>1, <5>2
      <4> HIDE DEF r
      <4> QED BY <2>1, <4>1, <4>2 DEF Payment
    <3> HIDE DEF r
    <3>5. Sound(r)
      <4>1. \A c \in Bills : r.alloc[c] > 0 => py[q].alloc[c] > 0 \/ c = b
        BY <2>2, <3>3
      <4>2. b \in Side(r.dir)
        BY <3>1, <3>3 DEF Side
      <4> QED BY <2>1, <3>3, <4>1, <4>2 DEF Sound
    <3>6. Total(r.alloc) = Total(py[q].alloc) - 0 + T[q]
      BY <1>0, <2>2, <3>0, <3>3, TotalChanges
    <3>7. /\ Moved(r) = 0 - Total(r.alloc) /\ Moved(py[q]) = 0 - Total(py[q].alloc)
          /\ Spare(r) = r.amount - Total(r.alloc) /\ Spare(py[q]) = py[q].amount - Total(py[q].alloc)
      BY <3>1, <3>3 DEF Moved, Spare
    <3> QED BY <2>2, <2>4, <3>0, <3>2, <3>3, <3>4, <3>5, <3>6, <3>7
  <2> QED BY <2>3, <2>4
<1>2. Good(pz) /\ Standing(pz) = Standing(py) /\ \A o : All(Back(pz, o)) = All(Back(py, o))
  BY <1>1, SameBack
<1>3. \A q \in Payments : U[q] \in Nat /\ Moves(pz)[q] \in Int /\ Moves(py)[q] \in Int /\ Spares(pz)[q] \in Int
                          /\ Spares(py)[q] \in Int
  BY <1>2, SumsAreNumbers
<1>4. \A q \in Payments : Moves(py)[q] = Moves(pz)[q] + U[q] /\ Spares(py)[q] = Spares(pz)[q] + U[q]
  <2> TAKE q \in Payments
  <2>1. CASE q \in ahead
    BY <1>0, <1>1, <1>2, <2>1 DEF Moves, Spares
  <2>2. CASE q \in Standing(py) \ ahead
    <3>1. Moves(py)[q] = Moves(pz)[q] /\ Spares(py)[q] = Spares(pz)[q] /\ U[q] = 0
      BY <1>0, <1>1, <1>2, <2>2 DEF Moves, Spares
    <3> HIDE DEF U
    <3> QED BY <1>3, <3>1
  <2>3. CASE q \notin Standing(py)
    BY <1>0, <1>2, <2>3 DEF Moves, Spares
  <2> QED BY <2>1, <2>2, <2>3
<1>5. Total(T) = SumOver(U, Payments)
  <2>1. Total(T) = SumOver(T, ahead)
    <3>1. DOMAIN T = ahead
      OBVIOUS
    <3> QED BY <3>1, TotalIs
  <2>2. IsFiniteSet(Payments) /\ IsFiniteSet(ahead) /\ ahead \in SUBSET Payments
    BY <1>0, FS_Subset DEF ReceivablesAssumption
  <2>3. (\A q \in ahead : T[q] = U[q]) /\ (\A q \in Payments \ ahead : U[q] = 0) /\ (\A q \in Payments : U[q] \in Int)
    BY <1>0, <1>3
  <2> HIDE DEF U
  <2>4. SumOver(T, ahead) = SumOver(U, ahead)
    BY <2>2, <2>3, SumAgrees
  <2>5. SumOver(U, Payments) = SumOver(U, ahead)
    BY <2>2, <2>3, SumOfPart
  <2> QED BY <2>1, <2>4, <2>5
<1>6. /\ All(Moves(py)) = All(Moves(pz)) + SumOver(U, Payments)
      /\ All(Spares(py)) = All(Spares(pz)) + SumOver(U, Payments)
      /\ All(Moves(pz)) \in Int /\ All(Spares(pz)) \in Int /\ SumOver(U, Payments) \in Nat
  <2>0. IsFiniteSet(Payments) BY DEF ReceivablesAssumption
  <2> HIDE DEF U
  <2>a. \A q \in Payments : U[q] \in Int BY <1>3
  <2>1. All(Moves(py)) = All(Moves(pz)) + SumOver(U, Payments)
    BY <1>3, <1>4, <2>0, <2>a, SumAdds DEF All
  <2>2. All(Spares(py)) = All(Spares(pz)) + SumOver(U, Payments)
    BY <1>3, <1>4, <2>0, <2>a, SumAdds DEF All
  <2>3. All(Moves(pz)) \in Int /\ All(Spares(pz)) \in Int
    BY <1>3, <2>0, SumIsInt DEF All
  <2>4. SumOver(U, Payments) \in Nat
    BY <1>3, <2>0, SumBounds
  <2> QED BY <2>1, <2>2, <2>3, <2>4
<1>7. ASSUME NEW o \in Standing(pz) PROVE Total(pz[o].alloc) + All(Back(pz, o)) <= pz[o].amount
  <2>1. o \in Standing(py) /\ o \in DOMAIN py /\ py[o] \in Payment /\ All(Back(pz, o)) = All(Back(py, o))
    BY <1>0, <1>2 DEF Good
  <2>2. CASE o \notin ahead
    BY <1>1, <2>1, <2>2 DEF Fit
  <2>3. CASE o \in ahead
    <3>1. py[o].dir # "RECEIPT"
      BY <2>1, <2>3 DEF Sound, Good
    <3>2. \A q \in Standing(py) : py[q].refundOf # o
      <4> SUFFICES ASSUME NEW q \in Standing(py), py[q].refundOf = o PROVE FALSE
        OBVIOUS
      <4>1. q \in DOMAIN py /\ o # None
        BY <1>0, <2>1 DEF ReceivablesAssumption
      <4> QED BY <3>1, <4>1 DEF Good
    <3>3. \A q \in Payments : Back(py, o)[q] = 0
      BY <3>2 DEF Back
    <3>4. All(Back(py, o)) = 0
      BY <3>3, SumOfNothings DEF All, ReceivablesAssumption
    <3>5. T[o] \in Nat /\ T[o] <= py[o].amount - Total(py[o].alloc)
      BY <2>3
    <3>6. Total(py[o].alloc) \in Nat /\ py[o].amount \in Nat
      BY <2>1, PaymentParts
    <3>7. Total(pz[o].alloc) = Total(py[o].alloc) + T[o] /\ pz[o].amount = py[o].amount
      BY <1>1, <2>1, <2>3
    <3> QED BY <2>1, <3>4, <3>5, <3>6, <3>7
  <2> QED BY <2>2, <2>3
<1>8. Total(T) \in Nat /\ All(Moves(pz)) = All(Moves(py)) - Total(T) /\ All(Spares(pz)) = All(Spares(py)) - Total(T)
      /\ All(Moves(py)) \in Int /\ All(Spares(py)) \in Int
  <2> HIDE DEF U
  <2> QED BY <1>5, <1>6
<1> QED BY <1>2, <1>7, <1>8 DEF Fit

-----------------------------------------------------------------------------
(* What the module's own sums come to *)

\* A total over some of the payments is one over all, where the others have nothing.
LEMMA TotalOverAll ==
  ASSUME ReceivablesAssumption, NEW f, DOMAIN f \in SUBSET Payments,
         NEW g, \A q \in DOMAIN f : g[q] \in Int /\ g[q] = f[q], \A q \in Payments \ DOMAIN f : g[q] = 0
  PROVE  Total(f) = All(g) /\ All(g) \in Int
<1> DEFINE S == DOMAIN f
<1>1. IsFiniteSet(Payments) /\ IsFiniteSet(S) /\ S \in SUBSET Payments
  BY FS_Subset DEF ReceivablesAssumption
<1>2. \A q \in Payments : g[q] \in Int
  OBVIOUS
<1>3. \A q \in S : f[q] = g[q]
  OBVIOUS
<1>4. \A q \in Payments \ S : g[q] = 0
  OBVIOUS
<1>5. Total(f) = SumOver(f, S)
  BY TotalIs
<1> HIDE DEF S
<1>6. SumOver(f, S) = SumOver(g, S)
  BY <1>1, <1>3, SumAgrees
<1>7. SumOver(g, Payments) = SumOver(g, S)
  BY <1>1, <1>2, <1>4, SumOfPart
<1>8. SumOver(g, Payments) \in Int
  BY <1>1, <1>2, SumIsInt
<1> QED BY <1>5, <1>6, <1>7, <1>8 DEF All

LEMMA RefundedIs ==
  ASSUME ReceivablesAssumption, Good(pay)
  PROVE  \A p : Refunded(p) = All(Back(pay, p))
<1> TAKE p
<1> DEFINE f == [q \in {q \in Live : pay[q].refundOf = p} |-> pay[q].amount]
<1>1. DOMAIN f \in SUBSET Payments
  BY DEF Live, Good
<1>2. (\A q \in DOMAIN f : f[q] = Back(pay, p)[q]) /\ (\A q \in Payments \ DOMAIN f : Back(pay, p)[q] = 0)
  BY <1>1 DEF Back, Live, Standing
<1>3. \A q \in Payments : Back(pay, p)[q] \in Int
  BY SumsAreNumbers
<1>4. Refunded(p) = Total(f)
  BY DEF Refunded
<1> HIDE DEF f
<1> QED BY <1>1, <1>2, <1>3, <1>4, TotalOverAll

LEMMA LiveIs == Live = Standing(pay)
  BY DEF Live, Standing

\* What is left of a payment, and of all that were made ahead, is never negative.
LEMMA SparesLeft ==
  ASSUME ReceivablesAssumption, NEW py, Good(py), Fit(py)
  PROVE  All(Spares(py)) \in Nat
<1>1. \A q \in Standing(py) : q \in DOMAIN py /\ py[q] \in Payment
  BY DEF Good, Standing
<1>2. ASSUME NEW q \in Standing(py) PROVE Spare(py[q]) \in Nat
  <2>1. Total(py[q].alloc) \in Nat /\ py[q].amount \in Nat /\ All(Back(py, q)) \in Nat
    BY <1>1, PaymentParts, SumsAreNumbers
  <2>2. Total(py[q].alloc) + All(Back(py, q)) <= py[q].amount
    BY DEF Fit
  <2> QED BY <2>1, <2>2 DEF Spare
<1>3. \A q \in Payments : Spares(py)[q] \in Nat
  BY <1>2 DEF Spares
<1> QED BY <1>3, SumBounds DEF All, ReceivablesAssumption

LEMMA MaxIs == \A a \in Int : Max({a, 0}) = IF a > 0 THEN a ELSE 0
<1> TAKE a \in Int
<1>1. \E x \in {a, 0} : \A y \in {a, 0} : x >= y
  OBVIOUS
<1>2. Max({a, 0}) \in {a, 0} /\ \A y \in {a, 0} : Max({a, 0}) >= y
  BY <1>1 DEF Max
<1> QED BY <1>2

LEMMA MinIs == \A a, b \in Int : Min({a, b}) \in {a, b} /\ Min({a, b}) <= a /\ Min({a, b}) <= b
<1> TAKE a, b \in Int
<1>1. \E x \in {a, b} : \A y \in {a, b} : x <= y
  OBVIOUS
<1>2. Min({a, b}) \in {a, b} /\ \A y \in {a, b} : Min({a, b}) <= y
  BY <1>1 DEF Min
<1> QED BY <1>2

Document == [state : {"none", "open", "closed"}, value : 0..Value]

\* When one document changes its value, what all are worth changes by as much.
LEMMA WorthChanges ==
  ASSUME ReceivablesAssumption, NEW bl \in [Bills -> Document], NEW b \in Bills, NEW x \in Document
  PROVE  /\ SumOver(Worth([bl EXCEPT ![b] = x]), Bills) =
              SumOver(Worth(bl), Bills) + (IF b \in Sales THEN x.value - bl[b].value ELSE bl[b].value - x.value)
         /\ SumOver(Worth(bl), Bills) \in Int
<1> DEFINE bz == [bl EXCEPT ![b] = x]
<1>1. bz \in [Bills -> Document] /\ bz[b] = x /\ \A c \in Bills \ {b} : bz[c] = bl[c]
  OBVIOUS
<1>2. \A c \in Bills : bl[c].value \in Int /\ bz[c].value \in Int
  <2>1. \A d \in Document : d.value \in Int
    BY DEF Document, ReceivablesAssumption
  <2> HIDE DEF bz
  <2> QED BY <1>1, <2>1
<1> HIDE DEF bz
<1>3. \A c \in Bills : Worth(bl)[c] \in Int /\ Worth(bz)[c] \in Int
  BY <1>2 DEF Worth
<1>4. \A c \in Bills \ {b} : Worth(bl)[c] = Worth(bz)[c]
  BY <1>1 DEF Worth
<1>5. SumOver(Worth(bz), Bills) = SumOver(Worth(bl), Bills) - Worth(bl)[b] + Worth(bz)[b] /\ SumOver(Worth(bl), Bills) \in Int
  BY <1>3, <1>4, BillsFinite, SumChanges
<1>6. /\ Worth(bl)[b] = (IF b \in Sales THEN bl[b].value ELSE 0 - bl[b].value)
      /\ Worth(bz)[b] = (IF b \in Sales THEN x.value ELSE 0 - x.value)
      /\ x.value \in Int /\ bl[b].value \in Int
  BY <1>1, <1>2 DEF Worth
<1>7. SumOver(Worth(bz), Bills) = SumOver(Worth(bl), Bills) + (IF b \in Sales THEN x.value - bl[b].value ELSE bl[b].value - x.value)
  BY <1>5, <1>6
<1> QED BY <1>5, <1>7 DEF bz

-----------------------------------------------------------------------------
(* The invariant holds at the start and after every step *)

LEMMA InitIInv == ReceivablesAssumption /\ Init => IInv
<1> SUFFICES ASSUME ReceivablesAssumption, Init PROVE IInv
  OBVIOUS
<1>1. DOMAIN pay = {} /\ advance = None /\ \A b \in Bills : bill[b] = [state |-> "none", value |-> 0]
  BY DEF Init
<1>2. TypeOK
  BY <1>1 DEF Init, TypeOK, ReceivablesAssumption
<1>3. Good(pay) /\ Fit(pay) /\ Standing(pay) = {}
  BY <1>1 DEF Good, Fit, Standing
<1>4. Documents /\ AdvanceKept
  BY <1>1, <1>3, LiveIs DEF Documents, AdvanceKept
<1>5. \A q \in Payments : Moves(pay)[q] = 0 /\ Spares(pay)[q] = 0
  BY <1>3 DEF Moves, Spares
<1>6. All(Moves(pay)) = 0 /\ All(Spares(pay)) = 0
  BY <1>5, SumOfNothings DEF All, ReceivablesAssumption
<1>7. \A b \in Bills : Worth(bill)[b] = 0
  BY <1>1 DEF Worth
<1>8. SumOver(Worth(bill), Bills) = 0
  BY <1>7, BillsFinite, SumOfNothings
<1>9. Booked
  BY <1>6, <1>8 DEF Booked, Init
<1> QED BY <1>2, <1>3, <1>4, <1>9 DEF IInv

\* What a step has to see to when it leaves the advance on the proforma alone.
LEMMA Holds ==
  ASSUME ReceivablesAssumption, IInv, Good(pay'), Fit(pay'), Documents', Booked',
         bill' \in [Bills -> Document], proforma' = proforma, writtenOff' \in Nat, party' \in Int,
         advance' = advance,
         \A q \in DOMAIN pay : q \in DOMAIN pay' /\ pay'[q].dir = pay[q].dir /\ pay'[q].amount = pay[q].amount
  PROVE  IInv'
<1>1. paidAhead' \in Nat
  BY SparesLeft DEF Booked
<1>2. advance' \in {None} \cup [of : DOMAIN pay', applied : -1..Value, refund : 0..Value]
  BY DEF IInv, TypeOK
<1>3. TypeOK'
  BY <1>1, <1>2 DEF IInv, TypeOK, Good, Document
<1>4. AdvanceKept'
  <2>1. advance # None => advance.of \in DOMAIN pay
    BY DEF IInv, TypeOK
  <2> QED BY <2>1 DEF IInv, AdvanceKept
<1> QED BY <1>3, <1>4 DEF IInv

\* A document that changes its value changes the party's account by as much.
LEMMA DocumentStep ==
  ASSUME ReceivablesAssumption, IInv, NEW b \in Bills, NEW x \in Document, x.state # "none",
         x.state # "open" => x.value = 0,
         bill' = [bill EXCEPT ![b] = x], Good(pay'), Fit(pay'), Standing(pay') = Standing(pay),
         All(Moves(pay')) = All(Moves(pay)), All(Spares(pay')) = All(Spares(pay)),
         \A q \in DOMAIN pay : /\ q \in DOMAIN pay' /\ pay'[q].dir = pay[q].dir /\ pay'[q].amount = pay[q].amount
                               /\ \A c \in Sales : pay'[q].alloc[c] = pay[q].alloc[c] \/ pay'[q].alloc[c] = 0,
         b \in Sales /\ x.state # "open" => \A q \in Standing(pay) : pay'[q].alloc[b] = 0,
         party' = party + (IF b \in Sales THEN x.value - bill[b].value ELSE bill[b].value - x.value),
         UNCHANGED <<advance, proforma, paidAhead, writtenOff>>
  PROVE  IInv'
<1>1. bill \in [Bills -> Document] /\ writtenOff \in Nat
  BY DEF IInv, TypeOK, Document
<1>2. bill' \in [Bills -> Document] /\ bill'[b] = x /\ \A c \in Bills \ {b} : bill'[c] = bill[c]
  BY <1>1
<1>3. bill[b].value \in Int /\ x.value \in Int
  <2>1. \A d \in Document : d.value \in Int
    BY DEF Document, ReceivablesAssumption
  <2> QED BY <1>1, <2>1
<1>4. /\ SumOver(Worth(bill'), Bills) =
           SumOver(Worth(bill), Bills) + (IF b \in Sales THEN x.value - bill[b].value ELSE bill[b].value - x.value)
      /\ SumOver(Worth(bill), Bills) \in Int
  BY <1>1, WorthChanges
<1>5. All(Moves(pay)) \in Int /\ party \in Int
  <2>1. \A q \in Payments : Moves(pay)[q] \in Int
    BY SumsAreNumbers DEF IInv
  <2> QED BY <2>1, SumIsInt DEF All, ReceivablesAssumption, IInv, TypeOK
<1>6. Booked' /\ party' \in Int
  BY <1>1, <1>3, <1>4, <1>5 DEF IInv, Booked
<1>7. Documents'
  <2>1. \A c \in Bills : bill'[c].state # "open" => bill'[c].value = 0
    BY <1>2 DEF IInv, Documents
  <2>2. ASSUME NEW q \in Standing(pay'), NEW c \in Sales, bill'[c].state # "open" PROVE pay'[q].alloc[c] = 0
    <3>1. q \in Standing(pay) /\ q \in DOMAIN pay /\ c \in Bills
      BY DEF Standing, Bills
    <3>2. CASE c = b
      BY <1>2, <2>2, <3>1, <3>2
    <3>3. CASE c # b
      <4>1. pay[q].alloc[c] = 0
        BY <1>2, <2>2, <3>1, <3>3, LiveIs DEF IInv, Documents
      <4> QED BY <3>1, <4>1
    <3> QED BY <3>2, <3>3
  <2>3. Live' = Standing(pay')
    BY DEF Live, Standing
  <2> QED BY <2>1, <2>2, <2>3 DEF Documents
<1> QED BY <1>1, <1>2, <1>6, <1>7, Holds

LEMMA SamePayments ==
  ASSUME IInv, UNCHANGED pay
  PROVE  /\ Good(pay') /\ Fit(pay') /\ Standing(pay') = Standing(pay)
         /\ All(Moves(pay')) = All(Moves(pay)) /\ All(Spares(pay')) = All(Spares(pay))
  BY DEF IInv

LEMMA DocumentsIInv ==
  ASSUME ReceivablesAssumption, IInv, NEW b \in Bills,
         Issue(b) \/ Return(b) \/ CancelSale(b) \/ ReversePurchase(b)
  PROVE  IInv'
<1>0. /\ bill \in [Bills -> Document] /\ Value \in Nat /\ Good(pay) /\ Fit(pay) /\ DOMAIN pay \subseteq Payments
      /\ bill[b].value \in Nat /\ bill[b].value <= Value
  <2>1. bill \in [Bills -> Document] /\ Value \in Nat /\ Good(pay) /\ Fit(pay)
    BY DEF IInv, TypeOK, Document, ReceivablesAssumption
  <2>2. \A d \in Document : d.value \in Nat /\ d.value <= Value
    BY <2>1 DEF Document
  <2> QED BY <2>1, <2>2 DEF Good
<1>1. CASE Issue(b)
  <2> DEFINE x == [state |-> "open", value |-> Value]
  <2>1. x \in Document /\ x.state = "open" /\ x.value = Value
    BY <1>0 DEF Document
  <2>2. /\ bill' = [bill EXCEPT ![b] = x] /\ bill[b].state = "none"
        /\ party' = party + (IF b \in Sales THEN Value ELSE -Value)
        /\ UNCHANGED <<pay, advance, proforma, paidAhead, writtenOff>>
    BY <1>1 DEF Issue
  <2> HIDE DEF x
  <2>3. bill[b].value = 0
    BY <2>2 DEF IInv, Documents
  <2>4. party' = party + (IF b \in Sales THEN x.value - bill[b].value ELSE bill[b].value - x.value)
    BY <1>0, <2>1, <2>2, <2>3
  <2> QED BY <2>1, <2>2, <2>4, SamePayments, DocumentStep
<1>2. CASE Return(b)
  <2> DEFINE x == [bill[b] EXCEPT !.value = @ - 1]
  <2>1. bill[b] \in Document /\ bill[b].state = "open" /\ bill[b].value > 0
    BY <1>0, <1>2 DEF Return
  <2>2. x.state = "open" /\ x.value = bill[b].value - 1 /\ x \in Document
    BY <1>0, <2>1 DEF Document
  <2>3. /\ bill' = [bill EXCEPT ![b] = x]
        /\ party' = party - (IF b \in Sales THEN 1 ELSE -1)
        /\ UNCHANGED <<pay, advance, proforma, paidAhead, writtenOff>>
    BY <1>2 DEF Return
  <2> HIDE DEF x
  <2>4. party \in Int
    BY DEF IInv, TypeOK
  <2>5. party' = party + (IF b \in Sales THEN x.value - bill[b].value ELSE bill[b].value - x.value)
    BY <1>0, <2>2, <2>3, <2>4
  <2> QED BY <2>2, <2>3, <2>5, SamePayments, DocumentStep
<1> DEFINE gone == [state |-> "closed", value |-> 0]
<1>3. gone \in Document /\ gone.state = "closed" /\ gone.value = 0
  BY <1>0 DEF Document
<1>4. ASSUME Close(b)
      PROVE  /\ bill' = [bill EXCEPT ![b] = gone] /\ UNCHANGED <<advance, proforma, paidAhead, writtenOff>>
             /\ party' = party + (IF b \in Sales THEN gone.value - bill[b].value ELSE bill[b].value - gone.value)
  <2>1. /\ bill' = [bill EXCEPT ![b] = gone] /\ UNCHANGED <<advance, proforma, paidAhead, writtenOff>>
        /\ party' = party - (IF b \in Sales THEN bill[b].value ELSE -bill[b].value)
    BY <1>4 DEF Close
  <2>2. party \in Int
    BY DEF IInv, TypeOK
  <2> HIDE DEF gone
  <2> QED BY <1>0, <1>3, <2>1, <2>2
<1> HIDE DEF gone
<1>5. CASE ReversePurchase(b)
  <2>1. Close(b) /\ UNCHANGED pay /\ b \notin Sales
    BY <1>5 DEF ReversePurchase, ReceivablesAssumption
  <2> QED BY <1>3, <1>4, <2>1, SamePayments, DocumentStep
<1>6. CASE CancelSale(b)
  <2>1. /\ Close(b) /\ b \in Sales
        /\ pay' = [p \in DOMAIN pay |-> IF p \in {q \in Live : pay[q].alloc[b] > 0} THEN [pay[p] EXCEPT !.alloc[b] = 0] ELSE pay[p]]
    BY <1>6 DEF CancelSale
  <2>2. /\ DOMAIN pay' = DOMAIN pay
        /\ \A q \in DOMAIN pay : pay'[q] = IF q \in Standing(pay) /\ pay[q].alloc[b] > 0
                                           THEN [pay[q] EXCEPT !.alloc[b] = 0] ELSE pay[q]
    BY <2>1, LiveIs
  <2>3. /\ Good(pay') /\ Fit(pay') /\ Standing(pay') = Standing(pay)
        /\ All(Moves(pay')) = All(Moves(pay)) /\ All(Spares(pay')) = All(Spares(pay))
    BY <1>0, <2>1, <2>2, ClearsBill
  <2>4. ASSUME NEW q \in DOMAIN pay
        PROVE  /\ pay'[q].dir = pay[q].dir /\ pay'[q].amount = pay[q].amount
               /\ \A c \in Sales : pay'[q].alloc[c] = pay[q].alloc[c] \/ pay'[q].alloc[c] = 0
               /\ q \in Standing(pay) => pay'[q].alloc[b] = 0
    <3>1. pay[q] \in Payment /\ pay[q].alloc \in [Bills -> Nat] /\ Sales \subseteq Bills
      BY <1>0, PaymentParts DEF Good, Bills
    <3>2. CASE q \in Standing(pay) /\ pay[q].alloc[b] > 0
      <4> DEFINE r == [pay[q] EXCEPT !.alloc[b] = 0]
      <4>1. r.alloc = [pay[q].alloc EXCEPT ![b] = 0] /\ r.dir = pay[q].dir /\ r.amount = pay[q].amount /\ pay'[q] = r
        BY <2>2, <3>1, <3>2 DEF Payment
      <4> HIDE DEF r
      <4> QED BY <3>1, <4>1
    <3>3. CASE ~(q \in Standing(pay) /\ pay[q].alloc[b] > 0)
      BY <2>2, <3>1, <3>3
    <3> QED BY <3>2, <3>3
  <2>5. \A q \in Standing(pay) : pay'[q].alloc[b] = 0
    BY <2>4 DEF Standing
  <2> HIDE <1>6
  <2> QED BY <1>3, <1>4, <2>1, <2>2, <2>3, <2>4, <2>5, DocumentStep
<1> QED BY <1>1, <1>2, <1>5, <1>6

\* A step that changes payments, and the account and the advances by as much.
LEMMA PaymentStep ==
  ASSUME ReceivablesAssumption, IInv, Good(pay'), Fit(pay'), bill' = bill,
         \A q \in Standing(pay'), c \in Sales : bill[c].state # "open" => pay'[q].alloc[c] = 0,
         party' = party - (All(Moves(pay')) - All(Moves(pay))),
         paidAhead' = paidAhead + (All(Spares(pay')) - All(Spares(pay))),
         writtenOff' = writtenOff
  PROVE  Documents' /\ Booked' /\ party' \in Int /\ bill' \in [Bills -> Document] /\ writtenOff' \in Nat
<1>1. bill \in [Bills -> Document] /\ writtenOff \in Nat /\ party \in Int /\ paidAhead \in Nat
  BY DEF IInv, TypeOK, Document
<1>2. Documents'
  <2>1. Live' = Standing(pay')
    BY DEF Live, Standing
  <2> QED BY <2>1 DEF IInv, Documents
<1>3. ASSUME NEW py, Good(py) PROVE All(Moves(py)) \in Int /\ All(Spares(py)) \in Int
  <2>1. \A q \in Payments : Moves(py)[q] \in Int /\ Spares(py)[q] \in Int
    BY <1>3, SumsAreNumbers
  <2> QED BY <2>1, SumIsInt DEF All, ReceivablesAssumption
<1>4. All(Moves(pay)) \in Int /\ All(Spares(pay)) \in Int /\ All(Moves(pay')) \in Int /\ All(Spares(pay')) \in Int
  BY <1>3 DEF IInv
<1>5. SumOver(Worth(bill), Bills) \in Int
  <2>1. \A d \in Document : d.value \in Int
    BY DEF Document, ReceivablesAssumption
  <2>2. \A b \in Bills : Worth(bill)[b] \in Int
    BY <1>1, <2>1 DEF Worth
  <2> QED BY <2>2, BillsFinite, SumIsInt
<1>6. Booked'
  <2>1. party = SumOver(Worth(bill), Bills) - All(Moves(pay)) - writtenOff /\ paidAhead = All(Spares(pay))
    BY DEF IInv, Booked
  <2>2. party' = SumOver(Worth(bill), Bills) - All(Moves(pay')) - writtenOff'
    BY <1>1, <1>4, <1>5, <2>1
  <2>3. paidAhead' = All(Spares(pay'))
    BY <1>1, <1>4, <2>1
  <2> QED BY <2>2, <2>3 DEF Booked
<1>7. party' \in Int
  BY <1>1, <1>4
<1> QED BY <1>1, <1>2, <1>6, <1>7

\* A payment that is recorded.
LEMMA NewPayment ==
  ASSUME ReceivablesAssumption, IInv, NEW p \in Payments \ DOMAIN pay,
         NEW r \in Payment, Sound(r), r.state = "RECORDED", Total(r.alloc) <= r.amount,
         r.refundOf # None =>
           /\ r.refundOf \in Standing(pay) /\ pay[r.refundOf].dir = "RECEIPT"
           /\ r.amount <= Unallocated(r.refundOf) - Refunded(r.refundOf),
         \A c \in Sales : r.alloc[c] > 0 => bill[c].state = "open",
         New(p, r), bill' = bill, writtenOff' = writtenOff,
         party' = party - Moved(r), paidAhead' = paidAhead + Spare(r)
  PROVE  /\ Good(pay') /\ Fit(pay') /\ Documents' /\ Booked' /\ party' \in Int /\ bill' \in [Bills -> Document]
         /\ writtenOff' \in Nat /\ DOMAIN pay' = DOMAIN pay \cup {p} /\ pay'[p] = r
         /\ \A q \in DOMAIN pay : q \in DOMAIN pay' /\ pay'[q].dir = pay[q].dir /\ pay'[q].amount = pay[q].amount
<1>1. Good(pay) /\ Fit(pay) /\ party \in Int /\ paidAhead \in Nat
  BY DEF IInv, TypeOK
<1>2. pay' = [q \in DOMAIN pay \cup {p} |-> IF q = p THEN r ELSE pay[q]]
  BY DEF New
<1>3. r.refundOf # None => r.amount <= pay[r.refundOf].amount - Total(pay[r.refundOf].alloc) - All(Back(pay, r.refundOf))
  BY <1>1, RefundedIs DEF Unallocated
<1>4. /\ Good(pay') /\ Fit(pay')
      /\ All(Moves(pay')) = All(Moves(pay)) + Moved(r)
      /\ All(Spares(pay')) = All(Spares(pay)) + Spare(r)
      /\ All(Moves(pay)) \in Int /\ All(Spares(pay)) \in Int
  BY <1>1, <1>2, <1>3, AddsPayment
<1>5. Moved(r) \in Int /\ Spare(r) \in Int /\ r.alloc \in [Bills -> Nat]
  BY PaymentParts
<1>6. party' = party - (All(Moves(pay')) - All(Moves(pay))) /\ paidAhead' = paidAhead + (All(Spares(pay')) - All(Spares(pay)))
  BY <1>1, <1>4, <1>5
<1>7. DOMAIN pay' = DOMAIN pay \cup {p} /\ pay'[p] = r /\ \A q \in DOMAIN pay : pay'[q] = pay[q]
  BY <1>2
<1>8. \A q \in Standing(pay'), c \in Sales : bill[c].state # "open" => pay'[q].alloc[c] = 0
  <2> SUFFICES ASSUME NEW q \in Standing(pay'), NEW c \in Sales, bill[c].state # "open" PROVE pay'[q].alloc[c] = 0
    OBVIOUS
  <2>1. CASE q = p
    <3>1. c \in Bills BY DEF Bills
    <3> QED BY <1>5, <1>7, <2>1, <3>1
  <2>2. CASE q # p
    <3>1. q \in Standing(pay) /\ pay'[q] = pay[q]
      BY <1>7, <2>2 DEF Standing
    <3> QED BY <3>1, LiveIs DEF IInv, Documents
  <2> QED BY <2>1, <2>2
<1>9. Documents' /\ Booked' /\ party' \in Int /\ bill' \in [Bills -> Document] /\ writtenOff' \in Nat
  BY <1>4, <1>6, <1>8, PaymentStep
<1> QED BY <1>4, <1>7, <1>9

\* Money received: what a receipt must be for the invariant.
LEMMA ReceiptStep ==
  ASSUME ReceivablesAssumption, IInv, NEW p \in Payments, NEW n \in Amounts, NEW alloc \in [Bills -> 0..Value],
         NEW settle \in [Bills -> 0..Value], NEW cheque \in {"none", "PENDING"},
         Receipt(p, n, alloc, settle, cheque), UNCHANGED <<bill, writtenOff, paidAhead>>
  PROVE  /\ Good(pay') /\ Fit(pay') /\ Documents' /\ Booked' /\ party' \in Int /\ bill' \in [Bills -> Document]
         /\ writtenOff' \in Nat /\ p \notin DOMAIN pay /\ DOMAIN pay' = DOMAIN pay \cup {p}
         /\ pay'[p].dir = "RECEIPT" /\ pay'[p].amount = n
         /\ \A q \in DOMAIN pay : q \in DOMAIN pay' /\ pay'[q].dir = pay[q].dir /\ pay'[q].amount = pay[q].amount
<1> DEFINE r == [dir |-> "RECEIPT", amount |-> n, alloc |-> alloc, settle |-> settle, refundOf |-> None, ahead |-> FALSE,
                 state |-> "RECORDED", cheque |-> cheque]
<1>1. /\ p \notin DOMAIN pay /\ New(p, r) /\ party' = party - n - Total(settle)
      /\ \A b \in Bills : alloc[b] > 0 => b \in Side("RECEIPT") /\ bill[b].state = "open"
      /\ \A b \in Bills : settle[b] > 0 => b \in Sales
      /\ Total(alloc) <= n
  BY DEF Receipt, Fits
<1>2. r \in Payment
  BY DEF Payment
<1>3. /\ r.dir = "RECEIPT" /\ r.amount = n /\ r.alloc = alloc /\ r.settle = settle /\ r.refundOf = None /\ r.ahead = FALSE
      /\ r.state = "RECORDED"
  OBVIOUS
<1> HIDE DEF r
<1>4. Sound(r)
  BY <1>1, <1>3 DEF Sound
<1>5. Moved(r) = n + Total(settle) /\ Spare(r) = 0 /\ Total(settle) \in Nat /\ n \in Nat
  BY <1>2, <1>3, PaymentParts DEF Moved, Spare
<1>6. party' = party - Moved(r) /\ paidAhead' = paidAhead + Spare(r)
  BY <1>1, <1>5 DEF IInv, TypeOK
<1>7. \A c \in Sales : r.alloc[c] > 0 => bill[c].state = "open"
  BY <1>1, <1>3 DEF Bills
<1> QED BY <1>1, <1>2, <1>3, <1>4, <1>6, <1>7, NewPayment

\* Money paid back out of a receipt.
LEMMA RefundStep ==
  ASSUME ReceivablesAssumption, IInv, NEW p \in Payments, NEW q, NEW n \in Amounts,
         Refund(p, q, n), UNCHANGED <<bill, writtenOff, paidAhead>>
  PROVE  /\ Good(pay') /\ Fit(pay') /\ Documents' /\ Booked' /\ party' \in Int /\ bill' \in [Bills -> Document]
         /\ writtenOff' \in Nat /\ DOMAIN pay \subseteq DOMAIN pay'
         /\ \A o \in DOMAIN pay : o \in DOMAIN pay' /\ pay'[o].dir = pay[o].dir /\ pay'[o].amount = pay[o].amount
<1> DEFINE r == [dir |-> "PAYMENT", amount |-> n, alloc |-> Nothing, settle |-> Nothing, refundOf |-> q, ahead |-> FALSE,
                 state |-> "RECORDED", cheque |-> "none"]
<1>1. /\ p \notin DOMAIN pay /\ New(p, r) /\ party' = party + n /\ q \in Live
      /\ pay[q].dir = "RECEIPT" /\ n <= Unallocated(q) - Refunded(q)
  BY DEF Refund
<1>2. q \in Payments /\ q \in Standing(pay)
  BY <1>1, LiveIs DEF IInv, Good, Live
<1>3. r \in Payment
  BY <1>2, TotalOfNothing DEF Payment
<1>4. /\ r.dir = "PAYMENT" /\ r.amount = n /\ r.alloc = Nothing /\ r.settle = Nothing /\ r.refundOf = q /\ r.ahead = FALSE
      /\ r.state = "RECORDED"
  OBVIOUS
<1> HIDE DEF r
<1>5. Sound(r)
  BY <1>4 DEF Sound, Nothing
<1>6. Moved(r) = 0 - n /\ Spare(r) = 0 /\ n \in Nat /\ Total(r.alloc) <= r.amount
  BY <1>3, <1>4, TotalOfNothing, PaymentParts DEF Moved, Spare
<1>7. party' = party - Moved(r) /\ paidAhead' = paidAhead + Spare(r)
  BY <1>1, <1>6 DEF IInv, TypeOK
<1>8. \A c \in Sales : r.alloc[c] > 0 => bill[c].state = "open"
  BY <1>4 DEF Nothing, Bills
<1> QED BY <1>1, <1>2, <1>3, <1>4, <1>5, <1>6, <1>7, <1>8, NewPayment

LEMMA RecordPaymentIInv ==
  ASSUME ReceivablesAssumption, IInv, NEW p \in Payments, NEW n \in Amounts, NEW alloc \in [Bills -> 0..Value],
         RecordPayment(p, n, alloc)
  PROVE  IInv'
<1> DEFINE against == Total(alloc)
           r == [dir |-> "PAYMENT", amount |-> n, alloc |-> alloc, settle |-> Nothing, refundOf |-> None,
                 ahead |-> against < n, state |-> "RECORDED", cheque |-> "none"]
<1>1. /\ p \notin DOMAIN pay /\ New(p, r) /\ party' = party + against /\ paidAhead' = paidAhead + (n - against)
      /\ \A b \in Bills : alloc[b] > 0 => b \in Side("PAYMENT") /\ bill[b].state = "open"
      /\ against <= n /\ UNCHANGED <<bill, advance, proforma, writtenOff>>
  BY DEF RecordPayment, Fits, Untouched
<1>2. r \in Payment
  BY TotalOfNothing DEF Payment
<1>3. /\ r.dir = "PAYMENT" /\ r.amount = n /\ r.alloc = alloc /\ r.settle = Nothing /\ r.refundOf = None
      /\ r.ahead = (against < n) /\ r.state = "RECORDED"
  OBVIOUS
<1>4. against \in Nat /\ n \in Nat
  BY <1>2, <1>3, PaymentParts
<1> HIDE DEF r
<1>5. Sound(r)
  BY <1>1, <1>3 DEF Sound, Nothing
<1>6. Moved(r) = 0 - against /\ Spare(r) = n - against
  <2>1. CASE against < n
    BY <1>3, <2>1 DEF Moved, Spare
  <2>2. CASE ~(against < n)
    BY <1>1, <1>3, <1>4, <2>2 DEF Moved, Spare
  <2> QED BY <2>1, <2>2
<1>7. party' = party - Moved(r) /\ paidAhead' = paidAhead + Spare(r)
  <2>1. party \in Int BY DEF IInv, TypeOK
  <2> HIDE DEF against
  <2> QED BY <1>1, <1>4, <1>6, <2>1
<1>8. \A c \in Sales : r.alloc[c] > 0 => bill[c].state = "open"
  BY <1>1, <1>3 DEF Bills
<1>9. Total(r.alloc) <= r.amount
  BY <1>1, <1>3
<1>10. /\ Good(pay') /\ Fit(pay') /\ Documents' /\ Booked' /\ party' \in Int /\ bill' \in [Bills -> Document]
       /\ writtenOff' \in Nat
       /\ \A q \in DOMAIN pay : q \in DOMAIN pay' /\ pay'[q].dir = pay[q].dir /\ pay'[q].amount = pay[q].amount
  BY <1>1, <1>2, <1>3, <1>5, <1>7, <1>8, <1>9, NewPayment
<1> QED BY <1>1, <1>10, Holds

LEMMA RecordsIInv ==
  ASSUME ReceivablesAssumption, IInv, NEW p \in Payments, NEW n \in Amounts,
         \/ \E alloc \in [Bills -> 0..Value], settle \in [Bills -> 0..Value], cheque \in {"none", "PENDING"} :
              RecordReceipt(p, n, alloc, settle, cheque)
         \/ \E q : RefundReceipt(p, q, n)
  PROVE  IInv'
<1>1. ASSUME NEW alloc \in [Bills -> 0..Value], NEW settle \in [Bills -> 0..Value], NEW cheque \in {"none", "PENDING"},
             RecordReceipt(p, n, alloc, settle, cheque)
      PROVE  IInv'
  <2>1. Receipt(p, n, alloc, settle, cheque) /\ UNCHANGED <<bill, advance, proforma, writtenOff, paidAhead>>
    BY <1>1 DEF RecordReceipt, Untouched
  <2> QED BY <2>1, ReceiptStep, Holds
<1>2. ASSUME NEW q, RefundReceipt(p, q, n) PROVE IInv'
  <2>1. Refund(p, q, n) /\ UNCHANGED <<bill, advance, proforma, writtenOff, paidAhead>>
    BY <1>2 DEF RefundReceipt, Untouched
  <2> QED BY <2>1, RefundStep, Holds
<1> QED BY <1>1, <1>2

\* The advance and its receipt come together, and it is paid back out of it.
LEMMA AdvanceIInv ==
  ASSUME ReceivablesAssumption, IInv, NEW p \in Payments,
         (\E n \in Amounts : ReceiveAdvance(p, n)) \/ RefundAdvance(p)
  PROVE  IInv'
<1>0. Value \in Nat
  BY DEF ReceivablesAssumption
<1>1. ASSUME NEW n \in Amounts, ReceiveAdvance(p, n) PROVE IInv'
  <2>1. /\ Receipt(p, n, Nothing, Nothing, "none") /\ advance' = [of |-> p, applied |-> -1, refund |-> 0]
        /\ UNCHANGED <<bill, proforma, paidAhead, writtenOff>>
    BY <1>1 DEF ReceiveAdvance
  <2>2. /\ Good(pay') /\ Fit(pay') /\ Documents' /\ Booked' /\ party' \in Int /\ bill' \in [Bills -> Document]
        /\ writtenOff' \in Nat /\ DOMAIN pay' = DOMAIN pay \cup {p} /\ pay'[p].dir = "RECEIPT" /\ pay'[p].amount = n
    BY <2>1, TotalOfNothing, ReceiptStep
  <2>3. paidAhead' \in Nat
    BY <2>2, SparesLeft DEF Booked
  <2>4. advance'.of = p /\ advance'.applied = -1 /\ advance'.refund = 0
    BY <2>1
  <2>5. advance' \in [of : DOMAIN pay', applied : -1..Value, refund : 0..Value]
    <3>1. p \in DOMAIN pay' /\ -1 \in -1..Value /\ 0 \in 0..Value
      BY <1>0, <2>2
    <3> QED BY <2>1, <3>1
  <2>6. TypeOK'
    BY <2>1, <2>2, <2>3, <2>5 DEF TypeOK, IInv, Good, Document
  <2>7. AdvanceKept'
    <3>1. Max({-1, 0}) = 0 /\ n \in Nat
      BY MaxIs, <1>0 DEF Amounts
    <3> QED BY <2>2, <2>4, <3>1 DEF AdvanceKept
  <2> QED BY <2>2, <2>6, <2>7 DEF IInv
<1>2. ASSUME RefundAdvance(p) PROVE IInv'
  <2> DEFINE o == advance.of
             unused == pay[o].amount - Max({advance.applied, 0})
  <2>1. /\ advance # None /\ advance.refund = 0 /\ unused > 0 /\ Refund(p, o, unused)
        /\ advance' = [advance EXCEPT !.refund = unused] /\ UNCHANGED <<bill, proforma, paidAhead, writtenOff>>
    BY <1>2 DEF RefundAdvance
  <2>2. advance \in [of : DOMAIN pay, applied : -1..Value, refund : 0..Value]
    BY <2>1 DEF IInv, TypeOK
  <2>3. o \in DOMAIN pay /\ advance.applied \in Int /\ pay[o] \in Payment
    BY <1>0, <2>2 DEF IInv, Good
  <2>4. pay[o].amount \in Nat /\ pay[o].amount <= Value /\ Max({advance.applied, 0}) \in Nat
    BY <2>3, PaymentParts, MaxIs
  <2>5. unused \in Amounts /\ unused \in Nat
    <3> HIDE DEF o
    <3> QED BY <1>0, <2>1, <2>4 DEF Amounts
  <2>6. /\ Good(pay') /\ Fit(pay') /\ Documents' /\ Booked' /\ party' \in Int /\ bill' \in [Bills -> Document]
        /\ writtenOff' \in Nat /\ DOMAIN pay \subseteq DOMAIN pay'
        /\ pay'[o].dir = pay[o].dir /\ pay'[o].amount = pay[o].amount
    <3> HIDE DEF unused, o
    <3> QED BY <2>1, <2>3, <2>5, RefundStep
  <2>7. paidAhead' \in Nat
    BY <2>6, SparesLeft DEF Booked
  <2>8. /\ advance' \in [of : DOMAIN pay', applied : -1..Value, refund : 0..Value]
        /\ advance'.of = o /\ advance'.applied = advance.applied /\ advance'.refund = unused
    <3>1. unused \in 0..Value
      BY <1>0, <2>5 DEF Amounts
    <3> HIDE DEF unused
    <3> QED BY <2>1, <2>2, <2>6, <3>1
  <2>9. TypeOK'
    BY <2>1, <2>6, <2>7, <2>8 DEF TypeOK, IInv, Good, Document
  <2>10. AdvanceKept'
    <3>1. pay[o].dir = "RECEIPT"
      BY <2>1 DEF IInv, AdvanceKept
    <3>2. Max({advance.applied, 0}) + unused = pay[o].amount
      BY <2>4
    <3>3. pay'[advance'.of].dir = "RECEIPT" /\ pay'[advance'.of].amount = pay[o].amount
      BY <2>6, <2>8, <3>1
    <3> HIDE DEF unused, o
    <3> QED BY <2>4, <2>8, <3>2, <3>3 DEF AdvanceKept
  <2> QED BY <2>6, <2>9, <2>10 DEF IInv
<1> QED BY <1>1, <1>2

\* A payment that changes what it settles, or stops standing: what it did for
\* the account and the advances before is undone, what it does now is done.
LEMMA ReplaceStep ==
  ASSUME ReceivablesAssumption, IInv, NEW p \in DOMAIN pay,
         NEW r \in Payment, Sound(r), r.dir = pay[p].dir, r.refundOf = pay[p].refundOf,
         r.ahead = pay[p].ahead, r.amount = pay[p].amount,
         r.state = "RECORDED" => /\ p \in Standing(pay) /\ Total(r.alloc) + All(Back(pay, p)) <= r.amount
                                 /\ \A c \in Sales : bill[c].state # "open" => r.alloc[c] = 0,
         DOMAIN pay' = DOMAIN pay, pay'[p] = r, \A q \in DOMAIN pay \ {p} : pay'[q] = pay[q],
         party' = party + (IF p \in Standing(pay) THEN Moved(pay[p]) ELSE 0)
                        - (IF r.state = "RECORDED" THEN Moved(r) ELSE 0),
         paidAhead' = paidAhead - (IF p \in Standing(pay) THEN Spare(pay[p]) ELSE 0)
                                + (IF r.state = "RECORDED" THEN Spare(r) ELSE 0),
         UNCHANGED <<bill, writtenOff>>
  PROVE  /\ Good(pay') /\ Fit(pay') /\ Documents' /\ Booked' /\ party' \in Int /\ bill' \in [Bills -> Document]
         /\ writtenOff' \in Nat
         /\ \A q \in DOMAIN pay : q \in DOMAIN pay' /\ pay'[q].dir = pay[q].dir /\ pay'[q].amount = pay[q].amount
<1> DEFINE was == IF p \in Standing(pay) THEN Moved(pay[p]) ELSE 0
           now == IF r.state = "RECORDED" THEN Moved(r) ELSE 0
           had == IF p \in Standing(pay) THEN Spare(pay[p]) ELSE 0
           has == IF r.state = "RECORDED" THEN Spare(r) ELSE 0
<1>1. Good(pay) /\ Fit(pay) /\ pay[p] \in Payment /\ party \in Int /\ paidAhead \in Int
  BY DEF IInv, Good, TypeOK
<1>2. was \in Int /\ now \in Int /\ had \in Int /\ has \in Int
  BY <1>1, PaymentParts
<1>3. /\ Good(pay') /\ Fit(pay')
      /\ All(Moves(pay')) = All(Moves(pay)) - was + now
      /\ All(Spares(pay')) = All(Spares(pay)) - had + has
      /\ All(Moves(pay)) \in Int /\ All(Spares(pay)) \in Int
  BY <1>1, ReplacesPayment
<1>4. \A q \in Standing(pay'), c \in Sales : bill[c].state # "open" => pay'[q].alloc[c] = 0
  <2> TAKE q \in Standing(pay'), c \in Sales
  <2>1. CASE q = p
    BY <2>1 DEF Standing
  <2>2. CASE q # p
    <3>1. q \in Live
      BY <2>2 DEF Standing, Live
    <3> QED BY <2>2, <3>1 DEF IInv, Documents, Live
  <2> QED BY <2>1, <2>2
<1>5. party' = party + was - now /\ paidAhead' = paidAhead - had + has
  OBVIOUS
<1> HIDE DEF was, now, had, has
<1>6. party' = party - (All(Moves(pay')) - All(Moves(pay)))
  BY <1>1, <1>2, <1>3, <1>5
<1>7. paidAhead' = paidAhead + (All(Spares(pay')) - All(Spares(pay)))
  BY <1>1, <1>2, <1>3, <1>5
<1>8. Documents' /\ Booked' /\ party' \in Int /\ bill' \in [Bills -> Document] /\ writtenOff' \in Nat
  BY <1>3, <1>4, <1>6, <1>7, PaymentStep
<1> QED BY <1>3, <1>8

LEMMA AllocateIInv ==
  ASSUME ReceivablesAssumption, IInv, NEW p \in DOMAIN pay, NEW alloc \in [Bills -> 0..Value], Allocate(p, alloc)
  PROVE  IInv'
<1> DEFINE r == [pay[p] EXCEPT !.alloc = alloc]
<1>1. /\ p \in Live /\ ~pay[p].ahead
      /\ \A b \in Bills : alloc[b] > 0 => b \in Side(pay[p].dir) /\ bill[b].state = "open"
      /\ Total(alloc) <= pay[p].amount - Refunded(p)
      /\ pay' = [pay EXCEPT ![p].alloc = alloc]
      /\ UNCHANGED <<bill, advance, proforma, writtenOff, party, paidAhead>>
  BY DEF Allocate, Fits, Untouched
<1>2. Good(pay) /\ Fit(pay) /\ pay[p] \in Payment /\ Sound(pay[p]) /\ p \in Standing(pay)
  BY <1>1, LiveIs DEF IInv, Good
<1>3. r \in Payment
  BY <1>2 DEF Payment
<1>4. /\ r.dir = pay[p].dir /\ r.refundOf = pay[p].refundOf /\ r.ahead = pay[p].ahead /\ r.amount = pay[p].amount
      /\ r.settle = pay[p].settle /\ r.alloc = alloc /\ r.state = pay[p].state
      /\ DOMAIN pay' = DOMAIN pay /\ pay'[p] = r /\ \A q \in DOMAIN pay \ {p} : pay'[q] = pay[q]
  BY <1>1, <1>2 DEF Payment
<1> HIDE DEF r
<1>5. Sound(r)
  BY <1>1, <1>2, <1>4 DEF Sound
<1>6. r.state = "RECORDED"
  BY <1>2, <1>4 DEF Standing
<1>7. Total(r.alloc) + All(Back(pay, p)) <= r.amount
  <2>1. Total(r.alloc) \in Nat /\ r.amount \in Nat /\ All(Back(pay, p)) \in Nat
    BY <1>2, <1>3, PaymentParts, SumsAreNumbers
  <2>2. Refunded(p) = All(Back(pay, p))
    BY <1>2, RefundedIs
  <2> QED BY <1>1, <1>4, <2>1, <2>2
<1>8. \A c \in Sales : bill[c].state # "open" => r.alloc[c] = 0
  <2> TAKE c \in Sales
  <2>1. c \in Bills /\ alloc[c] \in Nat
    BY DEF Bills, ReceivablesAssumption
  <2> QED BY <1>1, <1>4, <2>1
<1>9. Moved(r) = Moved(pay[p]) /\ Spare(r) = Spare(pay[p]) /\ Moved(r) \in Int /\ Spare(r) \in Int
      /\ party \in Int /\ paidAhead \in Int
  <2>1. Moved(r) \in Int /\ Spare(r) \in Int
    BY <1>3, PaymentParts
  <2>2. Moved(r) = Moved(pay[p])
    BY <1>1, <1>4 DEF Moved
  <2>3. Spare(r) = Spare(pay[p])
    BY <1>1, <1>4 DEF Spare
  <2> QED BY <2>1, <2>2, <2>3 DEF IInv, TypeOK
<1>10. /\ party' = party + (IF p \in Standing(pay) THEN Moved(pay[p]) ELSE 0) - (IF r.state = "RECORDED" THEN Moved(r) ELSE 0)
       /\ paidAhead' = paidAhead - (IF p \in Standing(pay) THEN Spare(pay[p]) ELSE 0)
                                 + (IF r.state = "RECORDED" THEN Spare(r) ELSE 0)
  BY <1>1, <1>2, <1>6, <1>9
<1>11. /\ Good(pay') /\ Fit(pay') /\ Documents' /\ Booked' /\ party' \in Int /\ bill' \in [Bills -> Document]
       /\ writtenOff' \in Nat
       /\ \A q \in DOMAIN pay : q \in DOMAIN pay' /\ pay'[q].dir = pay[q].dir /\ pay'[q].amount = pay[q].amount
  BY <1>1, <1>2, <1>3, <1>4, <1>5, <1>7, <1>8, <1>10, ReplaceStep
<1> QED BY <1>1, <1>11, Holds

LEMMA UndoIInv ==
  ASSUME ReceivablesAssumption, IInv, NEW p \in DOMAIN pay,
         NEW cheque \in {"none", "PENDING", "DEPOSITED", "CLEARED", "BOUNCED", "CANCELLED"}, Undo(p, cheque)
  PROVE  IInv'
<1> DEFINE r == [pay[p] EXCEPT !.state = "REVERSED", !.alloc = Nothing, !.settle = Nothing, !.cheque = cheque]
<1>1. /\ p \in Live /\ ~(pay[p].ahead /\ Total(pay[p].alloc) > 0)
      /\ pay' = [pay EXCEPT ![p].state = "REVERSED", ![p].alloc = Nothing, ![p].settle = Nothing, ![p].cheque = cheque]
      /\ party' = party + (IF pay[p].dir = "RECEIPT" THEN pay[p].amount + Total(pay[p].settle)
                           ELSE IF pay[p].ahead THEN 0 ELSE -pay[p].amount)
      /\ paidAhead' = paidAhead - (IF pay[p].ahead THEN pay[p].amount ELSE 0)
      /\ UNCHANGED <<bill, advance, proforma, writtenOff>>
  BY DEF Undo, Untouched
<1>2. Good(pay) /\ Fit(pay) /\ pay[p] \in Payment /\ Sound(pay[p]) /\ p \in Standing(pay)
  BY <1>1, LiveIs DEF IInv, Good
<1>3. r \in Payment
  BY <1>2, TotalOfNothing DEF Payment
<1>4. /\ r.dir = pay[p].dir /\ r.refundOf = pay[p].refundOf /\ r.ahead = pay[p].ahead /\ r.amount = pay[p].amount
      /\ r.settle = Nothing /\ r.alloc = Nothing /\ r.state = "REVERSED"
      /\ DOMAIN pay' = DOMAIN pay /\ pay'[p] = r /\ \A q \in DOMAIN pay \ {p} : pay'[q] = pay[q]
  BY <1>1, <1>2 DEF Payment
<1> HIDE DEF r
<1>5. Sound(r)
  BY <1>2, <1>4 DEF Sound, Nothing
<1>6. /\ pay[p].amount \in Nat /\ Total(pay[p].alloc) \in Nat /\ Total(pay[p].settle) \in Nat
      /\ party \in Int /\ paidAhead \in Int
  BY <1>2, PaymentParts DEF IInv, TypeOK
<1>7. /\ Moved(pay[p]) = (IF pay[p].dir = "RECEIPT" THEN pay[p].amount + Total(pay[p].settle)
                          ELSE IF pay[p].ahead THEN 0 ELSE 0 - pay[p].amount)
      /\ Spare(pay[p]) = (IF pay[p].ahead THEN pay[p].amount ELSE 0)
  <2>1. pay[p].ahead => Total(pay[p].alloc) = 0
    BY <1>1, <1>6
  <2>2. Moved(pay[p]) = (IF pay[p].dir = "RECEIPT" THEN pay[p].amount + Total(pay[p].settle)
                         ELSE IF pay[p].ahead THEN 0 ELSE 0 - pay[p].amount)
    BY <1>6, <2>1 DEF Moved
  <2>3. Spare(pay[p]) = (IF pay[p].ahead THEN pay[p].amount ELSE 0)
    BY <1>6, <2>1 DEF Spare
  <2> QED BY <2>2, <2>3
<1>8. Moved(pay[p]) \in Int /\ Spare(pay[p]) \in Int
  BY <1>2, PaymentParts
<1>9. party' = party + Moved(pay[p]) /\ paidAhead' = paidAhead - Spare(pay[p])
  BY <1>1, <1>6, <1>7
<1>10. /\ party' = party + (IF p \in Standing(pay) THEN Moved(pay[p]) ELSE 0) - (IF r.state = "RECORDED" THEN Moved(r) ELSE 0)
       /\ paidAhead' = paidAhead - (IF p \in Standing(pay) THEN Spare(pay[p]) ELSE 0)
                                 + (IF r.state = "RECORDED" THEN Spare(r) ELSE 0)
  BY <1>2, <1>4, <1>6, <1>8, <1>9
<1>11. /\ Good(pay') /\ Fit(pay') /\ Documents' /\ Booked' /\ party' \in Int /\ bill' \in [Bills -> Document]
       /\ writtenOff' \in Nat
       /\ \A q \in DOMAIN pay : q \in DOMAIN pay' /\ pay'[q].dir = pay[q].dir /\ pay'[q].amount = pay[q].amount
  BY <1>1, <1>2, <1>3, <1>4, <1>5, <1>10, ReplaceStep
<1> QED BY <1>1, <1>11, Holds

LEMMA ChequesIInv ==
  ASSUME ReceivablesAssumption, IInv, NEW p \in DOMAIN pay,
         \/ ReversePayment(p)
         \/ \E to \in {"DEPOSITED", "CLEARED", "BOUNCED", "CANCELLED"} : ChequeEvent(p, to)
  PROVE  IInv'
<1>1. Good(pay) /\ Fit(pay) /\ pay[p] \in Payment /\ Sound(pay[p])
  BY DEF IInv, Good
<1>2. CASE ReversePayment(p)
  <2>1. pay[p].cheque \in {"none", "PENDING", "DEPOSITED", "CLEARED", "BOUNCED", "CANCELLED"}
    BY <1>1 DEF Payment
  <2> QED BY <1>2, <2>1, UndoIInv DEF ReversePayment
<1>3. ASSUME NEW to \in {"DEPOSITED", "CLEARED", "BOUNCED", "CANCELLED"}, ChequeEvent(p, to) PROVE IInv'
  <2>1. CASE to = "BOUNCED"
    <3>1. Undo(p, to)
      BY <1>3, <2>1 DEF ChequeEvent
    <3> QED BY <3>1, UndoIInv
  <2>2. CASE to # "BOUNCED"
    <3> DEFINE r == [pay[p] EXCEPT !.cheque = to]
    <3>1. pay' = [pay EXCEPT ![p].cheque = to] /\ UNCHANGED <<bill, advance, proforma, writtenOff, party, paidAhead>>
      BY <1>3, <2>2 DEF ChequeEvent, Untouched
    <3>2. r \in Payment
      BY <1>1 DEF Payment
    <3>3. /\ r.dir = pay[p].dir /\ r.refundOf = pay[p].refundOf /\ r.ahead = pay[p].ahead /\ r.amount = pay[p].amount
          /\ r.settle = pay[p].settle /\ r.alloc = pay[p].alloc /\ r.state = pay[p].state
          /\ DOMAIN pay' = DOMAIN pay /\ pay'[p] = r /\ \A q \in DOMAIN pay \ {p} : pay'[q] = pay[q]
      BY <1>1, <3>1 DEF Payment
    <3> HIDE DEF r
    <3>4. Sound(r) /\ Moved(r) = Moved(pay[p]) /\ Spare(r) = Spare(pay[p])
      BY <1>1, <3>3 DEF Sound, Moved, Spare
    <3>5. r.state = "RECORDED" <=> p \in Standing(pay)
      BY <3>3 DEF Standing
    <3>6. r.state = "RECORDED" => /\ p \in Standing(pay) /\ Total(r.alloc) + All(Back(pay, p)) <= r.amount
                                  /\ \A c \in Sales : bill[c].state # "open" => r.alloc[c] = 0
      BY <1>1, <3>3, <3>5, LiveIs DEF Fit, IInv, Documents
    <3>7. Moved(r) \in Int /\ Spare(r) \in Int /\ party \in Int /\ paidAhead \in Int
      BY <3>2, PaymentParts DEF IInv, TypeOK
    <3>8. /\ party' = party + (IF p \in Standing(pay) THEN Moved(pay[p]) ELSE 0)
                            - (IF r.state = "RECORDED" THEN Moved(r) ELSE 0)
          /\ paidAhead' = paidAhead - (IF p \in Standing(pay) THEN Spare(pay[p]) ELSE 0)
                                    + (IF r.state = "RECORDED" THEN Spare(r) ELSE 0)
      BY <3>1, <3>4, <3>5, <3>7
    <3>9. /\ Good(pay') /\ Fit(pay') /\ Documents' /\ Booked' /\ party' \in Int /\ bill' \in [Bills -> Document]
          /\ writtenOff' \in Nat
          /\ \A q \in DOMAIN pay : q \in DOMAIN pay' /\ pay'[q].dir = pay[q].dir /\ pay'[q].amount = pay[q].amount
      BY <3>1, <3>2, <3>3, <3>4, <3>6, <3>8, ReplaceStep
    <3> QED BY <3>1, <3>9, Holds
  <2> QED BY <2>1, <2>2
<1> QED BY <1>2, <1>3

LEMMA WriteOffIInv ==
  ASSUME ReceivablesAssumption, IInv, NEW n \in Amounts, WriteOff(n)
  PROVE  IInv'
<1>1. writtenOff' = writtenOff + n /\ party' = party - n /\ UNCHANGED <<bill, pay, advance, proforma, paidAhead>>
  BY DEF WriteOff
<1>2. n \in Nat /\ party \in Int /\ writtenOff \in Nat /\ bill \in [Bills -> Document] /\ Good(pay) /\ Fit(pay)
  BY DEF Amounts, ReceivablesAssumption, IInv, TypeOK, Document
<1>3. All(Moves(pay)) \in Int /\ SumOver(Worth(bill), Bills) \in Int
  <2>1. \A q \in Payments : Moves(pay)[q] \in Int
    BY <1>2, SumsAreNumbers
  <2>2. \A d \in Document : d.value \in Int
    BY DEF Document, ReceivablesAssumption
  <2>3. \A b \in Bills : Worth(bill)[b] \in Int
    BY <1>2, <2>2 DEF Worth
  <2> QED BY <2>1, <2>3, BillsFinite, SumIsInt DEF All, ReceivablesAssumption
<1>4. Booked'
  BY <1>1, <1>2, <1>3 DEF IInv, Booked
<1>5. Documents'
  BY <1>1 DEF IInv, Documents, Live
<1>6. Good(pay') /\ Fit(pay') /\ writtenOff' \in Nat /\ party' \in Int /\ bill' \in [Bills -> Document]
  BY <1>1, <1>2
<1> QED BY <1>1, <1>4, <1>5, <1>6, Holds

LEMMA UseAdvanceIInv ==
  ASSUME ReceivablesAssumption, IInv, NEW b \in Purchases, NEW n \in Amounts, NEW takes \in [DOMAIN pay -> 0..Value],
         UseAdvance(b, n, takes)
  PROVE  IInv'
<1> DEFINE ahead == {q \in Live : pay[q].ahead}
           T == [q \in ahead |-> takes[q]]
           taken == Total(T)
<1>1. /\ \A q \in ahead : pay[q].alloc[b] = 0 /\ takes[q] <= Unallocated(q)
      /\ pay' = [q \in DOMAIN pay |-> IF q \in ahead THEN [pay[q] EXCEPT !.alloc[b] = @ + takes[q]] ELSE pay[q]]
      /\ party' = party + taken /\ paidAhead' = paidAhead - taken
      /\ UNCHANGED <<bill, advance, proforma, writtenOff>>
  BY DEF UseAdvance, Untouched
<1>2. Good(pay) /\ Fit(pay) /\ party \in Int /\ paidAhead \in Int /\ Value \in Nat
  BY DEF IInv, TypeOK, ReceivablesAssumption
<1>3. ahead = {q \in Standing(pay) : pay[q].ahead} /\ DOMAIN T = ahead
  BY LiveIs
<1>4. \A q \in ahead : /\ T[q] = takes[q] /\ T[q] \in Nat /\ pay[q].alloc[b] = 0 /\ T[q] <= pay[q].amount - Total(pay[q].alloc)
                       /\ pay[q].alloc[b] + takes[q] = T[q]
  BY <1>1, <1>2 DEF Live, Unallocated
<1>5. /\ DOMAIN pay' = DOMAIN pay
      /\ \A q \in DOMAIN pay : pay'[q] = IF q \in ahead THEN [pay[q] EXCEPT !.alloc[b] = @ + takes[q]] ELSE pay[q]
  BY <1>1
<1>6. /\ Good(pay') /\ Fit(pay') /\ Standing(pay') = Standing(pay) /\ taken \in Nat
      /\ All(Moves(pay')) = All(Moves(pay)) - taken /\ All(Spares(pay')) = All(Spares(pay)) - taken
      /\ All(Moves(pay)) \in Int /\ All(Spares(pay)) \in Int
  <2> HIDE DEF ahead, T
  <2>1. \A q \in DOMAIN pay : pay'[q] = IF q \in ahead THEN [pay[q] EXCEPT !.alloc[b] = T[q]] ELSE pay[q]
    BY <1>4, <1>5
  <2>2. Takes(pay, pay', b, ahead, T)
    BY <1>3, <1>4, <1>5, <2>1 DEF Takes
  <2> QED BY <1>2, <2>2, TakesAhead
<1>7. ASSUME NEW q \in DOMAIN pay
      PROVE  /\ pay'[q].dir = pay[q].dir /\ pay'[q].amount = pay[q].amount
             /\ \A c \in Sales : pay'[q].alloc[c] = pay[q].alloc[c]
  <2>1. pay[q] \in Payment /\ pay[q].alloc \in [Bills -> Nat] /\ Sales \subseteq Bills /\ b \notin Sales /\ b \in Bills
    BY <1>2, PaymentParts DEF Good, Bills, ReceivablesAssumption
  <2>2. CASE q \in ahead
    <3> DEFINE r == [pay[q] EXCEPT !.alloc[b] = @ + takes[q]]
    <3>1. /\ r.alloc = [pay[q].alloc EXCEPT ![b] = @ + takes[q]] /\ r.dir = pay[q].dir /\ r.amount = pay[q].amount
          /\ pay'[q] = r
      BY <1>5, <2>1, <2>2 DEF Payment
    <3> HIDE DEF r, ahead
    <3> QED BY <2>1, <3>1
  <2>3. CASE q \notin ahead
    BY <1>5, <2>3
  <2> QED BY <2>2, <2>3
<1>8. \A q \in Standing(pay'), c \in Sales : bill[c].state # "open" => pay'[q].alloc[c] = 0
  <2> TAKE q \in Standing(pay'), c \in Sales
  <2>1. q \in Live /\ q \in DOMAIN pay
    BY <1>6, LiveIs DEF Live
  <2> QED BY <1>7, <2>1 DEF IInv, Documents
<1>9. party' = party - (All(Moves(pay')) - All(Moves(pay))) /\ paidAhead' = paidAhead + (All(Spares(pay')) - All(Spares(pay)))
  <2> HIDE DEF taken
  <2> QED BY <1>1, <1>2, <1>6
<1>10. Documents' /\ Booked' /\ party' \in Int /\ bill' \in [Bills -> Document] /\ writtenOff' \in Nat
  BY <1>1, <1>6, <1>8, <1>9, PaymentStep
<1> QED BY <1>1, <1>5, <1>6, <1>7, <1>10, Holds

LEMMA LeastOf ==
  ASSUME NEW a \in Int, NEW u \in Nat
  PROVE  Min({Max({a, 0}), u}) \in Nat /\ Min({Max({a, 0}), u}) <= u
<1>1. Max({a, 0}) \in Nat
  BY MaxIs
<1> DEFINE m == Max({a, 0})
<1> HIDE DEF m
<1>2. m \in Int /\ m >= 0
  BY <1>1 DEF m
<1>3. Min({m, u}) \in {m, u} /\ Min({m, u}) <= u
  BY <1>2, MinIs
<1> QED BY <1>2, <1>3 DEF m

\* What is owed on a bill is a number.
LEMMA OwedIsNumber ==
  ASSUME ReceivablesAssumption, IInv, NEW b \in Bills
  PROVE  Owed(b, Live) \in Int
<1> DEFINE f == [q \in Live |-> pay[q].alloc[b] + pay[q].settle[b]]
<1>1. \A q \in Live : q \in Payments /\ f[q] \in Int
  <2> TAKE q \in Live
  <2>1. q \in Payments /\ pay[q] \in Payment
    BY DEF IInv, Good, Live
  <2>2. pay[q].alloc \in [Bills -> Nat] /\ pay[q].settle \in [Bills -> Nat]
    BY <2>1, PaymentParts
  <2> QED BY <2>1, <2>2
<1>2. IsFiniteSet(Live) /\ DOMAIN f = Live
  BY <1>1, FS_Subset DEF ReceivablesAssumption
<1>3. On(b, Live) = Total(f)
  BY DEF On
<1> HIDE DEF f
<1>4. On(b, Live) \in Int
  <2>1. Total(f) = SumOver(f, Live)
    BY <1>2, TotalIs
  <2> QED BY <1>1, <1>2, <1>3, <2>1, SumIsInt
<1>5. bill[b].value \in Int
  BY DEF IInv, TypeOK, ReceivablesAssumption
<1> QED BY <1>4, <1>5 DEF Owed

LEMMA LinkIInv ==
  ASSUME ReceivablesAssumption, IInv, NEW b \in Bills, Link(b)
  PROVE  IInv'
<1> DEFINE p == advance.of
           applied == Min({Max({Owed(b, Live), 0}), Unallocated(p)})
           found == advance # None /\ (advance # None => advance.refund = 0 /\ p \in Live)
<1>1. /\ b \in Sales /\ bill[b].state = "open" /\ proforma' = b /\ UNCHANGED <<bill, party, paidAhead, writtenOff>>
      /\ found => /\ applied + Total(pay[p].alloc) <= pay[p].amount - Refunded(p)
                  /\ advance' = [advance EXCEPT !.applied = IF pay[p].alloc[b] > 0 THEN pay[p].alloc[b] ELSE applied]
                  /\ pay' = IF pay[p].alloc[b] > 0 THEN pay ELSE [pay EXCEPT ![p].alloc[b] = applied]
      /\ ~found => UNCHANGED <<advance, pay>>
  BY DEF Link
<1>2. /\ Good(pay) /\ Fit(pay) /\ Value \in Nat /\ bill \in [Bills -> Document] /\ party \in Int
      /\ paidAhead \in Nat /\ writtenOff \in Nat /\ \A q \in DOMAIN pay : pay[q] \in Payment
  BY DEF IInv, TypeOK, ReceivablesAssumption, Document, Good
<1>3. CASE UNCHANGED <<advance, pay>>
  <2>1. TypeOK'
    BY <1>1, <1>3 DEF IInv, TypeOK
  <2>2. Good(pay') /\ Fit(pay') /\ Documents' /\ Booked' /\ AdvanceKept'
    BY <1>1, <1>3 DEF IInv, Documents, Booked, AdvanceKept, Live
  <2> QED BY <2>1, <2>2 DEF IInv
<1>4. CASE found
  <2>1. /\ advance \in [of : DOMAIN pay, applied : -1..Value, refund : 0..Value] /\ advance.refund = 0 /\ p \in Standing(pay)
        /\ p \in DOMAIN pay /\ pay[p].dir = "RECEIPT"
    BY <1>4, LiveIs DEF IInv, TypeOK, AdvanceKept
  <2>2. /\ pay[p] \in Payment /\ Sound(pay[p]) /\ pay[p].alloc \in [Bills -> Nat] /\ pay[p].amount \in Nat
        /\ pay[p].amount <= Value /\ Total(pay[p].alloc) \in Nat /\ pay[p].alloc[b] <= Total(pay[p].alloc)
        /\ pay[p].alloc[b] \in Nat
    BY <1>2, <2>1, PaymentParts, TotalBounds DEF Good
  <2>3. Refunded(p) = All(Back(pay, p)) /\ All(Back(pay, p)) \in Nat /\ Total(pay[p].alloc) + All(Back(pay, p)) <= pay[p].amount
    BY <1>2, <2>1, RefundedIs, SumsAreNumbers DEF Fit
  <2>4. Unallocated(p) = pay[p].amount - Total(pay[p].alloc) /\ Unallocated(p) \in Nat /\ Unallocated(p) <= pay[p].amount
    <3> HIDE DEF p
    <3> QED BY <2>2, <2>3 DEF Unallocated
  <2>5. applied \in Nat /\ applied <= pay[p].amount
    <3>1. Owed(b, Live) \in Int
      BY OwedIsNumber
    <3>2. applied \in Nat /\ applied <= Unallocated(p)
      BY <2>4, <3>1, LeastOf
    <3> HIDE DEF applied, p
    <3> QED BY <2>2, <2>4, <3>2
  <2> DEFINE takes == IF pay[p].alloc[b] > 0 THEN pay[p].alloc[b] ELSE applied
  <2>6. /\ takes \in Nat /\ takes <= pay[p].amount /\ takes \in -1..Value
        /\ advance' = [advance EXCEPT !.applied = takes]
        /\ Total(pay[p].alloc) <= pay[p].amount
    <3>1. /\ advance' = [advance EXCEPT !.applied = takes]
      BY <1>1, <1>4
    <3> HIDE DEF applied, p
    <3>2. Total(pay[p].alloc) <= pay[p].amount
      BY <2>2, <2>3
    <3>3. takes \in Nat /\ takes <= pay[p].amount /\ takes \in -1..Value
      BY <1>2, <2>2, <2>5, <3>2
    <3> QED BY <3>1, <3>2, <3>3
  <2>7. advance'.of = p /\ advance'.applied = takes /\ advance'.refund = 0
    <3> HIDE DEF takes
    <3> QED BY <2>1, <2>6
  <2>8. /\ Good(pay') /\ Fit(pay') /\ Documents' /\ Booked' /\ DOMAIN pay' = DOMAIN pay
        /\ pay'[p].dir = pay[p].dir /\ pay'[p].amount = pay[p].amount
    <3>1. CASE pay[p].alloc[b] > 0
      <4>1. UNCHANGED <<pay, bill, party, paidAhead, writtenOff>>
        BY <1>1, <1>4, <3>1
      <4> QED BY <4>1 DEF IInv, Documents, Booked, Live
    <3>2. CASE ~(pay[p].alloc[b] > 0)
      <4> DEFINE r == [pay[p] EXCEPT !.alloc[b] = applied]
      <4>1. pay[p].alloc[b] = 0 /\ pay' = [pay EXCEPT ![p].alloc[b] = applied]
        BY <1>1, <1>4, <2>2, <3>2
      <4>2. applied + Total(pay[p].alloc) <= pay[p].amount - Refunded(p)
        BY <1>1, <1>4
      <4> HIDE DEF applied, p, takes, found
      <4>3. /\ r.alloc = [pay[p].alloc EXCEPT ![b] = applied] /\ r.settle = pay[p].settle /\ r.dir = pay[p].dir
            /\ r.amount = pay[p].amount /\ r.state = pay[p].state /\ r.refundOf = pay[p].refundOf /\ r.ahead = pay[p].ahead
            /\ DOMAIN pay' = DOMAIN pay /\ pay'[p] = r /\ \A q \in DOMAIN pay \ {p} : pay'[q] = pay[q]
        BY <2>1, <2>2, <4>1 DEF Payment
      <4>4. r \in Payment
        <5>1. r = [pay[p] EXCEPT !.alloc = r.alloc]
          BY <2>2, <4>3 DEF Payment
        <5>2. r.alloc \in [Bills -> 0..Value]
          <6>1. pay[p].alloc \in [Bills -> 0..Value] BY <2>2 DEF Payment
          <6>2. applied \in 0..Value BY <1>2, <2>2, <2>5
          <6> HIDE DEF r
          <6> QED BY <4>3, <6>1, <6>2
        <5> HIDE DEF r
        <5> QED BY <2>2, <5>1, <5>2 DEF Payment
      <4> HIDE DEF r
      <4>5. Sound(r)
        <5>1. \A c \in Bills : r.alloc[c] > 0 => pay[p].alloc[c] > 0 \/ c = b
          BY <2>2, <4>3
        <5>2. b \in Side(r.dir)
          BY <1>1, <2>1, <4>3 DEF Side
        <5> QED BY <2>2, <4>3, <5>1, <5>2 DEF Sound
      <4>6. r.state = "RECORDED"
        BY <2>1, <4>3 DEF Standing
      <4>7. Total(r.alloc) = Total(pay[p].alloc) - 0 + applied
        <5>1. Total([pay[p].alloc EXCEPT ![b] = applied]) = Total(pay[p].alloc) - pay[p].alloc[b] + applied
          BY <2>2, <2>5, TotalChanges
        <5> QED BY <4>1, <4>3, <5>1
      <4>8. Total(r.alloc) + All(Back(pay, p)) <= r.amount
        BY <2>2, <2>3, <2>5, <4>2, <4>3, <4>7
      <4>9. \A c \in Sales : bill[c].state # "open" => r.alloc[c] = 0
        <5> TAKE c \in Sales
        <5>1. c \in Bills /\ (c # b => r.alloc[c] = pay[p].alloc[c])
          BY <2>2, <4>3 DEF Bills
        <5>2. p \in Live
          BY <2>1, LiveIs
        <5> QED BY <1>1, <5>1, <5>2 DEF IInv, Documents
      <4>10. Moved(r) = Moved(pay[p]) /\ Spare(r) = Spare(pay[p]) /\ Moved(r) \in Int /\ Spare(r) \in Int
        <5>1. Moved(r) \in Int /\ Spare(r) \in Int
          BY <4>4, PaymentParts
        <5>2. ~pay[p].ahead
          BY <2>1, <2>2 DEF Sound
        <5>3. Moved(r) = Moved(pay[p]) /\ Spare(r) = Spare(pay[p])
          BY <2>1, <4>3, <5>2 DEF Moved, Spare
        <5> QED BY <5>1, <5>3
      <4>11. /\ party' = party + (IF p \in Standing(pay) THEN Moved(pay[p]) ELSE 0) - (IF r.state = "RECORDED" THEN Moved(r) ELSE 0)
             /\ paidAhead' = paidAhead - (IF p \in Standing(pay) THEN Spare(pay[p]) ELSE 0)
                                       + (IF r.state = "RECORDED" THEN Spare(r) ELSE 0)
        BY <1>1, <1>2, <2>1, <4>6, <4>10
      <4>12. /\ Good(pay') /\ Fit(pay') /\ Documents' /\ Booked'
             /\ \A q \in DOMAIN pay : q \in DOMAIN pay' /\ pay'[q].dir = pay[q].dir /\ pay'[q].amount = pay[q].amount
        BY <1>1, <2>1, <4>3, <4>4, <4>5, <4>8, <4>9, <4>11, ReplaceStep
      <4> QED BY <2>1, <4>3, <4>12
    <3> QED BY <3>1, <3>2
  <2>9. TypeOK'
    <3>1. advance' \in [of : DOMAIN pay', applied : -1..Value, refund : 0..Value]
      <4> HIDE DEF takes, p
      <4> QED BY <2>1, <2>6, <2>8
    <3> QED BY <1>1, <1>2, <2>8, <3>1 DEF TypeOK, Good, Document
  <2>10. AdvanceKept'
    <3>1. Max({takes, 0}) = IF takes > 0 THEN takes ELSE 0
      BY <2>6, MaxIs
    <3> HIDE DEF takes, p
    <3>2. Max({takes, 0}) + 0 <= pay[p].amount
      BY <2>6, <3>1
    <3> QED BY <2>1, <2>7, <2>8, <3>2 DEF AdvanceKept
  <2> QED BY <2>8, <2>9, <2>10 DEF IInv
<1>5. found \/ ~found
  OBVIOUS
<1> HIDE DEF found
<1> QED BY <1>1, <1>3, <1>4, <1>5

LEMMA NextIInv == ReceivablesAssumption /\ IInv /\ [Next]_vars => IInv'
<1> SUFFICES ASSUME ReceivablesAssumption, IInv, [Next]_vars PROVE IInv'
  OBVIOUS
<1>1. CASE UNCHANGED vars
  BY <1>1 DEF vars, IInv, TypeOK, Documents, Booked, AdvanceKept, Live
<1>2. ASSUME NEW b \in Bills, Issue(b) \/ Return(b) \/ CancelSale(b) \/ ReversePurchase(b) \/ Link(b) PROVE IInv'
  BY <1>2, DocumentsIInv, LinkIInv
<1>3. \A bills : Splits(bills) \subseteq [Bills -> 0..Value]
  BY DEF Splits
<1>4. ASSUME NEW p \in Payments \ DOMAIN pay, NEW n \in Amounts,
             \/ \E alloc \in Splits(Sales), settle \in Splits(IF "settlements" \in Kinds THEN Sales ELSE {}),
                   cheque \in IF "cheques" \in Kinds THEN {"none", "PENDING"} ELSE {"none"} :
                  RecordReceipt(p, n, alloc, settle, cheque)
             \/ \E alloc \in Splits(Purchases) : RecordPayment(p, n, alloc)
             \/ \E q \in DOMAIN pay : RefundReceipt(p, q, n)
             \/ ReceiveAdvance(p, n)
      PROVE  IInv'
  <2>1. ASSUME NEW alloc \in Splits(Sales), NEW settle \in Splits(IF "settlements" \in Kinds THEN Sales ELSE {}),
               NEW cheque \in IF "cheques" \in Kinds THEN {"none", "PENDING"} ELSE {"none"},
               RecordReceipt(p, n, alloc, settle, cheque)
        PROVE  IInv'
    <3>1. alloc \in [Bills -> 0..Value] /\ settle \in [Bills -> 0..Value] /\ cheque \in {"none", "PENDING"}
      BY <1>3
    <3> QED BY <2>1, <3>1, RecordsIInv
  <2>2. ASSUME NEW alloc \in Splits(Purchases), RecordPayment(p, n, alloc) PROVE IInv'
    BY <1>3, <2>2, RecordPaymentIInv
  <2>3. ASSUME NEW q \in DOMAIN pay, RefundReceipt(p, q, n) PROVE IInv'
    BY <2>3, RecordsIInv
  <2>4. ASSUME ReceiveAdvance(p, n) PROVE IInv'
    BY <2>4, AdvanceIInv
  <2> QED BY <1>4, <2>1, <2>2, <2>3, <2>4
<1>5. ASSUME NEW p \in Payments \ DOMAIN pay, RefundAdvance(p) PROVE IInv'
  BY <1>5, AdvanceIInv
<1>6. ASSUME NEW p \in DOMAIN pay,
             \/ \E alloc \in Splits(Side(pay[p].dir)) : Allocate(p, alloc)
             \/ ReversePayment(p)
             \/ \E to \in {"DEPOSITED", "CLEARED", "BOUNCED", "CANCELLED"} : ChequeEvent(p, to)
      PROVE  IInv'
  <2>1. ASSUME NEW alloc \in Splits(Side(pay[p].dir)), Allocate(p, alloc) PROVE IInv'
    BY <1>3, <2>1, AllocateIInv
  <2> QED BY <1>6, <2>1, ChequesIInv
<1>7. ASSUME NEW n \in Amounts, WriteOff(n) PROVE IInv'
  BY <1>7, WriteOffIInv
<1>8. ASSUME NEW b \in Purchases, NEW n \in Amounts, NEW takes \in [DOMAIN pay -> 0..Value], UseAdvance(b, n, takes)
      PROVE  IInv'
  BY <1>8, UseAdvanceIInv
<1> QED BY <1>1, <1>2, <1>4, <1>5, <1>6, <1>7, <1>8 DEF Next

-----------------------------------------------------------------------------
(* What is shown, summed over all bills and over all payments *)

\* What a payment takes off the open bills: off a sale what it settles, and
\* off a purchase as much, the other way round.
ShownOf(r) ==
  [b \in Bills |-> IF b \notin Open THEN 0 ELSE IF b \in Sales THEN r.alloc[b] + r.settle[b] ELSE 0 - (r.alloc[b] + r.settle[b])]

\* What a payment adds to the money on account.
OnAccountOf(r) ==
  IF r.dir = "RECEIPT" THEN r.amount - Total(r.alloc) ELSE IF r.refundOf # None THEN 0 - r.amount ELSE 0

\* The amounts on the open bills, and on those that are gone.
LEMMA AmountsOn ==
  ASSUME ReceivablesAssumption, NEW f \in [Bills -> Nat]
  PROVE  /\ Total([b \in Open |-> f[b]]) = SumOver(f, Open) /\ Total([b \in Bills \ Open |-> f[b]]) = SumOver(f, Bills \ Open)
         /\ SumOver(f, Open) \in Int /\ SumOver(f, Bills \ Open) \in Int
         /\ Total(f) = SumOver(f, Open) + SumOver(f, Bills \ Open)
<1>1. IsFiniteSet(Bills) /\ Open \in SUBSET Bills
  BY BillsFinite DEF Open
<1>2. ASSUME NEW S \in SUBSET Bills PROVE Total([b \in S |-> f[b]]) = SumOver(f, S)
  <2> DEFINE g == [b \in S |-> f[b]]
  <2>1. DOMAIN g = S /\ \A b \in S : g[b] = f[b]
    OBVIOUS
  <2>2. IsFiniteSet(S)
    BY <1>1, FS_Subset
  <2> HIDE DEF g
  <2>3. Total(g) = SumOver(g, S)
    BY <2>1, TotalIs
  <2>4. SumOver(g, S) = SumOver(f, S)
    BY <2>1, <2>2, SumAgrees
  <2> QED BY <2>3, <2>4 DEF g
<1>3. Total(f) = SumOver(f, Bills)
  BY TotalIs
<1>4. SumOver(f, Bills) = SumOver(f, Open) + SumOver(f, Bills \ Open) /\ SumOver(f, Open) \in Int /\ SumOver(f, Bills \ Open) \in Int
  <2>1. \A b \in Bills : f[b] \in Int
    OBVIOUS
  <2> QED BY <1>1, <2>1, SumParts
<1>5. Total([b \in Open |-> f[b]]) = SumOver(f, Open)
  BY <1>1, <1>2
<1>6. Total([b \in Bills \ Open |-> f[b]]) = SumOver(f, Bills \ Open)
  <2>1. Bills \ Open \in SUBSET Bills
    OBVIOUS
  <2> QED BY <1>2, <2>1
<1> QED BY <1>3, <1>4, <1>5, <1>6

\* What a payment takes off the party's account, it takes off an open bill,
\* or puts on account, or no screen shows it.
LEMMA MovedIsShown ==
  ASSUME ReceivablesAssumption, NEW r \in Payment, Sound(r)
  PROVE  /\ SumOver(ShownOf(r), Bills) + OnAccountOf(r) + UnseenOf(r) = Moved(r)
         /\ SumOver(ShownOf(r), Bills) \in Int /\ OnAccountOf(r) \in Int /\ UnseenOf(r) \in Int
         /\ \A b \in Bills : ShownOf(r)[b] \in Int
<1> DEFINE ao == SumOver(r.alloc, Open)
           ag == SumOver(r.alloc, Bills \ Open)
           so == SumOver(r.settle, Open)
           sg == SumOver(r.settle, Bills \ Open)
<1>1. /\ r.alloc \in [Bills -> Nat] /\ r.settle \in [Bills -> Nat] /\ r.amount \in Nat /\ r.ahead \in BOOLEAN
      /\ Open \in SUBSET Bills /\ IsFiniteSet(Bills) /\ IsFiniteSet(Open) /\ Sales \subseteq Bills
  <2>1. r.alloc \in [Bills -> Nat] /\ r.settle \in [Bills -> Nat] /\ r.amount \in Nat /\ r.ahead \in BOOLEAN
    BY PaymentParts DEF Payment
  <2>2. Open \in SUBSET Bills /\ IsFiniteSet(Bills) /\ Sales \subseteq Bills
    BY BillsFinite DEF Open, Bills
  <2> QED BY <2>1, <2>2, FS_Subset
<1>2. /\ Total([b \in Open |-> r.alloc[b]]) = ao /\ Total([b \in Bills \ Open |-> r.alloc[b]]) = ag
      /\ Total(r.alloc) = ao + ag /\ ao \in Int /\ ag \in Int
  BY <1>1, AmountsOn
<1>3. /\ Total([b \in Open |-> r.settle[b]]) = so /\ Total([b \in Bills \ Open |-> r.settle[b]]) = sg
      /\ Total(r.settle) = so + sg /\ so \in Int /\ sg \in Int
  BY <1>1, AmountsOn
<1>4. \A b \in Bills : ShownOf(r)[b] \in Int /\ (b \notin Open => ShownOf(r)[b] = 0)
  BY <1>1 DEF ShownOf
<1>5. SumOver(ShownOf(r), Bills) = SumOver(ShownOf(r), Open)
  BY <1>1, <1>4, SumOfPart
<1>6. UnseenOf(r) = CASE r.dir = "RECEIPT" -> ag + sg
                      [] r.refundOf # None -> ao
                      [] OTHER -> -(ag + (IF r.ahead THEN 0 ELSE r.amount - Total(r.alloc)))
  BY <1>2, <1>3 DEF UnseenOf
<1> HIDE DEF ao, ag, so, sg
<1>7. CASE r.dir = "RECEIPT"
  <2>1. \A b \in Open : r.alloc[b] \in Int /\ r.settle[b] \in Int /\ ShownOf(r)[b] = r.alloc[b] + r.settle[b]
    <3> TAKE b \in Open
    <3>1. b \in Bills /\ r.alloc[b] \in Nat /\ r.settle[b] \in Nat
      BY <1>1
    <3>2. b \notin Sales => r.alloc[b] = 0 /\ r.settle[b] = 0
      BY <1>7, <3>1 DEF Sound, Side
    <3> QED BY <3>1, <3>2 DEF ShownOf
  <2>2. SumOver(ShownOf(r), Open) = ao + so
    BY <1>1, <2>1, SumAdds DEF ao, so
  <2>3. r.refundOf = None /\ UnseenOf(r) = ag + sg /\ OnAccountOf(r) = r.amount - Total(r.alloc)
        /\ Moved(r) = r.amount + Total(r.settle)
    BY <1>6, <1>7 DEF Sound, OnAccountOf, Moved
  <2> QED BY <1>1, <1>2, <1>3, <1>4, <1>5, <2>2, <2>3
<1>8. CASE r.dir # "RECEIPT"
  <2>1. \A b \in Open : r.alloc[b] \in Int /\ ShownOf(r)[b] = -r.alloc[b]
    <3> TAKE b \in Open
    <3>1. b \in Bills /\ r.alloc[b] \in Nat /\ r.settle[b] \in Nat /\ r.dir = "PAYMENT"
      BY <1>1, <1>8 DEF Payment
    <3>2. r.settle[b] = 0
      BY <1>8, <3>1 DEF Sound
    <3>3. b \in Sales => r.alloc[b] = 0
      BY <1>8, <3>1 DEF Sound, Side, ReceivablesAssumption
    <3> QED BY <3>1, <3>2, <3>3 DEF ShownOf
  <2>2. SumOver(ShownOf(r), Open) = 0 - ao
    <3>1. SumOver(ShownOf(r), Open) = -ao
      BY <1>1, <2>1, SumNegates DEF ao
    <3> QED BY <1>2, <3>1
  <2>3. CASE r.refundOf # None
    <3>1. UnseenOf(r) = ao
      BY <1>6, <1>8, <2>3
    <3>2. ~r.ahead /\ OnAccountOf(r) = 0 - r.amount /\ Moved(r) = 0 - r.amount
      BY <1>8, <2>3 DEF Sound, OnAccountOf, Moved
    <3> QED BY <1>1, <1>2, <1>4, <1>5, <2>2, <3>1, <3>2
  <2>4. CASE r.refundOf = None
    <3>1. OnAccountOf(r) = 0 /\ UnseenOf(r) = -(ag + (IF r.ahead THEN 0 ELSE r.amount - Total(r.alloc)))
      BY <1>6, <1>8, <2>4 DEF OnAccountOf
    <3>2. CASE r.ahead
      <4>1. Moved(r) = 0 - Total(r.alloc) /\ UnseenOf(r) = -(ag + 0)
        BY <1>8, <3>1, <3>2 DEF Moved
      <4> QED BY <1>1, <1>2, <1>4, <1>5, <2>2, <3>1, <4>1
    <3>3. CASE ~r.ahead
      <4>1. Moved(r) = 0 - r.amount /\ UnseenOf(r) = -(ag + (r.amount - Total(r.alloc)))
        BY <1>8, <3>1, <3>3 DEF Moved
      <4> QED BY <1>1, <1>2, <1>4, <1>5, <2>2, <3>1, <4>1
    <3> QED BY <3>2, <3>3
  <2> QED BY <2>3, <2>4
<1> QED BY <1>7, <1>8

ShownBy == [p \in Payments |-> IF p \in Standing(pay) THEN ShownOf(pay[p]) ELSE [b \in Bills |-> 0]]
OnAccountBy == [p \in Payments |-> IF p \in Standing(pay) THEN OnAccountOf(pay[p]) ELSE 0]
UnseenBy == [p \in Payments |-> IF p \in Standing(pay) THEN UnseenOf(pay[p]) ELSE 0]
OwedSigned == [b \in Bills |-> IF b \notin Open THEN 0 ELSE IF b \in Sales THEN Owed(b, Live) ELSE 0 - Owed(b, Live)]
TakenOff == ColumnSums(ShownBy, Payments, Bills, Payments)

LEMMA StandingParts ==
  ASSUME ReceivablesAssumption, IInv, NEW p \in Standing(pay)
  PROVE  p \in Payments /\ p \in DOMAIN pay /\ p \in Live /\ pay[p] \in Payment /\ Sound(pay[p])
  BY LiveIs DEF IInv, Good, Standing

LEMMA ShownIsTable == ASSUME ReceivablesAssumption, IInv PROVE Table(ShownBy, Payments, Bills)
<1> SUFFICES ASSUME NEW p \in Payments, NEW b \in Bills PROVE ShownBy[p][b] \in Int
  BY DEF Table
<1>1. CASE p \in Standing(pay)
  <2>1. ShownOf(pay[p])[b] \in Int
    BY <1>1, StandingParts, MovedIsShown
  <2> QED BY <1>1, <2>1 DEF ShownBy
<1>2. CASE p \notin Standing(pay)
  BY <1>2 DEF ShownBy
<1> QED BY <1>1, <1>2

\* What the payments take off an open bill is what stands on it.
LEMMA TakenOffIs ==
  ASSUME ReceivablesAssumption, IInv, NEW b \in Bills
  PROVE  /\ TakenOff[b] = (IF b \notin Open THEN 0 ELSE IF b \in Sales THEN On(b, Live) ELSE 0 - On(b, Live))
         /\ On(b, Live) \in Int
<1> DEFINE c == Column(ShownBy, b, Payments)
           f == [p \in Live |-> pay[p].alloc[b] + pay[p].settle[b]]
           g == [p \in Payments |-> IF p \in Live THEN pay[p].alloc[b] + pay[p].settle[b] ELSE 0]
<1>1. TakenOff[b] = SumOver(c, Payments)
  BY DEF TakenOff, ColumnSums
<1>2. \A p \in Payments : c[p] = (IF p \in Standing(pay) THEN ShownOf(pay[p])[b] ELSE 0)
  BY DEF Column, ShownBy
<1>3. Live = Standing(pay) /\ IsFiniteSet(Payments) /\ Live \subseteq Payments
  BY LiveIs, StandingParts DEF ReceivablesAssumption
<1>4. \A p \in Live : pay[p].alloc[b] + pay[p].settle[b] \in Int
  <2> TAKE p \in Live
  <2>1. pay[p] \in Payment
    BY <1>3, StandingParts
  <2>2. pay[p].alloc \in [Bills -> Nat] /\ pay[p].settle \in [Bills -> Nat]
    BY <2>1, PaymentParts
  <2> QED BY <2>2
<1>5. On(b, Live) = All(g) /\ All(g) \in Int
  <2>1. On(b, Live) = Total(f)
    BY DEF On
  <2>2. DOMAIN f = Live
    OBVIOUS
  <2>3. \A q \in Live : g[q] \in Int /\ g[q] = f[q]
    BY <1>3, <1>4
  <2>4. \A q \in Payments \ Live : g[q] = 0
    OBVIOUS
  <2> HIDE DEF f, g
  <2>5. Total(f) = All(g) /\ All(g) \in Int
    BY <1>3, <2>2, <2>3, <2>4, TotalOverAll
  <2> QED BY <2>1, <2>5
<1>6. CASE b \notin Open
  <2>1. \A p \in Payments : c[p] = 0
    BY <1>2, <1>6 DEF ShownOf
  <2> HIDE DEF c
  <2>2. SumOver(c, Payments) = 0
    BY <1>3, <2>1, SumOfNothings
  <2> QED BY <1>1, <1>5, <1>6, <2>2
<1>7. CASE b \in Open /\ b \in Sales
  <2>1. \A p \in Payments : c[p] = g[p]
    BY <1>2, <1>3, <1>7 DEF ShownOf
  <2> HIDE DEF c, g
  <2>2. SumOver(c, Payments) = SumOver(g, Payments)
    BY <1>3, <2>1, SumAgrees
  <2> QED BY <1>1, <1>5, <1>7, <2>2 DEF All
<1>8. CASE b \in Open /\ b \notin Sales
  <2> DEFINE z == [p \in Payments |-> 0]
  <2>1. \A p \in Payments : c[p] \in Int /\ g[p] \in Int /\ z[p] = c[p] + g[p]
    <3> TAKE p \in Payments
    <3>1. CASE p \in Live
      <4>1. c[p] = 0 - (pay[p].alloc[b] + pay[p].settle[b]) /\ g[p] = pay[p].alloc[b] + pay[p].settle[b]
        BY <1>2, <1>3, <1>8, <3>1 DEF ShownOf
      <4>2. pay[p].alloc[b] + pay[p].settle[b] \in Int
        BY <1>4, <3>1
      <4> HIDE DEF c, g
      <4> QED BY <4>1, <4>2
    <3>2. CASE p \notin Live
      <4>1. c[p] = 0 /\ g[p] = 0
        BY <1>2, <1>3, <3>2
      <4> HIDE DEF c, g
      <4> QED BY <4>1
    <3> QED BY <3>1, <3>2
  <2>2. SumOver(z, Payments) = 0
    BY <1>3, SumOfNothings
  <2> HIDE DEF c, g, z
  <2>3. SumOver(z, Payments) = SumOver(c, Payments) + SumOver(g, Payments) /\ SumOver(c, Payments) \in Int
    BY <1>3, <2>1, SumAdds, SumIsInt
  <2> QED BY <1>1, <1>5, <1>8, <2>2, <2>3 DEF All
<1> QED BY <1>5, <1>6, <1>7, <1>8

\* What the open bills still owe is what all are worth, less what was taken off.
LEMMA OwedIs ==
  ASSUME ReceivablesAssumption, IInv
  PROVE  /\ SumOver(Worth(bill), Bills) = SumOver(OwedSigned, Bills) + SumOver(TakenOff, Bills)
         /\ SumOver(OwedSigned, Bills) \in Int /\ SumOver(TakenOff, Bills) \in Int
<1>1. ASSUME NEW b \in Bills
      PROVE  OwedSigned[b] \in Int /\ TakenOff[b] \in Int /\ Worth(bill)[b] = OwedSigned[b] + TakenOff[b]
  <2>1. bill[b].value \in Int /\ (b \notin Open => bill[b].value = 0)
    BY DEF IInv, TypeOK, Documents, Open, ReceivablesAssumption
  <2>2. /\ TakenOff[b] = (IF b \notin Open THEN 0 ELSE IF b \in Sales THEN On(b, Live) ELSE 0 - On(b, Live))
        /\ On(b, Live) \in Int
    BY TakenOffIs
  <2>3. /\ OwedSigned[b] = (IF b \notin Open THEN 0 ELSE IF b \in Sales THEN Owed(b, Live) ELSE 0 - Owed(b, Live))
        /\ Owed(b, Live) = bill[b].value - On(b, Live)
        /\ Worth(bill)[b] = (IF b \in Sales THEN bill[b].value ELSE 0 - bill[b].value)
    BY DEF OwedSigned, Owed, Worth
  <2> QED BY <2>1, <2>2, <2>3
<1>2. IsFiniteSet(Bills)
  BY BillsFinite
<1>3. SumOver(Worth(bill), Bills) = SumOver(OwedSigned, Bills) + SumOver(TakenOff, Bills)
  BY <1>1, <1>2, SumAdds
<1>4. SumOver(OwedSigned, Bills) \in Int /\ SumOver(TakenOff, Bills) \in Int
  BY <1>1, <1>2, SumIsInt
<1> QED BY <1>3, <1>4

\* The sales' part and the purchases' part of it are totals of what is owed.
LEMMA OwedParts ==
  ASSUME ReceivablesAssumption, IInv
  PROVE  SumOver(OwedSigned, Bills) = Total([b \in Open \cap Sales |-> Owed(b, Live)]) - Total([b \in Open \cap Purchases |-> Owed(b, Live)])
<1> DEFINE s == [b \in Open \cap Sales |-> Owed(b, Live)]
           t == [b \in Open \cap Purchases |-> Owed(b, Live)]
           n == [b \in Bills |-> 0 - OwedSigned[b]]
<1>1. /\ IsFiniteSet(Bills) /\ Sales \in SUBSET Bills /\ Bills \ Sales = Purchases /\ Open \subseteq Bills
      /\ Purchases \subseteq Bills
  BY BillsFinite DEF Bills, Open, ReceivablesAssumption
<1>2. \A b \in Bills : OwedSigned[b] \in Int /\ n[b] \in Int /\ (b \notin Open => OwedSigned[b] = 0 /\ n[b] = 0)
                       /\ OwedSigned[b] = -n[b]
  <2> TAKE b \in Bills
  <2>1. Owed(b, Live) \in Int
    BY OwedIsNumber
  <2>2. OwedSigned[b] \in Int /\ (b \notin Open => OwedSigned[b] = 0) /\ n[b] = 0 - OwedSigned[b]
    BY <2>1 DEF OwedSigned
  <2> HIDE DEF n
  <2> QED BY <2>2
<1>3. \A b \in Open \cap Sales : s[b] = OwedSigned[b]
  BY <1>1 DEF OwedSigned
<1>4. \A b \in Open \cap Purchases : t[b] = n[b]
  <2> TAKE b \in Open \cap Purchases
  <2>1. b \in Bills /\ b \notin Sales /\ b \in Open
    BY <1>1
  <2>2. Owed(b, Live) \in Int
    BY <2>1, OwedIsNumber
  <2>3. OwedSigned[b] = 0 - Owed(b, Live)
    BY <2>1 DEF OwedSigned
  <2>4. n[b] = 0 - OwedSigned[b] /\ t[b] = Owed(b, Live)
    BY <2>1
  <2> HIDE DEF n, t
  <2> QED BY <2>2, <2>3, <2>4
<1>5. DOMAIN s = Open \cap Sales /\ DOMAIN t = Open \cap Purchases
  OBVIOUS
<1> HIDE DEF s, t, n
<1>6. IsFiniteSet(Sales) /\ IsFiniteSet(Purchases) /\ IsFiniteSet(Open \cap Sales) /\ IsFiniteSet(Open \cap Purchases)
  BY <1>1, FS_Subset
<1>7. SumOver(OwedSigned, Sales) = Total(s)
  <2>1. Total(s) = SumOver(s, Open \cap Sales)
    BY <1>5, TotalIs
  <2>2. SumOver(s, Open \cap Sales) = SumOver(OwedSigned, Open \cap Sales)
    BY <1>3, <1>6, SumAgrees
  <2>3. Open \cap Sales \in SUBSET Sales /\ (\A b \in Sales : OwedSigned[b] \in Int) /\ \A b \in Sales \ (Open \cap Sales) : OwedSigned[b] = 0
    BY <1>1, <1>2
  <2>4. SumOver(OwedSigned, Sales) = SumOver(OwedSigned, Open \cap Sales)
    BY <1>6, <2>3, SumOfPart
  <2> QED BY <2>1, <2>2, <2>4
<1>8. SumOver(n, Purchases) = Total(t) /\ SumOver(n, Purchases) \in Int
  <2>1. Total(t) = SumOver(t, Open \cap Purchases)
    BY <1>5, TotalIs
  <2>2. SumOver(t, Open \cap Purchases) = SumOver(n, Open \cap Purchases)
    BY <1>4, <1>6, SumAgrees
  <2>3. Open \cap Purchases \in SUBSET Purchases /\ (\A b \in Purchases : n[b] \in Int) /\ \A b \in Purchases \ (Open \cap Purchases) : n[b] = 0
    BY <1>1, <1>2
  <2>4. SumOver(n, Purchases) = SumOver(n, Open \cap Purchases)
    BY <1>6, <2>3, SumOfPart
  <2>5. SumOver(n, Purchases) \in Int
    BY <1>6, <2>3, SumIsInt
  <2> QED BY <2>1, <2>2, <2>4, <2>5
<1>9. SumOver(OwedSigned, Purchases) = -SumOver(n, Purchases)
  <2>1. \A b \in Purchases : n[b] \in Int /\ OwedSigned[b] = -n[b]
    BY <1>1, <1>2
  <2> QED BY <1>6, <2>1, SumNegates
<1>10. SumOver(OwedSigned, Bills) = SumOver(OwedSigned, Sales) + SumOver(OwedSigned, Purchases) /\ SumOver(OwedSigned, Sales) \in Int
  BY <1>1, <1>2, SumParts
<1>11. SumOver(OwedSigned, Bills) = Total(s) - Total(t)
  BY <1>7, <1>8, <1>9, <1>10
<1> QED BY <1>11 DEF s, t

LEMMA OnAccountIs == ASSUME ReceivablesAssumption, IInv PROVE OnAccount = All(OnAccountBy) /\ All(OnAccountBy) \in Int
<1> DEFINE in == [p \in {p \in Live : pay[p].dir = "RECEIPT"} |-> Unallocated(p)]
           out == [p \in {p \in Live : pay[p].refundOf # None} |-> pay[p].amount]
           allIn == [p \in Payments |-> IF p \in Live /\ pay[p].dir = "RECEIPT" THEN pay[p].amount - Total(pay[p].alloc) ELSE 0]
           allOut == [p \in Payments |-> IF p \in Live /\ pay[p].refundOf # None THEN pay[p].amount ELSE 0]
<1>1. ASSUME NEW p \in Live
      PROVE  /\ p \in Payments /\ p \in Standing(pay) /\ Sound(pay[p])
             /\ pay[p].amount \in Int /\ Total(pay[p].alloc) \in Int
  <2>1. p \in Standing(pay) /\ p \in Payments /\ pay[p] \in Payment /\ Sound(pay[p])
    BY LiveIs, StandingParts
  <2> QED BY <2>1, PaymentParts
<1>2. OnAccount = Total(in) - Total(out)
  BY DEF OnAccount
<1>3. DOMAIN in \in SUBSET Payments /\ DOMAIN out \in SUBSET Payments
  BY <1>1
<1>4. (\A q \in DOMAIN in : allIn[q] \in Int /\ allIn[q] = in[q]) /\ (\A q \in Payments \ DOMAIN in : allIn[q] = 0)
  BY <1>1 DEF Unallocated
<1>5. (\A q \in DOMAIN out : allOut[q] \in Int /\ allOut[q] = out[q]) /\ (\A q \in Payments \ DOMAIN out : allOut[q] = 0)
  BY <1>1
<1>6. \A p \in Payments : OnAccountBy[p] \in Int /\ allOut[p] \in Int /\ allIn[p] = OnAccountBy[p] + allOut[p]
  <2> TAKE p \in Payments
  <2>1. CASE p \notin Live
    <3>1. OnAccountBy[p] = 0 /\ allOut[p] = 0 /\ allIn[p] = 0
      BY <2>1, LiveIs DEF OnAccountBy
    <3> HIDE DEF allOut, allIn
    <3> QED BY <3>1
  <2>2. CASE p \in Live
    <3>0. OnAccountBy[p] = OnAccountOf(pay[p])
      BY <1>1, <2>2 DEF OnAccountBy
    <3>1. CASE pay[p].dir = "RECEIPT"
      <4>1. /\ OnAccountBy[p] = pay[p].amount - Total(pay[p].alloc) /\ allOut[p] = 0
            /\ allIn[p] = pay[p].amount - Total(pay[p].alloc)
        BY <1>1, <2>2, <3>0, <3>1 DEF OnAccountOf, Sound
      <4> HIDE DEF allOut, allIn
      <4> QED BY <1>1, <2>2, <4>1
    <3>2. CASE pay[p].dir # "RECEIPT"
      <4>1. /\ OnAccountBy[p] = (IF pay[p].refundOf # None THEN 0 - pay[p].amount ELSE 0) /\ allIn[p] = 0
            /\ allOut[p] = (IF pay[p].refundOf # None THEN pay[p].amount ELSE 0)
        BY <2>2, <3>0, <3>2 DEF OnAccountOf
      <4> HIDE DEF allOut, allIn
      <4> QED BY <1>1, <2>2, <4>1
    <3> QED BY <3>1, <3>2
  <2> QED BY <2>1, <2>2
<1> HIDE DEF in, out, allIn, allOut
<1>7. Total(in) = All(allIn) /\ Total(out) = All(allOut) /\ All(allOut) \in Int
  BY <1>3, <1>4, <1>5, TotalOverAll
<1>8. All(allIn) = All(OnAccountBy) + All(allOut) /\ All(OnAccountBy) \in Int
  BY <1>6, SumAdds, SumIsInt DEF All, ReceivablesAssumption
<1> QED BY <1>2, <1>7, <1>8

LEMMA UnseenIs == ASSUME ReceivablesAssumption, IInv PROVE Unseen = writtenOff + All(UnseenBy) /\ All(UnseenBy) \in Int
<1> DEFINE f == [p \in Live |-> UnseenOf(pay[p])]
<1>1. Unseen = writtenOff + Total(f)
  BY DEF Unseen
<1>2. DOMAIN f = Standing(pay) /\ Standing(pay) \in SUBSET Payments
  BY LiveIs, StandingParts
<1>3. \A q \in Standing(pay) : UnseenBy[q] \in Int /\ UnseenBy[q] = f[q]
  <2> TAKE q \in Standing(pay)
  <2>1. UnseenOf(pay[q]) \in Int
    BY StandingParts, MovedIsShown
  <2> QED BY <1>2, <2>1 DEF UnseenBy
<1>4. \A q \in Payments \ Standing(pay) : UnseenBy[q] = 0
  BY DEF UnseenBy
<1> HIDE DEF f
<1>5. Total(f) = All(UnseenBy) /\ All(UnseenBy) \in Int
  BY <1>2, <1>3, <1>4, TotalOverAll
<1> QED BY <1>1, <1>5

LEMMA AdvancesPaidIs == ASSUME ReceivablesAssumption, IInv PROVE AdvancesPaid = All(Spares(pay))
<1> DEFINE f == [p \in {p \in Live : pay[p].ahead} |-> Unallocated(p)]
<1>1. ASSUME NEW p \in Live
      PROVE  p \in Payments /\ p \in Standing(pay) /\ pay[p].amount \in Int /\ Total(pay[p].alloc) \in Int
  <2>1. p \in Standing(pay) /\ p \in Payments /\ pay[p] \in Payment
    BY LiveIs, StandingParts
  <2> QED BY <2>1, PaymentParts
<1>2. DOMAIN f \in SUBSET Payments
  BY <1>1
<1>3. \A q \in DOMAIN f : Spares(pay)[q] \in Int /\ Spares(pay)[q] = f[q]
  BY <1>1 DEF Spares, Spare, Unallocated
<1>4. \A q \in Payments \ DOMAIN f : Spares(pay)[q] = 0
  BY LiveIs DEF Spares, Spare
<1>5. AdvancesPaid = Total(f)
  BY DEF AdvancesPaid
<1> HIDE DEF f
<1> QED BY <1>2, <1>3, <1>4, <1>5, TotalOverAll

LEMMA MovesAre ==
  ASSUME ReceivablesAssumption, IInv
  PROVE  All(Moves(pay)) = SumOver(TakenOff, Bills) + (All(OnAccountBy) + All(UnseenBy))
<1> DEFINE rows == RowSums(ShownBy, Payments, Bills)
           rest == [p \in Payments |-> OnAccountBy[p] + UnseenBy[p]]
<1>0. IsFiniteSet(Payments) /\ IsFiniteSet(Bills)
  BY BillsFinite DEF ReceivablesAssumption
<1>1. ASSUME NEW p \in Payments
      PROVE  /\ rows[p] \in Int /\ OnAccountBy[p] \in Int /\ UnseenBy[p] \in Int
             /\ Moves(pay)[p] = rows[p] + (OnAccountBy[p] + UnseenBy[p])
  <2>1. rows[p] = SumOver(ShownBy[p], Bills)
    BY DEF RowSums
  <2> HIDE DEF rows, rest
  <2>2. CASE p \in Standing(pay)
    <3>1. /\ SumOver(ShownOf(pay[p]), Bills) + OnAccountOf(pay[p]) + UnseenOf(pay[p]) = Moved(pay[p])
          /\ SumOver(ShownOf(pay[p]), Bills) \in Int /\ OnAccountOf(pay[p]) \in Int /\ UnseenOf(pay[p]) \in Int
      BY <2>2, StandingParts, MovedIsShown
    <3>2. /\ ShownBy[p] = ShownOf(pay[p]) /\ OnAccountBy[p] = OnAccountOf(pay[p]) /\ UnseenBy[p] = UnseenOf(pay[p])
          /\ Moves(pay)[p] = Moved(pay[p])
      BY <2>2 DEF ShownBy, OnAccountBy, UnseenBy, Moves
    <3> QED BY <2>1, <3>1, <3>2
  <2>3. CASE p \notin Standing(pay)
    <3> DEFINE z == [b \in Bills |-> 0]
    <3>1. ShownBy[p] = z /\ OnAccountBy[p] = 0 /\ UnseenBy[p] = 0 /\ Moves(pay)[p] = 0
      BY <2>3 DEF ShownBy, OnAccountBy, UnseenBy, Moves
    <3>2. SumOver(z, Bills) = 0
      BY <1>0, SumOfNothings
    <3> HIDE DEF z
    <3> QED BY <2>1, <3>1, <3>2
  <2> QED BY <2>2, <2>3
<1>2. \A p \in Payments : rest[p] \in Int /\ rest[p] = OnAccountBy[p] + UnseenBy[p] /\ Moves(pay)[p] = rows[p] + rest[p]
  <2> TAKE p \in Payments
  <2>1. rest[p] = OnAccountBy[p] + UnseenBy[p]
    OBVIOUS
  <2> HIDE DEF rest, rows
  <2> QED BY <1>1, <2>1
<1>3. SumOver(rows, Payments) = SumOver(TakenOff, Bills)
  BY <1>0, ShownIsTable, SumsExchange DEF TakenOff
<1> HIDE DEF rows, rest
<1>4. SumOver(rest, Payments) = SumOver(OnAccountBy, Payments) + SumOver(UnseenBy, Payments)
  BY <1>0, <1>1, <1>2, SumAdds
<1>5. SumOver(Moves(pay), Payments) = SumOver(rows, Payments) + SumOver(rest, Payments)
  BY <1>0, <1>1, <1>2, SumAdds
<1> QED BY <1>3, <1>4, <1>5 DEF All

LEMMA NothingTwice == ASSUME ReceivablesAssumption, IInv PROVE SpentOnce
<1>1. \A p \in Live : Total(pay[p].alloc) + Refunded(p) <= pay[p].amount
  BY RefundedIs, LiveIs DEF IInv, Fit
<1> QED BY <1>1 DEF SpentOnce, IInv, AdvanceKept

LEMMA BooksFollow == ASSUME ReceivablesAssumption, IInv PROVE BooksAgree
<1>1. /\ SumOver(Worth(bill), Bills) = SumOver(OwedSigned, Bills) + SumOver(TakenOff, Bills)
      /\ SumOver(OwedSigned, Bills) \in Int /\ SumOver(TakenOff, Bills) \in Int
  BY OwedIs
<1>2. /\ All(Moves(pay)) = SumOver(TakenOff, Bills) + (All(OnAccountBy) + All(UnseenBy))
      /\ OnAccount = All(OnAccountBy) /\ Unseen = writtenOff + All(UnseenBy)
      /\ All(OnAccountBy) \in Int /\ All(UnseenBy) \in Int
  BY MovesAre, OnAccountIs, UnseenIs
<1>3. party = SumOver(Worth(bill), Bills) - All(Moves(pay)) - writtenOff /\ writtenOff \in Int
  BY DEF IInv, Booked, TypeOK
<1>4. party = SumOver(OwedSigned, Bills) - OnAccount - Unseen
  BY <1>1, <1>2, <1>3
<1>5. SumOver(OwedSigned, Bills) = Total([b \in Open \cap Sales |-> Owed(b, Live)])
                                   - Total([b \in Open \cap Purchases |-> Owed(b, Live)])
  BY OwedParts
<1>6. paidAhead = AdvancesPaid
  BY AdvancesPaidIs DEF IInv, Booked
<1>7. \A p \in Live, b \in Sales \ Open : pay[p].alloc[b] = 0
  BY DEF IInv, Documents, Open, Bills
<1> QED BY <1>4, <1>5, <1>6, <1>7 DEF BooksAgree

-----------------------------------------------------------------------------
\* Documents, payments, the advance and the accounts are always what they should be.
THEOREM TypeCorrect == ASSUME ReceivablesAssumption PROVE Spec => []TypeOK
<1>1. Init => IInv
  BY InitIInv
<1>2. IInv /\ [Next]_vars => IInv'
  BY NextIInv
<1>3. IInv => TypeOK
  BY DEF IInv
<1> QED BY <1>1, <1>2, <1>3, PTL DEF Spec

\* What bills took of a receipt and what was paid back out of it never come to
\* more than it, and no advance is applied and paid back twice: whatever the
\* order of choosing bills anew, cancelling, bouncing, linking and refunding.
THEOREM NeverSpentTwice == ASSUME ReceivablesAssumption PROVE Spec => []SpentOnce
<1>1. Init => IInv
  BY InitIInv
<1>2. IInv /\ [Next]_vars => IInv'
  BY NextIInv
<1>3. IInv => SpentOnce
  BY NothingTwice
<1> QED BY <1>1, <1>2, <1>3, PTL DEF Spec

\* The party's account is what the open bills still owe less the money on
\* account, but for what no screen shows; the advances account is the unused
\* advances; and no cancelled sale holds a customer's money.
THEOREM BooksAlwaysAgree == ASSUME ReceivablesAssumption PROVE Spec => []BooksAgree
<1>1. Init => IInv
  BY InitIInv
<1>2. IInv /\ [Next]_vars => IInv'
  BY NextIInv
<1>3. IInv => BooksAgree
  BY BooksFollow
<1> QED BY <1>1, <1>2, <1>3, PTL DEF Spec
=============================================================================
