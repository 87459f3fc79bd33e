--------------------------- MODULE InventoryProofs ---------------------------
(***************************************************************************)
(* The stock ledger of an item, for any godowns, documents, movements,     *)
(* transfers and deaths: it keeps the promises of Godown, every movement   *)
(* pairs with what it answers, and the books show what the report shows.   *)
(* And what fills it: goods that are bought come in once, for any orders,  *)
(* deliveries and bills; and what comes from another program stands whole  *)
(* or is taken out whole, for any files, requests and failures.  And what  *)
(* is asked of customers: nobody is chased twice for one thing, too soon,  *)
(* or by an assistant nobody told to.                                      *)
(***************************************************************************)
EXTENDS MCInventory, Sums, SequenceTheorems

AllKeys ==
  {Command(r) : r \in Incoming \cup Outgoing}
    \cup {Leg(t, leg) : t \in Transfers, leg \in {"out", "in"}}
    \cup {IssueKey(d, i) : d \in Documents, i \in Nat}
    \cup {ReturnKey(i) : i \in Nat}

Move ==
  [key : AllKeys, direction : {"IN", "OUT"}, godown : Godowns, qty : Nat \ {0}, cost : Int,
   date : 1..LastDate, reverses : Nat]

-----------------------------------------------------------------------------
(* What the average cost of the stock is computed from stays whole numbers *)

Stocks == [qty : Int, value : Int]

LEMMA FiniteRange == \A n \in Nat : IsFiniteSet(1..n)
  BY FS_Interval

LEMMA TotalIs == \A f : Total(f) = SumOver(f, DOMAIN f)
  BY DEF Total, SumOver

LEMMA MovesAre ==
  ASSUME NEW ms \in Seq(Move)
  PROVE  /\ Len(ms) \in Nat /\ DOMAIN ms = 1..Len(ms) /\ IsFiniteSet(DOMAIN ms)
         /\ \A i \in DOMAIN ms : ms[i] \in Move
<1>1. Len(ms) \in Nat /\ DOMAIN ms = 1..Len(ms)
  BY LenProperties
<1>2. \A i \in 1..Len(ms) : ms[i] \in Move
  BY ElementOfSeq
<1> QED BY <1>1, <1>2, FiniteRange

LEMMA QuotientIs == \A a, b \in Int : b # 0 => Quotient(a, b) \in Int
<1> TAKE a, b \in Int
<1> HAVE b # 0
<1>1. Abs(a) \in Nat /\ Abs(b) \in Nat /\ Abs(b) > 0
  BY DEF Abs
<1>2. Abs(a) \div Abs(b) \in Int
  BY <1>1
<1> QED BY <1>2 DEF Quotient

LEMMA AverageIs == \A s \in Stocks : Average(s) \in Int
  BY QuotientIs DEF Average, Stocks, NoCost

LEMMA ValuedIs == \A s \in Stocks, m \in Move : Valued(s, m) \in Stocks
<1> TAKE s \in Stocks, m \in Move
<1> DEFINE a == Average(s)
<1>1. a \in Int
  BY AverageIs
<1>2. s.qty \in Int /\ s.value \in Int /\ m.qty \in Int /\ m.cost \in Int
  BY DEF Stocks, Move
<1>3. a * m.qty \in Int /\ m.cost * m.qty \in Int
  BY <1>1, <1>2
<1> HIDE DEF a
<1>4. CASE m.direction = "IN"
  <2> DEFINE v == s.value + (IF m.cost = NoCost THEN 0 ELSE m.cost * m.qty)
  <2>1. v \in Int /\ s.qty + m.qty \in Int
    BY <1>2, <1>3
  <2> HIDE DEF v
  <2>2. Valued(s, m) = [qty |-> s.qty + m.qty, value |-> v]
    BY <1>4 DEF Valued, v
  <2> QED BY <2>1, <2>2 DEF Stocks
<1>5. CASE m.direction # "IN"
  <2> DEFINE v == s.value - (IF s.qty = 0 THEN 0 ELSE a * m.qty)
  <2>1. v \in Int /\ s.qty - m.qty \in Int
    BY <1>2, <1>3
  <2> HIDE DEF v
  <2>2. Valued(s, m) = [qty |-> s.qty - m.qty, value |-> v]
    BY <1>5 DEF Valued, v, a
  <2> QED BY <2>1, <2>2 DEF Stocks
<1> QED BY <1>4, <1>5

\* The movements of a day leave a stock, and no movements leave it as it was.
LEMMA OfDayIs ==
  ASSUME NEW stock \in Stocks, NEW ms \in Seq(Move), NEW g, NEW d
  PROVE  OfDay(stock, ms, g, d) \in Stocks /\ (Len(ms) = 0 => OfDay(stock, ms, g, d) = stock)
<1> DEFINE n == Len(ms)
           Then(i, x) == IF ms[i].godown = g /\ ms[i].date = d THEN Valued(x, ms[i]) ELSE x
           Fits(f) == f = [i \in 0..n |-> IF i = 0 THEN stock ELSE Then(i, f[i - 1])]
           step == [i \in 1..n |-> [x \in Stocks |-> Then(i, x)]]
<1>1. n \in Nat /\ \A i \in 1..n : ms[i] \in Move
  BY MovesAre
<1>2. \A i \in 1..n : \A x \in Stocks : Then(i, x) \in Stocks /\ step[i][x] = Then(i, x)
  BY <1>1, ValuedIs
<1>3. PICK f : Recurs(f, n, stock, step) /\ \A i \in 0..n : f[i] \in Stocks
  <2> HIDE DEF step, n, Then
  <2>1. \A i \in 1..n : \A x \in Stocks : step[i][x] \in Stocks
    BY <1>2
  <2> QED BY <1>1, <2>1, Recursion
<1>4. Fits(f)
  <2>1. \A i \in 0..n : i # 0 => i \in 1..n /\ i - 1 \in 0..n
    BY <1>1
  <2> HIDE DEF step, Then, n
  <2> QED BY <1>2, <1>3, <2>1 DEF Recurs
<1> DEFINE upTo == CHOOSE h : Fits(h)
<1>5. Fits(upTo)
  BY <1>4
<1>6. OfDay(stock, ms, g, d) = upTo[n]
  BY DEF OfDay
<1> HIDE DEF upTo
<1>7. \A k \in Nat : k <= n => upTo[k] \in Stocks
  <2> DEFINE Good == {k \in Nat : k <= n => upTo[k] \in Stocks}
  <2>1. 0 \in Good
    BY <1>1, <1>5
  <2>2. ASSUME NEW k \in Nat, k \in Good PROVE k + 1 \in Good
    <3> SUFFICES ASSUME k + 1 <= n PROVE upTo[k + 1] \in Stocks
      OBVIOUS
    <3>1. upTo[k] \in Stocks /\ k + 1 \in 1..n /\ k + 1 \in 0..n /\ k + 1 # 0 /\ (k + 1) - 1 = k
      BY <1>1, <2>2
    <3> HIDE DEF Then, n
    <3>2. upTo[k + 1] = Then(k + 1, upTo[k])
      BY <1>5, <3>1
    <3> QED BY <1>2, <3>1, <3>2
  <2>3. \A k \in Nat : k \in Good
    <3> HIDE DEF Good
    <3> QED BY <2>1, <2>2, Induction
  <2> QED BY <2>3
<1>8. n = 0 => upTo[n] = stock
  BY <1>5
<1> QED BY <1>1, <1>6, <1>7, <1>8

NoStock == [qty |-> 0, value |-> 0]

\* The value of the stock is a whole number, and nothing is worth nothing.
LEMMA ValueIs ==
  ASSUME NEW ms \in Seq(Move), NEW g
  PROVE  ValueOf(ms, g) \in Stocks /\ (Len(ms) = 0 => ValueOf(ms, g) = NoStock)
<1> DEFINE n == LastDate
           Then(d, x) == OfDay(x, ms, g, d)
           Fits(f) == f = [d \in 0..n |-> IF d = 0 THEN NoStock ELSE Then(d, f[d - 1])]
           step == [d \in 1..n |-> [x \in Stocks |-> Then(d, x)]]
<1>1. n \in Nat /\ NoStock \in Stocks
  BY InventoryAssumption DEF NoStock, Stocks
<1>2. \A d \in 1..n : \A x \in Stocks : /\ Then(d, x) \in Stocks /\ step[d][x] = Then(d, x)
                                        /\ Len(ms) = 0 => Then(d, x) = x
  BY OfDayIs
<1>3. PICK f : Recurs(f, n, NoStock, step) /\ \A d \in 0..n : f[d] \in Stocks
  <2> HIDE DEF step, n, Then
  <2>1. \A d \in 1..n : \A x \in Stocks : step[d][x] \in Stocks
    BY <1>2
  <2> QED BY <1>1, <2>1, Recursion
<1>4. Fits(f)
  <2>1. \A d \in 0..n : d # 0 => d \in 1..n /\ d - 1 \in 0..n
    BY <1>1
  <2> HIDE DEF step, Then, n
  <2> QED BY <1>2, <1>3, <2>1 DEF Recurs
<1> DEFINE until == CHOOSE h : Fits(h)
<1>5. Fits(until)
  BY <1>4
<1>6. ValueOf(ms, g) = until[n]
  BY DEF ValueOf, NoStock
<1> HIDE DEF until
<1>7. \A k \in Nat : k <= n => until[k] \in Stocks /\ (Len(ms) = 0 => until[k] = NoStock)
  <2> DEFINE Good == {k \in Nat : k <= n => until[k] \in Stocks /\ (Len(ms) = 0 => until[k] = NoStock)}
  <2>1. 0 \in Good
    BY <1>1, <1>5
  <2>2. ASSUME NEW k \in Nat, k \in Good PROVE k + 1 \in Good
    <3> SUFFICES ASSUME k + 1 <= n PROVE until[k + 1] \in Stocks /\ (Len(ms) = 0 => until[k + 1] = NoStock)
      OBVIOUS
    <3>1. /\ until[k] \in Stocks /\ (Len(ms) = 0 => until[k] = NoStock)
          /\ k + 1 \in 1..n /\ k + 1 \in 0..n /\ k + 1 # 0 /\ (k + 1) - 1 = k
      BY <1>1, <2>2
    <3> HIDE DEF Then, n
    <3>2. until[k + 1] = Then(k + 1, until[k])
      BY <1>5, <3>1
    <3> QED BY <1>2, <3>1, <3>2
  <2>3. \A k \in Nat : k \in Good
    <3> HIDE DEF Good
    <3> QED BY <2>1, <2>2, Induction
  <2> QED BY <2>3
<1> QED BY <1>1, <1>6, <1>7

-----------------------------------------------------------------------------
(* What an insertion does *)

\* A movement as it is kept: goods that leave get their cost, goods that come have it.
Alike(m, n) ==
  /\ m.key = n.key /\ m.direction = n.direction /\ m.godown = n.godown
  /\ m.qty = n.qty /\ m.date = n.date /\ m.reverses = n.reverses
  /\ n.direction = "IN" => m = n

LEMMA StampedIs ==
  ASSUME NEW ms \in Seq(Move), NEW m \in Move
  PROVE  Stamped(ms, m) \in Move /\ Alike(Stamped(ms, m), m)
<1> DEFINE c == Average(ValueOf(ms, m.godown))
<1>1. c \in Int
  BY ValueIs, AverageIs
<1>2. Stamped(ms, m) = IF m.direction = "OUT" /\ m.cost = NoCost THEN [m EXCEPT !.cost = c] ELSE m
  BY DEF Stamped
<1> HIDE DEF c
<1>3. CASE m.direction = "OUT" /\ m.cost = NoCost
  BY <1>1, <1>2, <1>3 DEF Move, Alike
<1>4. CASE ~(m.direction = "OUT" /\ m.cost = NoCost)
  BY <1>2, <1>4 DEF Alike
<1> QED BY <1>3, <1>4

\* The list ms with the movements of new after it
Joined(all, ms, new) ==
  /\ all \in Seq(Move)
  /\ Len(all) = Len(ms) + Len(new)
  /\ \A i \in 1..Len(ms) : all[i] = ms[i]
  /\ \A j \in 1..Len(new) : Alike(all[Len(ms) + j], new[j])

LEMMA AfterIs ==
  ASSUME moves \in Seq(Move), NEW new \in Seq(Move)
  PROVE  Joined(After(new), moves, new)
<1> DEFINE n == Len(new)
           l == Len(moves)
           Then(i, x) == Append(x, Stamped(x, new[i]))
           Fits(f) == f = [i \in 0..n |-> IF i = 0 THEN moves ELSE Then(i, f[i - 1])]
           step == [i \in 1..n |-> [x \in Seq(Move) |-> Then(i, x)]]
<1>1. n \in Nat /\ l \in Nat /\ \A i \in 1..n : new[i] \in Move
  BY MovesAre
<1>2. \A i \in 1..n : \A x \in Seq(Move) : /\ Then(i, x) \in Seq(Move) /\ step[i][x] = Then(i, x)
                                           /\ Len(Then(i, x)) = Len(x) + 1
                                           /\ \A j \in 1..Len(x) : Then(i, x)[j] = x[j]
                                           /\ Alike(Then(i, x)[Len(x) + 1], new[i])
  <2> TAKE i \in 1..n
  <2> TAKE x \in Seq(Move)
  <2>1. Stamped(x, new[i]) \in Move /\ Alike(Stamped(x, new[i]), new[i])
    BY <1>1, StampedIs
  <2>2. /\ Then(i, x) \in Seq(Move)
        /\ Len(Then(i, x)) = Len(x) + 1
        /\ \A j \in 1..Len(x) : Then(i, x)[j] = x[j]
        /\ Then(i, x)[Len(x) + 1] = Stamped(x, new[i])
    BY <2>1, AppendProperties
  <2>3. step[i][x] = Then(i, x)
    OBVIOUS
  <2> QED BY <2>1, <2>2, <2>3
<1>3. PICK f : Recurs(f, n, moves, step) /\ \A i \in 0..n : f[i] \in Seq(Move)
  <2> HIDE DEF step, n, Then
  <2>1. \A i \in 1..n : \A x \in Seq(Move) : step[i][x] \in Seq(Move)
    BY <1>2
  <2> QED BY <1>1, <2>1, Recursion
<1>4. Fits(f)
  <2>1. \A i \in 0..n : i # 0 => i \in 1..n /\ i - 1 \in 0..n
    BY <1>1
  <2> HIDE DEF step, Then, n
  <2> QED BY <1>2, <1>3, <2>1 DEF Recurs
<1> DEFINE upTo == CHOOSE h : Fits(h)
<1>5. Fits(upTo)
  BY <1>4
<1>6. After(new) = upTo[n]
  BY DEF After
<1> HIDE DEF upTo
<1> DEFINE Done(k) == /\ upTo[k] \in Seq(Move) /\ Len(upTo[k]) = l + k
                      /\ \A i \in 1..l : upTo[k][i] = moves[i]
                      /\ \A j \in 1..k : Alike(upTo[k][l + j], new[j])
<1>7. \A k \in Nat : k <= n => Done(k)
  <2> DEFINE Good == {k \in Nat : k <= n => Done(k)}
  <2>1. 0 \in Good
    <3>1. upTo[0] = moves
      BY <1>1, <1>5
    <3> QED BY <1>1, <3>1
  <2>2. ASSUME NEW k \in Nat, k \in Good PROVE k + 1 \in Good
    <3> SUFFICES ASSUME k + 1 <= n PROVE Done(k + 1)
      OBVIOUS
    <3> DEFINE x == upTo[k]
               y == upTo[k + 1]
    <3>1. /\ x \in Seq(Move) /\ Len(x) = l + k
          /\ \A i \in 1..l : x[i] = moves[i]
          /\ \A j \in 1..k : Alike(x[l + j], new[j])
      BY <1>1, <2>2
    <3>2. k + 1 \in 1..n /\ k + 1 \in 0..n /\ k + 1 # 0 /\ (k + 1) - 1 = k
      BY <1>1
    <3>3. y = Then(k + 1, x)
      <4> HIDE DEF Then, n
      <4> QED BY <1>5, <3>2
    <3> HIDE DEF x, y
    <3>4. /\ y \in Seq(Move) /\ Len(y) = Len(x) + 1
          /\ \A j \in 1..Len(x) : y[j] = x[j]
          /\ Alike(y[Len(x) + 1], new[k + 1])
      <4> HIDE DEF Then, n, step
      <4> QED BY <1>2, <3>1, <3>2, <3>3
    <3> HIDE DEF n, l
    <3>5. Len(y) = l + (k + 1) /\ Len(x) + 1 = l + (k + 1)
      BY <1>1, <3>1, <3>4
    <3>6. \A i \in 1..l : y[i] = moves[i]
      BY <1>1, <3>1, <3>4
    <3>7. \A j \in 1..k + 1 : Alike(y[l + j], new[j])
      <4> TAKE j \in 1..k + 1
      <4>1. CASE j = k + 1
        BY <3>4, <3>5, <4>1
      <4>2. CASE j # k + 1
        <5>1. j \in 1..k /\ l + j \in 1..Len(x)
          BY <1>1, <3>1, <4>2
        <5>2. y[l + j] = x[l + j] /\ Alike(x[l + j], new[j])
          BY <3>1, <3>4, <5>1
        <5> QED BY <5>2
      <4> QED BY <4>1, <4>2
    <3> QED BY <3>4, <3>5, <3>6, <3>7 DEF y
  <2>3. \A k \in Nat : k \in Good
    <3> HIDE DEF Good
    <3> QED BY <2>1, <2>2, Induction
  <2> QED BY <2>3
<1>8. Done(n)
  <2> HIDE DEF Done
  <2> QED BY <1>1, <1>7
<1> QED BY <1>6, <1>8 DEF Joined

LEMMA InsertIs ==
  ASSUME moves \in Seq(Move), NEW new \in Seq(Move), Insert(new)
  PROVE  Joined(moves', moves, new)
BY AfterIs DEF Insert

-----------------------------------------------------------------------------
(* What is on hand, as a sum over all movements *)

OnHand(ms, g) == Total([i \in {p \in DOMAIN ms : ms[p].godown = g} |-> Signed(ms[i])])
Change(ms, g) == [i \in DOMAIN ms |-> IF ms[i].godown = g THEN Signed(ms[i]) ELSE 0]

LEMMA ChangeIs ==
  ASSUME NEW ms \in Seq(Move), NEW g
  PROVE  \A i \in DOMAIN ms : Change(ms, g)[i] \in Int
<1> TAKE i \in DOMAIN ms
<1>0. ms[i] \in Move
  BY MovesAre
<1> DEFINE q == ms[i].qty
<1>3. q \in Nat
  BY <1>0 DEF Move
<1> HIDE DEF q
<1>4. q \in Int /\ -q \in Int
  BY <1>3
<1>1. ms[i].qty \in Int /\ -ms[i].qty \in Int
  BY <1>4 DEF q
<1>2. Signed(ms[i]) \in Int
  BY <1>1 DEF Signed
<1> QED BY <1>2 DEF Change

LEMMA OnHandIs ==
  ASSUME NEW ms \in Seq(Move), NEW g
  PROVE  OnHand(ms, g) = SumOver(Change(ms, g), DOMAIN ms) /\ OnHand(ms, g) \in Int
<1> DEFINE P == {p \in DOMAIN ms : ms[p].godown = g}
           f == [i \in P |-> Signed(ms[i])]
<1>1. IsFiniteSet(DOMAIN ms) /\ IsFiniteSet(P) /\ P \in SUBSET DOMAIN ms
  BY MovesAre, FS_Subset
<1>2. OnHand(ms, g) = SumOver(f, P)
  BY TotalIs DEF OnHand
<1>3. (\A i \in P : f[i] = Change(ms, g)[i]) /\ (\A i \in (DOMAIN ms) \ P : Change(ms, g)[i] = 0)
  BY DEF Change
<1> HIDE DEF f, P
<1>4. SumOver(f, P) = SumOver(Change(ms, g), P)
  BY <1>1, <1>3, SumAgrees
<1>5. SumOver(Change(ms, g), DOMAIN ms) = SumOver(Change(ms, g), P)
  BY <1>1, <1>3, ChangeIs, SumOfPart
<1>6. SumOver(Change(ms, g), DOMAIN ms) \in Int
  BY <1>1, ChangeIs, SumIsInt
<1> QED BY <1>2, <1>4, <1>5, <1>6

\* What is on hand grows by what the new movements bring and take.
LEMMA OnHandGrows ==
  ASSUME NEW ms \in Seq(Move), NEW new \in Seq(Move), NEW all, Joined(all, ms, new), NEW g
  PROVE  OnHand(all, g) = OnHand(ms, g) + SumOver(Change(new, g), DOMAIN new)
<1> DEFINE l == Len(ms)
           h == [j \in DOMAIN new |-> l + j]
           c == Change(all, g)
<1>1. /\ l \in Nat /\ DOMAIN ms = 1..l
      /\ Len(new) \in Nat /\ DOMAIN new = 1..Len(new) /\ IsFiniteSet(DOMAIN new)
      /\ all \in Seq(Move) /\ DOMAIN all = 1..Len(all) /\ IsFiniteSet(DOMAIN all) /\ Len(all) = l + Len(new)
  BY MovesAre DEF Joined
<1>2. \A i \in DOMAIN all : c[i] \in Int
  BY <1>1, ChangeIs
<1>3. DOMAIN ms \in SUBSET DOMAIN all /\ (DOMAIN all) \ (DOMAIN ms) = {h[j] : j \in DOMAIN new}
  <2>1. \A i \in (DOMAIN all) \ (DOMAIN ms) : i - l \in DOMAIN new /\ h[i - l] = i
    BY <1>1
  <2>2. \A j \in DOMAIN new : h[j] \in (DOMAIN all) \ (DOMAIN ms)
    BY <1>1
  <2>3. DOMAIN ms \in SUBSET DOMAIN all
    BY <1>1
  <2> HIDE DEF h
  <2> QED BY <2>1, <2>2, <2>3
<1>4. \A i \in DOMAIN ms : c[i] = Change(ms, g)[i]
  BY <1>1, <1>3 DEF Joined, Change
<1>5. \A j \in DOMAIN new : Change(new, g)[j] \in Int /\ c[h[j]] = Change(new, g)[j]
  <2> TAKE j \in DOMAIN new
  <2>1. Alike(all[l + j], new[j]) /\ l + j \in DOMAIN all /\ h[j] = l + j
    BY <1>1 DEF Joined
  <2>2. c[l + j] = Change(new, g)[j]
    BY <2>1 DEF Alike, Change, Signed
  <2> QED BY <2>1, <2>2, ChangeIs
<1>6. \A i, j \in DOMAIN new : h[i] = h[j] => i = j
  BY <1>1
<1> HIDE DEF h, c
<1>7. SumOver(c, {h[j] : j \in DOMAIN new}) = SumOver(Change(new, g), DOMAIN new)
  <2>1. IsFiniteSet(DOMAIN new)
    BY <1>1
  <2>2. \A j \in DOMAIN new : Change(new, g)[j] \in Int /\ c[h[j]] = Change(new, g)[j]
    BY <1>5
  <2>3. \A i, j \in DOMAIN new : h[i] = h[j] => i = j
    BY <1>6
  <2> QED BY ONLY <2>1, <2>2, <2>3, SumReindexed
<1> DEFINE T == {h[j] : j \in DOMAIN new}
<1>11. SumOver(c, T) = SumOver(Change(new, g), DOMAIN new) /\ (DOMAIN all) \ (DOMAIN ms) = T
  BY <1>3, <1>7
<1> HIDE DEF T
<1>8. SumOver(c, DOMAIN all) = SumOver(c, DOMAIN ms) + SumOver(c, T)
  BY <1>1, <1>2, <1>3, <1>11, SumParts
<1>9. SumOver(c, DOMAIN ms) = SumOver(Change(ms, g), DOMAIN ms)
  BY <1>4, MovesAre, SumAgrees
<1>10. OnHand(all, g) = SumOver(c, DOMAIN all)
  BY <1>1, OnHandIs DEF c
<1> QED BY <1>8, <1>9, <1>10, <1>11, OnHandIs

\* One movement changes what is on hand where it happens.
LEMMA OneMoves ==
  ASSUME NEW ms \in Seq(Move), NEW m \in Move, NEW all, Joined(all, ms, <<m>>), NEW g
  PROVE  /\ OnHand(ms, g) \in Int
         /\ OnHand(all, g) = OnHand(ms, g) + (IF m.godown = g THEN Signed(m) ELSE 0)
<1> DEFINE new == <<m>>
<1>1. new \in Seq(Move) /\ DOMAIN new = {1} /\ new[1] = m
  OBVIOUS
<1> HIDE DEF new
<1>2. OnHand(all, g) = OnHand(ms, g) + SumOver(Change(new, g), {1})
  BY <1>1, OnHandGrows DEF new
<1>3. Change(new, g)[1] \in Int /\ Change(new, g)[1] = IF m.godown = g THEN Signed(m) ELSE 0
  BY <1>1, ChangeIs DEF Change
<1>4. SumOver(Change(new, g), {1}) = Change(new, g)[1] + SumOver(Change(new, g), {1} \ {1})
  <2>1. IsFiniteSet({1})
    BY FS_Singleton
  <2> QED BY <1>3, <2>1, SumSplit
<1>5. SumOver(Change(new, g), {1} \ {1}) = 0
  <2>1. {1} \ {1} = {}
    OBVIOUS
  <2>2. SumOver(Change(new, g), {}) = 0
    BY SumOfNone
  <2> QED BY <2>1, <2>2
<1>6. SumOver(Change(new, g), {1}) = Change(new, g)[1]
  BY <1>3, <1>4, <1>5
<1> QED BY <1>2, <1>3, <1>6, OnHandIs

-----------------------------------------------------------------------------
(* What a document asks for, holds and sends out *)

LEMMA LinesAre ==
  ASSUME NEW d \in Documents
  PROVE  /\ Len(Lines[d]) \in Nat /\ DOMAIN Lines[d] = 1..Len(Lines[d]) /\ IsFiniteSet(DOMAIN Lines[d])
         /\ \A i \in DOMAIN Lines[d] : Lines[d][i].godown \in Godowns /\ Lines[d][i].qty \in Nat \ {0}
<1>1. Lines[d] \in Seq([godown : Godowns, qty : Nat \ {0}])
  BY InventoryAssumption
<1>2. Len(Lines[d]) \in Nat /\ DOMAIN Lines[d] = 1..Len(Lines[d])
  BY <1>1, LenProperties
<1>3. \A i \in 1..Len(Lines[d]) : Lines[d][i] \in [godown : Godowns, qty : Nat \ {0}]
  BY <1>1, ElementOfSeq
<1> QED BY <1>2, <1>3, FiniteRange

Wanted(d, g) == [i \in DOMAIN Lines[d] |-> IF Lines[d][i].godown = g THEN Lines[d][i].qty ELSE 0]

LEMMA AskedIs ==
  ASSUME NEW d \in Documents, NEW g \in Godowns
  PROVE  /\ Asked[d][g] = SumOver(Wanted(d, g), DOMAIN Lines[d])
         /\ Asked[d][g] \in Nat
         /\ \A i \in DOMAIN Lines[d] : Wanted(d, g)[i] \in Nat
<1>1. \A i \in DOMAIN Lines[d] : Wanted(d, g)[i] \in Nat
  BY LinesAre DEF Wanted
<1>2. Asked[d][g] = Total(Wanted(d, g))
  BY DEF Asked, Wanted
<1>3. DOMAIN Wanted(d, g) = DOMAIN Lines[d]
  BY DEF Wanted
<1>4. Asked[d][g] = SumOver(Wanted(d, g), DOMAIN Lines[d])
  BY <1>2, <1>3, TotalIs
<1> QED BY <1>1, <1>4, LinesAre, SumBounds

LEMMA LeavingIs ==
  ASSUME NEW d \in Documents, NEW date \in 1..LastDate
  PROVE  /\ Leaving(d, date) \in Seq(Move)
         /\ DOMAIN Leaving(d, date) = DOMAIN Lines[d] /\ Len(Leaving(d, date)) = Len(Lines[d])
         /\ \A g \in Godowns : SumOver(Change(Leaving(d, date), g), DOMAIN Leaving(d, date)) = -Asked[d][g]
<1> DEFINE n == Len(Lines[d])
           new == Leaving(d, date)
<1>1. n \in Nat /\ DOMAIN Lines[d] = 1..n
  BY LinesAre
<1>2. \A i \in 1..n : new[i] \in Move /\ new[i].godown = Lines[d][i].godown
                      /\ new[i].qty = Lines[d][i].qty /\ new[i].direction = "OUT"
  <2> TAKE i \in 1..n
  <2>1. new[i] = Movement(IssueKey(d, i), "OUT", Lines[d][i].godown, Lines[d][i].qty, NoCost, date, 0)
    BY <1>1 DEF Leaving
  <2>2. IssueKey(d, i) \in AllKeys
    BY <1>1 DEF AllKeys
  <2> QED BY <1>1, <2>1, <2>2, LinesAre DEF Movement, Move, NoCost
<1>3. new = [i \in 1..n |-> new[i]]
  BY <1>1 DEF Leaving
<1>4. new \in Seq(Move) /\ DOMAIN new = 1..n /\ Len(new) = n
  <2>1. new \in [1..n -> Move]
    BY <1>2, <1>3
  <2>2. DOMAIN new = 1..n
    BY <1>3
  <2> HIDE DEF new, n
  <2>3. new \in Seq(Move)
    BY <1>1, <2>1, SeqDef
  <2> QED BY <1>1, <2>2, <2>3, LenProperties
<1>5. ASSUME NEW g \in Godowns PROVE SumOver(Change(new, g), 1..n) = -Asked[d][g]
  <2> HIDE DEF n
  <2>1. \A i \in 1..n : Wanted(d, g)[i] \in Int /\ Change(new, g)[i] = -Wanted(d, g)[i]
    <3> TAKE i \in 1..n
    <3>1. Wanted(d, g)[i] \in Int
      BY <1>1, AskedIs
    <3>2. CASE new[i].godown = g
      <4>1. Change(new, g)[i] = -new[i].qty
        BY <1>2, <1>4, <3>2 DEF Change, Signed
      <4>2. Wanted(d, g)[i] = new[i].qty
        BY <1>1, <1>2, <3>2 DEF Wanted
      <4> QED BY <3>1, <4>1, <4>2
    <3>3. CASE new[i].godown # g
      <4>1. Change(new, g)[i] = 0
        BY <1>4, <3>3 DEF Change
      <4>2. Wanted(d, g)[i] = 0
        BY <1>1, <1>2, <3>3 DEF Wanted
      <4>3. Change(new, g)[i] = 0 - Wanted(d, g)[i]
        BY <4>1, <4>2
      <4>4. \A w \in Int : -w = 0 - w
        OBVIOUS
      <4> QED BY <3>1, <4>3, <4>4
    <3> QED BY <3>2, <3>3
  <2>2. SumOver(Change(new, g), 1..n) = -SumOver(Wanted(d, g), 1..n)
    <3> HIDE DEF new
    <3> QED BY <1>1, <2>1, FiniteRange, SumNegates
  <2> QED BY <1>1, <2>2, AskedIs
<1> QED BY <1>1, <1>4, <1>5

-----------------------------------------------------------------------------
(* The invariant *)

\* A command of several transactions has what its next one needs.
TaskFits ==
  \/ task = Idle
  \/ \E t \in Transfers : /\ task = [kind |-> "transfer", of |-> t]
                          /\ HasKey(Leg(t, "out")) /\ ~HasKey(Leg(t, "in"))
  \/ \E s \in SUBSET Places : /\ task = [kind |-> "return", left |-> s]
                              /\ s # {} /\ \A i \in s : moves[i].direction = "OUT"

KeysOnce == \A i, j \in Places : moves[i].key = moves[j].key => i = j

IssuesLeave == \A i \in Places : \A d \in Documents : \A l \in Nat :
                 moves[i].key = IssueKey(d, l) => moves[i].direction = "OUT"

\* A movement that reverses another is later, and is its mirror.
Mirrors ==
  \A i \in Places : moves[i].reverses # 0 =>
    /\ moves[i].reverses \in 1..i-1
    /\ moves[moves[i].reverses].direction = "OUT"
    /\ moves[i].cost = moves[moves[i].reverses].cost
    /\ moves[i].qty = moves[moves[i].reverses].qty
    /\ moves[i].godown = moves[moves[i].reverses].godown

\* The caller's key names no other transfer.
Alone(t) == \A u \in Transfers : u.key = t.key => u = t

\* What left for a transfer is what it says, and what arrives by it is what left.
LegsFit == \A t \in Transfers : Alone(t) =>
  \A i \in Places : moves[i].key = Leg(t, "out") => moves[i].qty = t.qty

ArrivalsFit == \A t \in Transfers : Alone(t) =>
  \A i \in Places : moves[i].key = Leg(t, "in") =>
    \E j \in 1..i-1 : moves[j].key = Leg(t, "out") /\ moves[j].qty = moves[i].qty /\ moves[j].cost = moves[i].cost

OnTheWay ==
  crashes = 0 => \A t \in Transfers :
    HasKey(Leg(t, "out")) => HasKey(Leg(t, "in")) \/ (task.kind = "transfer" /\ task.of.key = t.key)

MovesFit == moves \in Seq(Move) /\ KeysOnce /\ IssuesLeave /\ Mirrors /\ LegsFit /\ ArrivalsFit

IInv ==
  /\ MovesFit
  /\ held \in SUBSET Documents
  /\ booked \in [Godowns -> Int] /\ BooksMatchReport
  /\ crashes \in Nat
  /\ TaskFits
  /\ OnTheWay

-----------------------------------------------------------------------------
(* What a new movement must be, and what then stays true of them all *)

Welcome(m) ==
  /\ ~HasKey(m.key)
  /\ \A d \in Documents : \A l \in Nat : m.key = IssueKey(d, l) => m.direction = "OUT"
  /\ m.reverses # 0 =>
       /\ m.direction = "IN"
       /\ m.reverses \in Places
       /\ LET i == m.reverses IN
            moves[i].direction = "OUT" /\ m.cost = moves[i].cost /\ m.qty = moves[i].qty /\ m.godown = moves[i].godown
  /\ \A t \in Transfers : Alone(t) /\ m.key = Leg(t, "out") => m.qty = t.qty
  /\ \A t \in Transfers : Alone(t) /\ m.key = Leg(t, "in") =>
       /\ m.direction = "IN"
       /\ \E i \in Places : moves[i].key = Leg(t, "out") /\ moves[i].qty = m.qty /\ moves[i].cost = m.cost

\* What is kept of a list of movements when more come after them
LEMMA Grown ==
  ASSUME moves \in Seq(Move), NEW new \in Seq(Move), Insert(new)
  PROVE  /\ Len(moves) \in Nat /\ Places = 1..Len(moves)
         /\ Places' = 1..Len(moves')
         /\ Len(moves') = Len(moves) + Len(new) /\ moves' \in Seq(Move)
         /\ \A i \in Places : i \in Places' /\ moves'[i] = moves[i]
         /\ \A i \in Places' \ Places : \E j \in DOMAIN new : i = Len(moves) + j /\ Alike(moves'[i], new[j])
         /\ \A j \in DOMAIN new : Len(moves) + j \in Places' /\ Alike(moves'[Len(moves) + j], new[j])
<1> DEFINE l == Len(moves)
<1>1. /\ l \in Nat /\ Places = 1..l /\ Len(new) \in Nat /\ DOMAIN new = 1..Len(new)
  BY MovesAre DEF Places
<1>2. Joined(moves', moves, new)
  BY InsertIs
<1>3. /\ moves' \in Seq(Move) /\ Len(moves') = l + Len(new)
      /\ \A i \in 1..l : moves'[i] = moves[i]
      /\ \A j \in 1..Len(new) : Alike(moves'[l + j], new[j])
  BY <1>2 DEF Joined
<1>4. Places' = 1..l + Len(new)
  <2>1. DOMAIN moves' = 1..Len(moves')
    BY <1>3, LenProperties
  <2> QED BY <1>3, <2>1 DEF Places
<1>5. ASSUME NEW i \in Places' \ Places
      PROVE  \E j \in DOMAIN new : i = l + j /\ Alike(moves'[i], new[j])
  <2>1. i - l \in DOMAIN new /\ i = l + (i - l)
    BY <1>1, <1>4
  <2>2. Alike(moves'[l + (i - l)], new[i - l])
    BY <1>1, <1>3, <2>1
  <2> QED BY <2>1, <2>2
<1>6. \A j \in DOMAIN new : l + j \in Places'
  BY <1>1, <1>4
<1>7. \A i \in Places : i \in Places'
  BY <1>1, <1>4
<1> QED BY <1>1, <1>3, <1>4, <1>5, <1>6, <1>7

\* A key is there when it was there or a new movement has it.
LEMMA KeysGrow ==
  ASSUME moves \in Seq(Move), NEW new \in Seq(Move), Insert(new), NEW key
  PROVE  HasKey(key)' <=> HasKey(key) \/ \E j \in DOMAIN new : new[j].key = key
<1>1. \A i \in Places : i \in Places' /\ moves'[i] = moves[i]
  BY Grown
<1>2. \A i \in Places' \ Places : \E j \in DOMAIN new : moves'[i].key = new[j].key
  BY Grown DEF Alike
<1>3. \A j \in DOMAIN new : \E i \in Places' : moves'[i].key = new[j].key
  BY Grown DEF Alike
<1> QED BY <1>1, <1>2, <1>3 DEF HasKey

LEMMA FitsOn ==
  ASSUME MovesFit, NEW new \in Seq(Move), Insert(new),
         \A j \in DOMAIN new : Welcome(new[j]),
         \A i, j \in DOMAIN new : new[i].key = new[j].key => i = j
  PROVE  MovesFit'
<1>1. moves \in Seq(Move)
  BY DEF MovesFit
<1>2. /\ Len(moves) \in Nat /\ Places = 1..Len(moves)
      /\ moves' \in Seq(Move)
      /\ \A i \in Places : i \in Places' /\ moves'[i] = moves[i]
  BY <1>1, Grown
<1>3. \A i \in Places' \ Places : \E j \in DOMAIN new : i = Len(moves) + j /\ Alike(moves'[i], new[j])
  BY <1>1, Grown
<1>4. DOMAIN new \subseteq Nat \ {0}
  BY MovesAre
<1>10. \A i \in Places' \ Places : \A j \in Places : moves'[i].key # moves[j].key
  <2> TAKE i \in Places' \ Places
  <2>1. PICK k \in DOMAIN new : moves'[i].key = new[k].key
    BY <1>3 DEF Alike
  <2>2. ~HasKey(new[k].key)
    BY DEF Welcome
  <2> QED BY <2>1, <2>2 DEF HasKey
<1>5. KeysOnce'
  <2> SUFFICES ASSUME NEW i \in Places', NEW j \in Places', moves'[i].key = moves'[j].key PROVE i = j
    BY DEF KeysOnce
  <2>1. CASE i \in Places /\ j \in Places
    BY <1>2, <2>1 DEF MovesFit, KeysOnce
  <2>2. CASE i \in Places /\ j \notin Places
    BY <1>2, <1>10, <2>2
  <2>3. CASE i \notin Places /\ j \in Places
    BY <1>2, <1>10, <2>3
  <2>4. CASE i \notin Places /\ j \notin Places
    <3>1. PICK a \in DOMAIN new : i = Len(moves) + a /\ moves'[i].key = new[a].key
      BY <1>3, <2>4 DEF Alike
    <3>2. PICK b \in DOMAIN new : j = Len(moves) + b /\ moves'[j].key = new[b].key
      BY <1>3, <2>4 DEF Alike
    <3> QED BY <3>1, <3>2
  <2> QED BY <2>1, <2>2, <2>3, <2>4
<1>6. IssuesLeave'
  <2> SUFFICES ASSUME NEW i \in Places', NEW d \in Documents, NEW l \in Nat, moves'[i].key = IssueKey(d, l)
               PROVE  moves'[i].direction = "OUT"
    BY DEF IssuesLeave, IssueKey
  <2>1. CASE i \in Places
    BY <1>2, <2>1 DEF MovesFit, IssuesLeave
  <2>2. CASE i \notin Places
    <3>1. PICK j \in DOMAIN new : moves'[i].key = new[j].key /\ moves'[i].direction = new[j].direction
      BY <1>3, <2>2 DEF Alike
    <3>2. new[j].key = IssueKey(d, l) => new[j].direction = "OUT"
      BY DEF Welcome
    <3> QED BY <3>1, <3>2
  <2> QED BY <2>1, <2>2
<1>7. Mirrors'
  <2> SUFFICES ASSUME NEW i \in Places', moves'[i].reverses # 0
               PROVE  /\ moves'[i].reverses \in 1..i-1
                      /\ moves'[moves'[i].reverses].direction = "OUT"
                      /\ moves'[i].cost = moves'[moves'[i].reverses].cost
                      /\ moves'[i].qty = moves'[moves'[i].reverses].qty
                      /\ moves'[i].godown = moves'[moves'[i].reverses].godown
    BY DEF Mirrors
  <2> DEFINE r == moves'[i].reverses
  <2>1. CASE i \in Places
    <3>1. /\ moves[i].reverses = r /\ moves'[i] = moves[i] /\ r \in 1..i-1
          /\ moves[r].direction = "OUT" /\ moves[i].cost = moves[r].cost
          /\ moves[i].qty = moves[r].qty /\ moves[i].godown = moves[r].godown
      BY <1>2, <2>1 DEF MovesFit, Mirrors
    <3>2. r \in Places
      BY <1>2, <2>1, <3>1
    <3>3. moves'[r] = moves[r]
      BY <1>2, <3>2
    <3> QED BY <3>1, <3>3
  <2>2. CASE i \notin Places
    <3>1. PICK j \in DOMAIN new : i = Len(moves) + j /\ Alike(moves'[i], new[j])
      BY <1>3, <2>2
    <3>2. new[j].reverses = r /\ r # 0
      BY <3>1 DEF Alike
    <3>3. /\ new[j].direction = "IN" /\ r \in Places
          /\ moves[r].direction = "OUT" /\ new[j].cost = moves[r].cost
          /\ new[j].qty = moves[r].qty /\ new[j].godown = moves[r].godown
      BY <3>2 DEF Welcome
    <3>4. moves'[i] = new[j] /\ moves'[r] = moves[r]
      BY <1>2, <3>1, <3>3 DEF Alike
    <3>5. r \in 1..i-1
      <4> HIDE DEF r
      <4> QED BY <1>2, <1>4, <3>1, <3>3
    <3> QED BY <3>3, <3>4, <3>5
  <2> QED BY <2>1, <2>2
<1>8. LegsFit'
  <2> SUFFICES ASSUME NEW t \in Transfers, Alone(t), NEW i \in Places', moves'[i].key = Leg(t, "out")
               PROVE  moves'[i].qty = t.qty
    BY DEF LegsFit, Leg, Alone
  <2>1. CASE i \in Places
    BY <1>2, <2>1 DEF MovesFit, LegsFit
  <2>2. CASE i \notin Places
    <3>1. PICK j \in DOMAIN new : moves'[i].key = new[j].key /\ moves'[i].qty = new[j].qty
      BY <1>3, <2>2 DEF Alike
    <3>2. new[j].key = Leg(t, "out") => new[j].qty = t.qty
      BY DEF Welcome
    <3> QED BY <3>1, <3>2
  <2> QED BY <2>1, <2>2
<1>9. ArrivalsFit'
  <2> SUFFICES ASSUME NEW t \in Transfers, Alone(t), NEW i \in Places', moves'[i].key = Leg(t, "in")
               PROVE  \E j \in 1..i-1 : /\ moves'[j].key = Leg(t, "out")
                                        /\ moves'[j].qty = moves'[i].qty /\ moves'[j].cost = moves'[i].cost
    BY DEF ArrivalsFit, Leg, Alone
  <2>1. CASE i \in Places
    <3>1. PICK j \in 1..i-1 : /\ moves[j].key = Leg(t, "out")
                              /\ moves[j].qty = moves[i].qty /\ moves[j].cost = moves[i].cost
      BY <1>2, <2>1 DEF MovesFit, ArrivalsFit
    <3>2. j \in Places
      BY <1>2, <2>1
    <3> QED BY <1>2, <2>1, <3>1, <3>2
  <2>2. CASE i \notin Places
    <3>1. PICK k \in DOMAIN new : i = Len(moves) + k /\ Alike(moves'[i], new[k])
      BY <1>3, <2>2
    <3>2. new[k].key = Leg(t, "in")
      BY <3>1 DEF Alike
    <3>3. new[k].direction = "IN"
      BY <3>2 DEF Welcome
    <3>4. PICK j \in Places : moves[j].key = Leg(t, "out") /\ moves[j].qty = new[k].qty /\ moves[j].cost = new[k].cost
      BY <3>2 DEF Welcome
    <3>5. moves'[i] = new[k] /\ moves'[j] = moves[j]
      BY <1>2, <3>1, <3>3 DEF Alike
    <3>6. j \in 1..i-1
      BY <1>2, <1>4, <3>1
    <3> QED BY <3>4, <3>5, <3>6
  <2> QED BY <2>1, <2>2
<1> QED BY <1>2, <1>5, <1>6, <1>7, <1>8, <1>9 DEF MovesFit

LEMMA BooksFollow ==
  ASSUME moves \in Seq(Move), NEW new \in Seq(Move), Insert(new),
         booked \in [Godowns -> Int], BooksMatchReport
  PROVE  booked' \in [Godowns -> Int] /\ BooksMatchReport'
<1>1. moves' \in Seq(Move)
  BY Grown
<1>2. \A g \in Godowns : ValueOf(moves, g).value \in Int /\ ValueOf(moves', g).value \in Int
  BY <1>1, ValueIs DEF Stocks
<1>3. booked' = [g \in Godowns |-> booked[g] + ValueOf(moves', g).value - ValueOf(moves, g).value]
  BY DEF Insert
<1>4. \A g \in Godowns : booked[g] \in Int /\ booked[g] = ValueOf(moves, g).value
  BY DEF BooksMatchReport
<1>5. ASSUME NEW g \in Godowns PROVE booked'[g] = ValueOf(moves', g).value /\ booked'[g] \in Int
  BY <1>2, <1>3, <1>4
<1>6. booked' \in [Godowns -> Int]
  BY <1>3, <1>5
<1> QED BY <1>5, <1>6 DEF BooksMatchReport

-----------------------------------------------------------------------------
(* Every step preserves the invariant *)

LEMMA Initially == Init => IInv
<1> SUFFICES ASSUME Init PROVE IInv
  OBVIOUS
<1>1. moves \in Seq(Move) /\ Len(moves) = 0 /\ Places = {}
  BY DEF Init, Places
<1>2. \A g \in Godowns : ValueOf(moves, g).value = 0
  <2> TAKE g \in Godowns
  <2>1. ValueOf(moves, g) = NoStock
    BY <1>1, ValueIs
  <2> QED BY <2>1 DEF NoStock
<1>3. MovesFit
  BY <1>1 DEF MovesFit, KeysOnce, IssuesLeave, Mirrors, LegsFit, ArrivalsFit
<1>4. booked \in [Godowns -> Int] /\ BooksMatchReport
  BY <1>2 DEF Init, BooksMatchReport
<1>5. TaskFits /\ OnTheWay
  BY <1>1 DEF Init, TaskFits, OnTheWay, HasKey
<1> QED BY <1>3, <1>4, <1>5 DEF Init, IInv

\* The movements of transfers are those there were.
SameLegs ==
  \A t \in Transfers : /\ HasKey(Leg(t, "in"))' <=> HasKey(Leg(t, "in"))
                       /\ HasKey(Leg(t, "out"))' <=> HasKey(Leg(t, "out"))

\* What is not a leg of a transfer changes nothing about transfers under way.
LEMMA TaskStays ==
  ASSUME IInv, NEW new \in Seq(Move), Insert(new), UNCHANGED <<task, crashes>>,
         \A j \in DOMAIN new : \A t \in Transfers : new[j].key \notin {Leg(t, "in"), Leg(t, "out")}
  PROVE  TaskFits' /\ OnTheWay'
<1>1. moves \in Seq(Move)
  BY DEF IInv, MovesFit
<1>2. SameLegs
  <2> SUFFICES ASSUME NEW t \in Transfers
               PROVE  /\ HasKey(Leg(t, "in"))' <=> HasKey(Leg(t, "in"))
                      /\ HasKey(Leg(t, "out"))' <=> HasKey(Leg(t, "out"))
    BY DEF SameLegs, HasKey, Leg
  <2>1. HasKey(Leg(t, "in"))' <=> HasKey(Leg(t, "in")) \/ \E j \in DOMAIN new : new[j].key = Leg(t, "in")
    BY <1>1, KeysGrow DEF HasKey, Leg
  <2>2. HasKey(Leg(t, "out"))' <=> HasKey(Leg(t, "out")) \/ \E j \in DOMAIN new : new[j].key = Leg(t, "out")
    BY <1>1, KeysGrow DEF HasKey, Leg
  <2> QED BY <2>1, <2>2
<1>3. \A i \in Places : i \in Places' /\ moves'[i] = moves[i]
  BY <1>1, Grown
<1>4. OnTheWay'
  BY <1>2 DEF IInv, OnTheWay, SameLegs
<1>5. TaskFits'
  <2>1. CASE task = Idle
    BY <2>1 DEF TaskFits, Idle
  <2>2. ASSUME NEW t \in Transfers, task = [kind |-> "transfer", of |-> t], HasKey(Leg(t, "out")), ~HasKey(Leg(t, "in"))
        PROVE  TaskFits'
    BY <1>2, <2>2 DEF TaskFits, SameLegs
  <2>3. ASSUME NEW s \in SUBSET Places, task = [kind |-> "return", left |-> s], s # {},
               \A i \in s : moves[i].direction = "OUT"
        PROVE  TaskFits'
    <3>1. s \in SUBSET Places' /\ \A i \in s : moves'[i].direction = "OUT"
      BY <1>3, <2>3
    <3> QED BY <2>3, <3>1 DEF TaskFits
  <2> QED BY <2>1, <2>2, <2>3 DEF IInv, TaskFits
<1> QED BY <1>4, <1>5

\* Without a movement nothing changes about the movements.
LEMMA Unmoved ==
  ASSUME IInv, UNCHANGED <<moves, booked>>
  PROVE  /\ MovesFit' /\ booked' \in [Godowns -> Int] /\ BooksMatchReport'
         /\ SameLegs
         /\ (UNCHANGED task => TaskFits')
<1>1. MovesFit'
  BY DEF IInv, MovesFit, KeysOnce, IssuesLeave, Mirrors, LegsFit, ArrivalsFit, Places, Leg, Alone, IssueKey
<1>2. booked' \in [Godowns -> Int] /\ BooksMatchReport'
  BY DEF IInv, BooksMatchReport
<1>3. SameLegs
  BY DEF HasKey, Places, Leg, SameLegs
<1>4. UNCHANGED task => TaskFits'
  BY <1>3 DEF IInv, TaskFits, Places, Idle, SameLegs
<1> QED BY <1>1, <1>2, <1>3, <1>4

LEMMA OneNew ==
  ASSUME NEW m \in Move
  PROVE  <<m>> \in Seq(Move) /\ DOMAIN <<m>> = {1} /\ <<m>>[1] = m /\ Len(<<m>>) = 1
OBVIOUS

LEMMA OneFits ==
  ASSUME IInv, NEW m \in Move, Insert(<<m>>), Welcome(m)
  PROVE  MovesFit' /\ booked' \in [Godowns -> Int] /\ BooksMatchReport'
<1> DEFINE new == <<m>>
<1>1. new \in Seq(Move) /\ DOMAIN new = {1} /\ new[1] = m
  BY OneNew
<1>2. Insert(new) /\ \A j \in DOMAIN new : Welcome(new[j])
  BY <1>1
<1> HIDE DEF new
<1>3. MovesFit /\ booked \in [Godowns -> Int] /\ BooksMatchReport /\ moves \in Seq(Move)
  BY DEF IInv, MovesFit
<1>4. MovesFit'
  BY <1>1, <1>2, <1>3, FitsOn
<1>5. booked' \in [Godowns -> Int] /\ BooksMatchReport'
  BY <1>1, <1>2, <1>3, BooksFollow
<1> QED BY <1>4, <1>5

LEMMA LegsGrow ==
  ASSUME moves \in Seq(Move), NEW m \in Move, Insert(<<m>>)
  PROVE  \A t \in Transfers :
           /\ HasKey(Leg(t, "in"))' <=> HasKey(Leg(t, "in")) \/ m.key = Leg(t, "in")
           /\ HasKey(Leg(t, "out"))' <=> HasKey(Leg(t, "out")) \/ m.key = Leg(t, "out")
<1> DEFINE new == <<m>>
<1>1. new \in Seq(Move) /\ DOMAIN new = {1} /\ new[1] = m /\ Insert(new)
  BY OneNew
<1> HIDE DEF new
<1> TAKE t \in Transfers
<1>2. HasKey(Leg(t, "in"))' <=> HasKey(Leg(t, "in")) \/ \E j \in DOMAIN new : new[j].key = Leg(t, "in")
  BY <1>1, KeysGrow DEF HasKey, Leg
<1>3. HasKey(Leg(t, "out"))' <=> HasKey(Leg(t, "out")) \/ \E j \in DOMAIN new : new[j].key = Leg(t, "out")
  BY <1>1, KeysGrow DEF HasKey, Leg
<1> QED BY <1>1, <1>2, <1>3

LEMMA KeysDiffer ==
  /\ \A r, t : Command(r) \notin {Leg(t, "in"), Leg(t, "out")}
  /\ \A r, d, l : Command(r) # IssueKey(d, l)
  /\ \A d, l, t : IssueKey(d, l) \notin {Leg(t, "in"), Leg(t, "out")}
  /\ \A i, t : ReturnKey(i) \notin {Leg(t, "in"), Leg(t, "out")}
  /\ \A i, d, l : ReturnKey(i) # IssueKey(d, l)
  /\ \A t, u : Leg(t, "in") # Leg(u, "out")
  /\ \A t, u, leg : Leg(t, leg) = Leg(u, leg) => t.key = u.key
  /\ \A d, l, e, k : IssueKey(d, l) = IssueKey(e, k) => l = k
BY DEF Command, Leg, IssueKey, ReturnKey

LEMMA ReceivePreserves ==
  ASSUME IInv, NEW r \in Incoming, Receive(r)
  PROVE  IInv'
<1> DEFINE m == Movement(Command(r), "IN", r.godown, r.qty, r.cost, r.date, 0)
<1>1. m \in Move
  BY InventoryAssumption DEF Movement, Move, AllKeys
<1>2. Insert(<<m>>) /\ ~HasKey(Command(r)) /\ UNCHANGED <<held, task, crashes>>
  BY DEF Receive
<1>3. m.key = Command(r) /\ m.reverses = 0
  BY DEF Movement
<1> HIDE DEF m
<1>4. Welcome(m)
  BY <1>2, <1>3, KeysDiffer DEF Welcome
<1>5. MovesFit' /\ booked' \in [Godowns -> Int] /\ BooksMatchReport'
  BY <1>1, <1>2, <1>4, OneFits
<1>6. TaskFits' /\ OnTheWay'
  <2>1. \A j \in DOMAIN <<m>> : \A t \in Transfers : <<m>>[j].key \notin {Leg(t, "in"), Leg(t, "out")}
    BY <1>1, <1>3, OneNew, KeysDiffer
  <2> QED BY <1>1, <1>2, <2>1, OneNew, TaskStays
<1> QED BY <1>2, <1>5, <1>6 DEF IInv

LEMMA LosePreserves ==
  ASSUME IInv, NEW o \in Outgoing, Lose(o)
  PROVE  IInv'
<1> DEFINE m == Movement(Command(o), "OUT", o.godown, o.qty, NoCost, o.date, 0)
<1>1. m \in Move
  BY InventoryAssumption DEF Movement, Move, AllKeys, NoCost
<1>2. Insert(<<m>>) /\ ~HasKey(Command(o)) /\ UNCHANGED <<held, task, crashes>>
  BY DEF Lose
<1>3. m.key = Command(o) /\ m.reverses = 0
  BY DEF Movement
<1> HIDE DEF m
<1>4. Welcome(m)
  BY <1>2, <1>3, KeysDiffer DEF Welcome
<1>5. MovesFit' /\ booked' \in [Godowns -> Int] /\ BooksMatchReport'
  BY <1>1, <1>2, <1>4, OneFits
<1>6. TaskFits' /\ OnTheWay'
  <2>1. \A j \in DOMAIN <<m>> : \A t \in Transfers : <<m>>[j].key \notin {Leg(t, "in"), Leg(t, "out")}
    BY <1>1, <1>3, OneNew, KeysDiffer
  <2> QED BY <1>1, <1>2, <2>1, OneNew, TaskStays
<1> QED BY <1>2, <1>5, <1>6 DEF IInv

LEMMA TransferOutPreserves ==
  ASSUME IInv, NEW t \in Transfers, TransferOut(t)
  PROVE  IInv'
<1> DEFINE m == Movement(Leg(t, "out"), "OUT", t.from, t.qty, NoCost, t.date, 0)
<1>1. m \in Move
  BY InventoryAssumption DEF Movement, Move, AllKeys, NoCost
<1>2. /\ task = Idle /\ ~HasKey(Leg(t, "in")) /\ task' = [kind |-> "transfer", of |-> t]
      /\ UNCHANGED <<held, crashes>>
  BY DEF TransferOut
<1>3. moves \in Seq(Move)
  BY DEF IInv, MovesFit
<1>4. task'.kind = "transfer" /\ task'.of.key = t.key /\ task.kind # "transfer"
  BY <1>2 DEF Idle
<1>5. CASE HasKey(Leg(t, "out"))
  <2>1. UNCHANGED <<moves, booked>>
    BY <1>5 DEF TransferOut
  <2>2. /\ MovesFit' /\ booked' \in [Godowns -> Int] /\ BooksMatchReport'
        /\ SameLegs
    BY <2>1, Unmoved
  <2>3. TaskFits'
    BY <1>2, <1>5, <2>2 DEF TaskFits, SameLegs
  <2>4. OnTheWay'
    BY <1>2, <1>4, <2>2 DEF IInv, OnTheWay, SameLegs
  <2> QED BY <1>2, <2>2, <2>3, <2>4 DEF IInv
<1>6. CASE ~HasKey(Leg(t, "out"))
  <2>1. Insert(<<m>>)
    BY <1>6 DEF TransferOut
  <2>2. m.key = Leg(t, "out") /\ m.reverses = 0 /\ m.qty = t.qty
    BY DEF Movement
  <2> HIDE DEF m
  <2>3. Welcome(m)
    BY <1>6, <2>2, KeysDiffer DEF Welcome, Alone
  <2>4. MovesFit' /\ booked' \in [Godowns -> Int] /\ BooksMatchReport'
    BY <1>1, <2>1, <2>3, OneFits
  <2>5. \A u \in Transfers : /\ HasKey(Leg(u, "in"))' <=> HasKey(Leg(u, "in"))
                             /\ HasKey(Leg(u, "out"))' <=> HasKey(Leg(u, "out")) \/ Leg(u, "out") = Leg(t, "out")
    BY <1>1, <1>3, <2>1, <2>2, LegsGrow, KeysDiffer
  <2>6. TaskFits'
    BY <1>2, <2>5 DEF TaskFits
  <2>7. OnTheWay'
    BY <1>2, <1>4, <2>5, KeysDiffer DEF IInv, OnTheWay
  <2> QED BY <1>2, <2>4, <2>6, <2>7 DEF IInv
<1> QED BY <1>5, <1>6

\* The transfer under way, and what its first movement cost
LEMMA UnderWay ==
  ASSUME IInv, task.kind = "transfer"
  PROVE  /\ task.of \in Transfers /\ ~HasKey(Leg(task.of, "in"))
         /\ task = [kind |-> "transfer", of |-> task.of]
         /\ \E i \in Places : moves[i].key = Leg(task.of, "out") /\ moves[i].cost = CostOf(Leg(task.of, "out"))
         /\ CostOf(Leg(task.of, "out")) \in Int
<1>1. PICK t \in Transfers : /\ task = [kind |-> "transfer", of |-> t]
                             /\ HasKey(Leg(t, "out")) /\ ~HasKey(Leg(t, "in"))
  BY DEF IInv, TaskFits, Idle
<1>2. task.of = t
  BY <1>1
<1> DEFINE i == CHOOSE i \in Places : moves[i].key = Leg(t, "out")
<1>3. i \in Places /\ moves[i].key = Leg(t, "out") /\ CostOf(Leg(t, "out")) = moves[i].cost
  BY <1>1 DEF HasKey, CostOf
<1>4. moves[i] \in Move
  <2> HIDE DEF i
  <2> QED BY <1>3, MovesAre DEF IInv, MovesFit, Places
<1>5. moves[i].cost \in Int
  BY <1>4 DEF Move
<1> HIDE DEF i
<1> QED BY <1>1, <1>2, <1>3, <1>5

LEMMA TransferInPreserves ==
  ASSUME IInv, TransferIn
  PROVE  IInv'
<1> DEFINE t == task.of
           c == CostOf(Leg(t, "out"))
           m == Movement(Leg(t, "in"), "IN", t.to, t.qty, c, t.date, 0)
<1>1. /\ t \in Transfers /\ ~HasKey(Leg(t, "in")) /\ task = [kind |-> "transfer", of |-> t]
      /\ c \in Int
      /\ \E i \in Places : moves[i].key = Leg(t, "out") /\ moves[i].cost = c
  BY UnderWay DEF TransferIn
<1>2. Insert(<<m>>) /\ task' = Idle /\ UNCHANGED <<held, crashes>>
  BY DEF TransferIn
<1>3. moves \in Seq(Move)
  BY DEF IInv, MovesFit
<1> HIDE DEF t, c
<1>4. m \in Move
  BY <1>1, InventoryAssumption DEF Movement, Move, AllKeys
<1>5. m.key = Leg(t, "in") /\ m.reverses = 0 /\ m.qty = t.qty /\ m.direction = "IN" /\ m.cost = c
  BY DEF Movement
<1> HIDE DEF m
<1>6. Welcome(m)
  <2>1. ASSUME NEW u \in Transfers, Alone(u), m.key = Leg(u, "in")
        PROVE  \E i \in Places : moves[i].key = Leg(u, "out") /\ moves[i].qty = m.qty /\ moves[i].cost = m.cost
    <3>1. t = u
      BY <1>1, <1>5, <2>1, KeysDiffer DEF Alone
    <3>2. PICK i \in Places : moves[i].key = Leg(t, "out") /\ moves[i].cost = c
      BY <1>1
    <3>3. moves[i].qty = t.qty
      BY <1>1, <2>1, <3>1, <3>2 DEF IInv, MovesFit, LegsFit
    <3> QED BY <1>5, <3>1, <3>2, <3>3
  <2> QED BY <1>1, <1>5, <2>1, KeysDiffer DEF Welcome
<1>7. MovesFit' /\ booked' \in [Godowns -> Int] /\ BooksMatchReport'
  BY <1>2, <1>4, <1>6, OneFits
<1>8. \A u \in Transfers : /\ HasKey(Leg(u, "in"))' <=> HasKey(Leg(u, "in")) \/ Leg(u, "in") = Leg(t, "in")
                           /\ HasKey(Leg(u, "out"))' <=> HasKey(Leg(u, "out"))
  BY <1>2, <1>3, <1>4, <1>5, LegsGrow, KeysDiffer
<1>9. TaskFits'
  BY <1>2 DEF TaskFits, Idle
<1>10. OnTheWay'
  <2> SUFFICES ASSUME crashes = 0, NEW u \in Transfers, HasKey(Leg(u, "out"))' PROVE HasKey(Leg(u, "in"))'
    BY <1>2 DEF OnTheWay, Leg
  <2>1. HasKey(Leg(u, "in")) \/ t.key = u.key
    BY <1>1, <1>8 DEF IInv, OnTheWay
  <2>2. t.key = u.key => Leg(u, "in") = Leg(t, "in")
    BY DEF Leg
  <2> QED BY <1>8, <2>1, <2>2
<1> QED BY <1>2, <1>7, <1>9, <1>10 DEF IInv

\* Holds are made and dropped without a movement.
LEMMA HoldsPreserve ==
  ASSUME IInv, UNCHANGED <<moves, booked, task, crashes>>, held' \in SUBSET Documents
  PROVE  IInv'
<1>1. MovesFit' /\ booked' \in [Godowns -> Int] /\ BooksMatchReport' /\ TaskFits' /\ SameLegs
  BY Unmoved
<1>3. OnTheWay'
  BY <1>1 DEF IInv, OnTheWay, SameLegs
<1> QED BY <1>1, <1>3 DEF IInv

LEMMA IssuePreserves ==
  ASSUME IInv, NEW d \in Documents, NEW date \in 1..LastDate, Issue(d, date)
  PROVE  IInv'
<1>1. held' \in SUBSET Documents /\ UNCHANGED <<task, crashes>>
  BY DEF Issue, IInv, Bare
<1>2. CASE Issued(d)
  <2>1. UNCHANGED <<moves, booked>>
    BY <1>2 DEF Issue
  <2> QED BY <1>1, <2>1, HoldsPreserve
<1>3. CASE ~Issued(d)
  <2> DEFINE new == Leaving(d, date)
  <2>1. Insert(new)
    BY <1>3 DEF Issue
  <2>2. new \in Seq(Move) /\ DOMAIN new = DOMAIN Lines[d]
    BY LeavingIs
  <2>3. \A j \in DOMAIN new : new[j].key = IssueKey(d, j) /\ new[j].reverses = 0 /\ new[j].direction = "OUT"
    BY <2>2 DEF Leaving, Movement
  <2> HIDE DEF new
  <2>4. \A j \in DOMAIN new : Welcome(new[j])
    <3> TAKE j \in DOMAIN new
    <3>1. ~HasKey(IssueKey(d, j))
      BY <1>3, <2>2 DEF Issued
    <3> QED BY <2>3, <3>1, KeysDiffer DEF Welcome
  <2>5. \A i, j \in DOMAIN new : new[i].key = new[j].key => i = j
    BY <2>3, KeysDiffer
  <2>6. MovesFit /\ booked \in [Godowns -> Int] /\ BooksMatchReport /\ moves \in Seq(Move)
    BY DEF IInv, MovesFit
  <2>7. MovesFit'
    BY <2>1, <2>2, <2>4, <2>5, <2>6, FitsOn
  <2>8. booked' \in [Godowns -> Int] /\ BooksMatchReport'
    BY <2>1, <2>2, <2>6, BooksFollow
  <2>9. TaskFits' /\ OnTheWay'
    BY <1>1, <2>1, <2>2, <2>3, KeysDiffer, TaskStays
  <2> QED BY <1>1, <2>7, <2>8, <2>9 DEF IInv
<1> QED BY <1>2, <1>3

LEMMA ReturnBeginPreserves ==
  ASSUME IInv, NEW d \in Documents, ReturnBegin(d)
  PROVE  IInv'
<1>1. /\ task = Idle /\ WentOut(d) # {} /\ task' = [kind |-> "return", left |-> WentOut(d)]
      /\ UNCHANGED <<moves, held, booked, crashes>>
  BY DEF ReturnBegin
<1>2. MovesFit' /\ booked' \in [Godowns -> Int] /\ BooksMatchReport'
  BY <1>1, Unmoved
<1>3. SameLegs
  BY <1>1, Unmoved
<1>4. \A i \in WentOut(d) : i \in Places /\ moves[i].direction = "OUT"
  <2> TAKE i \in WentOut(d)
  <2>1. PICK l \in DOMAIN Lines[d] : moves[i].key = IssueKey(d, l)
    BY DEF WentOut
  <2>2. l \in Nat /\ i \in Places
    BY LinesAre DEF WentOut
  <2> QED BY <2>1, <2>2 DEF IInv, MovesFit, IssuesLeave
<1>5. TaskFits'
  <2>1. WentOut(d) \in SUBSET Places' /\ \A i \in WentOut(d) : moves'[i].direction = "OUT"
    BY <1>1, <1>4 DEF Places
  <2> QED BY <1>1, <2>1 DEF TaskFits
<1>6. OnTheWay'
  BY <1>1, <1>3 DEF IInv, OnTheWay, Idle, SameLegs
<1> QED BY <1>1, <1>2, <1>5, <1>6 DEF IInv

\* The return under way, and its next movement
LEMMA ComingBack ==
  ASSUME IInv, task.kind = "return", NEW i \in Places, Earliest(i)
  PROVE  /\ task = [kind |-> "return", left |-> task.left]
         /\ task.left \in SUBSET Places /\ i \in task.left
         /\ \A j \in task.left : moves[j].direction = "OUT"
         /\ moves[i] \in Move
         /\ Mirror(i) \in Move
         /\ Mirror(i).key = ReturnKey(i) /\ Mirror(i).direction = "IN" /\ Mirror(i).reverses = i
         /\ Mirror(i).cost = moves[i].cost /\ Mirror(i).qty = moves[i].qty /\ Mirror(i).godown = moves[i].godown
<1>1. PICK s \in SUBSET Places : /\ task = [kind |-> "return", left |-> s]
                                 /\ s # {} /\ \A j \in s : moves[j].direction = "OUT"
  BY DEF IInv, TaskFits, Idle
<1>2. task.left = s
  BY <1>1
<1>3. moves[i] \in Move /\ i \in Nat
  BY MovesAre DEF IInv, MovesFit, Places
<1>4. ReturnKey(i) \in AllKeys
  BY <1>3 DEF AllKeys
<1>5. /\ Mirror(i) \in Move
      /\ Mirror(i).key = ReturnKey(i) /\ Mirror(i).direction = "IN" /\ Mirror(i).reverses = i
      /\ Mirror(i).cost = moves[i].cost /\ Mirror(i).qty = moves[i].qty /\ Mirror(i).godown = moves[i].godown
  <2> HIDE DEF AllKeys, ReturnKey
  <2> QED BY <1>3, <1>4 DEF Mirror, Move
<1> QED BY <1>1, <1>2, <1>3, <1>5 DEF Earliest

LEMMA ReturnPreserves ==
  ASSUME IInv, Return
  PROVE  IInv'
<1>1. PICK i \in Places : /\ Earliest(i)
                          /\ IF HasKey(ReturnKey(i)) THEN UNCHANGED <<moves, booked>> ELSE Insert(<<Mirror(i)>>)
                          /\ Returned(i)
  BY DEF Return
<1>2. task.kind = "return" /\ UNCHANGED <<held, crashes>>
  BY DEF Return
<1>3. moves \in Seq(Move)
  BY DEF IInv, MovesFit
<1> DEFINE s == task.left
           m == Mirror(i)
<1>4. /\ task = [kind |-> "return", left |-> s] /\ s \in SUBSET Places /\ i \in s
      /\ \A j \in s : moves[j].direction = "OUT"
  BY <1>1, <1>2, ComingBack
<1>5. /\ m \in Move /\ m.key = ReturnKey(i) /\ m.direction = "IN" /\ m.reverses = i
      /\ m.cost = moves[i].cost /\ m.qty = moves[i].qty /\ m.godown = moves[i].godown
  BY <1>1, <1>2, ComingBack
<1>6. task' = Idle \/ (s \ {i} # {} /\ task' = [kind |-> "return", left |-> s \ {i}])
  <2>1. s # {i} => task' = [kind |-> "return", left |-> s \ {i}]
    BY <1>1, <1>4 DEF Returned
  <2>2. s = {i} => task' = Idle
    BY <1>1 DEF Returned
  <2> HIDE DEF s
  <2> QED BY <1>4, <2>1, <2>2
<1>7. task'.kind # "transfer" /\ task.kind # "transfer"
  BY <1>2, <1>6 DEF Idle
<1> HIDE DEF s, m
<1>8. /\ MovesFit' /\ booked' \in [Godowns -> Int] /\ BooksMatchReport'
      /\ SameLegs
      /\ \A j \in Places : j \in Places' /\ moves'[j] = moves[j]
  <2>1. CASE HasKey(ReturnKey(i))
    <3>1. UNCHANGED <<moves, booked>>
      BY <1>1, <2>1
    <3> QED BY <3>1, Unmoved DEF Places
  <2>2. CASE ~HasKey(ReturnKey(i))
    <3>1. Insert(<<m>>)
      BY <1>1, <2>2 DEF m
    <3>2. Welcome(m)
      BY <1>4, <1>5, <2>2, KeysDiffer DEF Welcome
    <3>3. MovesFit' /\ booked' \in [Godowns -> Int] /\ BooksMatchReport'
      BY <1>5, <3>1, <3>2, OneFits
    <3>4. SameLegs
      BY <1>3, <1>5, <3>1, LegsGrow, KeysDiffer DEF SameLegs
    <3>5. \A j \in Places : j \in Places' /\ moves'[j] = moves[j]
      BY <1>3, <1>5, <3>1, OneNew, Grown
    <3> QED BY <3>3, <3>4, <3>5
  <2> QED BY <2>1, <2>2
<1>9. TaskFits'
  <2>1. s \ {i} \in SUBSET Places' /\ \A j \in s \ {i} : moves'[j].direction = "OUT"
    BY <1>4, <1>8
  <2> QED BY <1>6, <2>1 DEF TaskFits, Idle
<1>10. OnTheWay'
  BY <1>2, <1>7, <1>8 DEF IInv, OnTheWay, SameLegs
<1> QED BY <1>2, <1>8, <1>9, <1>10 DEF IInv

LEMMA CrashPreserves ==
  ASSUME IInv, Crash
  PROVE  IInv'
<1>1. crashes' = crashes + 1 /\ task' = Idle /\ UNCHANGED <<moves, held, booked>>
  BY DEF Crash
<1>2. MovesFit' /\ booked' \in [Godowns -> Int] /\ BooksMatchReport'
  BY <1>1, Unmoved
<1>3. crashes' \in Nat /\ crashes' # 0
  BY <1>1 DEF IInv
<1>4. TaskFits' /\ OnTheWay'
  BY <1>1, <1>3 DEF TaskFits, OnTheWay, Idle
<1> QED BY <1>1, <1>2, <1>3, <1>4 DEF IInv

LEMMA Inductively == IInv /\ [Next]_vars => IInv'
<1> SUFFICES ASSUME IInv, [Next]_vars PROVE IInv'
  OBVIOUS
<1>1. CASE \E r \in Incoming : Receive(r)
  BY <1>1, ReceivePreserves
<1>2. CASE \E o \in Outgoing : Lose(o)
  BY <1>2, LosePreserves
<1>3. CASE \E t \in Transfers : TransferOut(t)
  BY <1>3, TransferOutPreserves
<1>4. CASE TransferIn
  BY <1>4, TransferInPreserves
<1>5. CASE \E d \in Documents : Reserve(d)
  BY <1>5, HoldsPreserve DEF Reserve, Bare, IInv
<1>6. CASE \E d \in Documents : Release(d)
  BY <1>6, HoldsPreserve DEF Release, Bare, IInv
<1>7. CASE \E d \in Documents : ReturnBegin(d)
  BY <1>7, ReturnBeginPreserves
<1>8. CASE \E d \in Documents, date \in 1..LastDate : Issue(d, date)
  BY <1>8, IssuePreserves
<1>9. CASE Return
  BY <1>9, ReturnPreserves
<1>10. CASE Crash
  BY <1>10, CrashPreserves
<1>11. CASE UNCHANGED vars
  BY <1>11, HoldsPreserve DEF vars, IInv
<1> QED BY <1>1, <1>2, <1>3, <1>4, <1>5, <1>6, <1>7, <1>8, <1>9, <1>10, <1>11 DEF Next

-----------------------------------------------------------------------------
(* What the invariant says *)

LEMMA IsTypeOK == IInv => TypeOK
<1> SUFFICES ASSUME IInv PROVE TypeOK
  OBVIOUS
<1>1. \A i \in Places : moves[i] \in Move /\ i \in Nat
  BY MovesAre DEF IInv, MovesFit, Places
<1>2. ASSUME NEW i \in Places
      PROVE  /\ moves[i].direction \in {"IN", "OUT"} /\ moves[i].godown \in Godowns
             /\ moves[i].qty \in Nat \ {0} /\ moves[i].date \in 1..LastDate
             /\ moves[i].reverses \in 0..i-1
  <2>1. moves[i].reverses \in Nat /\ (moves[i].reverses # 0 => moves[i].reverses \in 1..i-1)
    BY <1>1 DEF IInv, MovesFit, Mirrors, Move
  <2>2. i >= 1
    BY MovesAre DEF IInv, MovesFit, Places
  <2>3. moves[i].reverses \in 0..i-1
    BY <1>1, <2>1, <2>2
  <2> QED BY <1>1, <2>3 DEF Move
<1>3. task.kind \in {"idle", "transfer", "return"}
  BY DEF IInv, TaskFits, Idle
<1> QED BY <1>2, <1>3 DEF IInv, TypeOK

LEMMA IsPaired == IInv /\ (\A t \in Transfers : Alone(t)) => MovementsPair
<1> SUFFICES ASSUME IInv, \A t \in Transfers : Alone(t) PROVE MovementsPair
  OBVIOUS
<1>1. Places \subseteq Nat \ {0}
  BY MovesAre DEF IInv, MovesFit, Places
<1>2. LinesLeaveOnce
  BY <1>1 DEF IInv, MovesFit, KeysOnce, Mirrors, LinesLeaveOnce
<1>3. ArrivalsLeft
  BY DEF IInv, MovesFit, ArrivalsFit, ArrivalsLeft
<1>4. NothingOnTheWay
  BY DEF IInv, OnTheWay, NothingOnTheWay, Idle
<1> QED BY <1>2, <1>3, <1>4 DEF MovementsPair, TransfersPair

\* Every movement, hold and command is well formed: quantities stay positive, and a
\* movement only reverses an earlier one.
THEOREM TypeCorrect == Spec => []TypeOK
<1>1. IInv /\ [Next]_vars => IInv'
  BY Inductively
<1> QED BY Initially, <1>1, IsTypeOK, PTL DEF Spec

\* The books show what the stock report works out, whatever dates the movements
\* bear (#insert posts the difference an insertion makes, balances.ts:112-131), and
\* where a key names one transfer, goods that leave for a bill come back at most
\* once at their cost, and goods that leave for a godown arrive there.
THEOREM MovementsAddUp ==
  ASSUME \A t \in Transfers : Alone(t)
  PROVE  Spec => [](BooksMatchReport /\ MovementsPair)
<1>1. IInv /\ [Next]_vars => IInv'
  BY Inductively
<1>2. IInv => BooksMatchReport /\ MovementsPair
  BY IsPaired DEF IInv
<1> QED BY Initially, <1>1, <1>2, PTL DEF Spec

-----------------------------------------------------------------------------
(* The stock ledger implements Godown *)

Hand == [g \in Godowns |-> Physical(g)]
HeldBy == [d \in Documents |-> IF d \in held THEN Asked[d] ELSE [g \in Godowns |-> 0]]

LEMMA StockTotal == \A f : Stock!Total(f) = SumOver(f, DOMAIN f)
  BY DEF Stock!Total, SumOver, Stock!MapThenSumSet, Stock!MapThenFoldSet, MapThenSumSet, MapThenFoldSet

LEMMA PhysicalIs == \A g : Physical(g) = OnHand(moves, g) /\ Physical(g)' = OnHand(moves', g)
  BY DEF Physical, OnHand, Places

LEMMA AskedType == \A d \in Documents : Asked[d] \in [Godowns -> Nat]
<1> TAKE d \in Documents
<1>1. Asked[d] = [g \in Godowns |-> Asked[d][g]]
  BY DEF Asked
<1> HIDE DEF Asked
<1> QED BY <1>1, AskedIs

\* What is promised is promised to this document or to the others.
LEMMA PromisedIs ==
  ASSUME IInv, NEW d \in Documents, NEW g \in Godowns
  PROVE  /\ Stock!Promised(g) = HeldBy[d][g] + Reserved(Bare(d), g)
         /\ HeldBy[d][g] \in Int /\ Reserved(Bare(d), g) \in Int
<1> DEFINE f == [e \in Documents |-> HeldBy[e][g]]
           h == [e \in Bare(d) |-> Asked[e][g]]
<1>1. IsFiniteSet(Documents) /\ held \subseteq Documents
  BY InventoryAssumption DEF IInv
<1>2. \A e \in Documents : f[e] = (IF e \in held THEN Asked[e][g] ELSE 0) /\ f[e] \in Int
  BY AskedIs DEF HeldBy
<1>3. Stock!Promised(g) = SumOver(f, Documents)
  BY StockTotal DEF Stock!Promised, HeldBy
<1>4. Reserved(Bare(d), g) = SumOver(h, Bare(d))
  BY TotalIs DEF Reserved
<1>5. \A e \in Bare(d) : h[e] = f[e] /\ h[e] \in Int
  BY <1>1, <1>2 DEF Bare
<1>6. IsFiniteSet(Documents \ {d}) /\ IsFiniteSet(Bare(d)) /\ Bare(d) \in SUBSET (Documents \ {d})
  BY <1>1, FS_Subset DEF Bare
<1>7. \A e \in (Documents \ {d}) \ Bare(d) : f[e] = 0
  BY <1>2 DEF Bare
<1>8. f[d] = HeldBy[d][g]
  OBVIOUS
<1> HIDE DEF f, h
<1>9. SumOver(f, Documents) = f[d] + SumOver(f, Documents \ {d})
  BY <1>1, <1>2, SumSplit
<1>10. SumOver(f, Documents \ {d}) = SumOver(f, Bare(d))
  BY <1>2, <1>6, <1>7, SumOfPart
<1>11. SumOver(f, Bare(d)) = SumOver(h, Bare(d)) /\ SumOver(h, Bare(d)) \in Int
  BY <1>5, <1>6, SumAgrees, SumIsInt
<1> QED BY <1>2, <1>3, <1>4, <1>8, <1>9, <1>10, <1>11

HandsAre == Hand \in [Godowns -> Int]

LEMMA HandIs == IInv => HandsAre /\ \A g \in Godowns : Hand[g] = OnHand(moves, g)
<1> SUFFICES ASSUME IInv PROVE HandsAre /\ \A g \in Godowns : Hand[g] = OnHand(moves, g)
  OBVIOUS
<1>1. \A g : Physical(g) = OnHand(moves, g) /\ OnHand(moves, g) \in Int
  BY PhysicalIs, OnHandIs DEF IInv, MovesFit
<1> QED BY <1>1 DEF HandsAre, Hand

LEMMA HandIsThen == IInv' => HandsAre' /\ \A g \in Godowns : Hand'[g] = OnHand(moves', g)
<1> SUFFICES ASSUME IInv' PROVE HandsAre' /\ \A g \in Godowns : Hand'[g] = OnHand(moves', g)
  OBVIOUS
<1>1. moves' \in Seq(Move)
  BY DEF IInv, MovesFit
<1>2. \A g : Physical(g)' = OnHand(moves', g) /\ OnHand(moves', g) \in Int
  BY <1>1, PhysicalIs, OnHandIs
<1> QED BY <1>2 DEF HandsAre, Hand

\* One movement is goods put in or taken out.
LEMMA MovesOne ==
  ASSUME IInv, IInv', NEW m \in Move, Insert(<<m>>), UNCHANGED held,
         m.direction = "OUT" => m.qty <= Hand[m.godown]
  PROVE  Stock!Next
<1> DEFINE k == m.godown
           q == m.qty
<1>1. moves \in Seq(Move) /\ <<m>> \in Seq(Move)
  BY OneNew DEF IInv, MovesFit
<1>2. Joined(moves', moves, <<m>>)
  BY <1>1, InsertIs
<1>3. HandsAre /\ HandsAre' /\ k \in Godowns /\ q \in Nat \ {0} /\ m.direction \in {"IN", "OUT"}
  BY HandIs, HandIsThen DEF Move
<1>4. \A g \in Godowns : Hand'[g] = Hand[g] + (IF g = k THEN Signed(m) ELSE 0)
  BY <1>1, <1>2, OneMoves, HandIs, HandIsThen
<1>5. HeldBy' = HeldBy
  BY DEF HeldBy
<1> HIDE DEF k, q
<1>6. CASE m.direction = "IN"
  <2>1. Hand'[k] = Hand[k] + q /\ \A g \in Godowns \ {k} : Hand'[g] = Hand[g]
    BY <1>3, <1>4, <1>6 DEF Signed, q, HandsAre
  <2>2. Hand'[k] > Hand[k] /\ Hand'[k] - Hand[k] = q
    BY <1>3, <2>1 DEF HandsAre
  <2>3. Hand' = [Hand EXCEPT ![k] = @ + q]
    BY <1>3, <2>1 DEF HandsAre
  <2>4. Stock!Put(k, q)
    BY <1>5, <2>3 DEF Stock!Put, Hand, HeldBy
  <2> QED BY <1>3, <2>2, <2>4 DEF Stock!Next, Hand
<1>7. CASE m.direction = "OUT"
  <2>1. Hand'[k] = Hand[k] - q /\ \A g \in Godowns \ {k} : Hand'[g] = Hand[g]
    BY <1>3, <1>4, <1>7 DEF Signed, q, HandsAre
  <2>2. Hand'[k] < Hand[k] /\ Hand[k] - Hand'[k] = q
    BY <1>3, <2>1 DEF HandsAre
  <2>3. Hand' = [Hand EXCEPT ![k] = @ - q]
    BY <1>3, <2>1 DEF HandsAre
  <2>4. Stock!Take(k, q)
    BY <1>5, <1>7, <2>3 DEF Stock!Take, Hand, HeldBy, k, q
  <2> QED BY <1>3, <2>2, <2>4 DEF Stock!Next, Hand
<1> QED BY <1>3, <1>6, <1>7

\* A document's promise is dropped, or made in full over what is promised to others.
LEMMA HoldsDrop ==
  ASSUME NEW d \in Documents, held' = Bare(d), UNCHANGED moves
  PROVE  Stock!Next
<1>1. Hand' = Hand
  BY DEF Hand, Physical, Places
<1>2. HeldBy' = [HeldBy EXCEPT ![d] = [g \in Godowns |-> 0]]
  BY DEF HeldBy, Bare
<1>3. Stock!Drop(d)
  BY <1>1, <1>2 DEF Stock!Drop, Stock!Nothing, Hand, HeldBy
<1> QED BY <1>3 DEF Stock!Next

LEMMA ReserveIsPromise ==
  ASSUME IInv, NEW d \in Documents, Reserve(d)
  PROVE  Stock!Next
<1>1. UNCHANGED moves
  BY DEF Reserve
<1>2. CASE ~Fillable(d)
  BY <1>1, <1>2, HoldsDrop DEF Reserve
<1>3. CASE Fillable(d)
  <2>1. held' = held \cup {d}
    BY <1>3 DEF Reserve
  <2>2. Hand' = Hand
    BY <1>1 DEF Hand, Physical, Places
  <2>3. HeldBy' = [HeldBy EXCEPT ![d] = Asked[d]]
    BY <2>1 DEF HeldBy
  <2>4. ASSUME NEW g \in Godowns, Asked[d][g] # 0
        PROVE  Asked[d][g] + Stock!Promised(g) <= Hand[g] + HeldBy[d][g]
    <3>1. Asked[d][g] <= Hand[g] - Reserved(Bare(d), g)
      BY <1>3, <2>4 DEF Fillable, Free, Hand
    <3>2. /\ Stock!Promised(g) = HeldBy[d][g] + Reserved(Bare(d), g)
          /\ HeldBy[d][g] \in Int /\ Reserved(Bare(d), g) \in Int
      BY PromisedIs
    <3>3. Asked[d][g] \in Int /\ Hand[g] \in Int
      BY AskedIs, HandIs DEF HandsAre
    <3> QED BY <3>1, <3>2, <3>3
  <2>5. HeldBy'[d] = Asked[d]
    BY <2>1 DEF HeldBy
  <2> DEFINE need == HeldBy'[d]
  <2>6. Stock!Promise(d, need)
    <3>1. need = Asked[d]
      BY <2>5
    <3> HIDE DEF need
    <3> QED BY <2>2, <2>3, <2>4, <3>1 DEF Stock!Promise, Hand, HeldBy
  <2> QED BY <2>6 DEF Stock!Next, HeldBy
<1> QED BY <1>2, <1>3

LEMMA IssueIsShip ==
  ASSUME IInv, IInv', NEW d \in Documents, NEW date \in 1..LastDate, Issue(d, date)
  PROVE  Stock!Next
<1>1. d \in held /\ held' = Bare(d)
  BY DEF Issue
<1>2. CASE Issued(d)
  BY <1>1, <1>2, HoldsDrop DEF Issue
<1>3. CASE ~Issued(d)
  <2> DEFINE new == Leaving(d, date)
  <2>1. Insert(new) /\ \A g \in Godowns : Asked[d][g] <= Physical(g)
    BY <1>3 DEF Issue, Enough
  <2>2. new \in Seq(Move) /\ \A g \in Godowns : SumOver(Change(new, g), DOMAIN new) = -Asked[d][g]
    BY LeavingIs
  <2> HIDE DEF new
  <2>3. moves \in Seq(Move) /\ Joined(moves', moves, new)
    BY <2>1, <2>2, InsertIs DEF IInv, MovesFit
  <2>4. \A g \in Godowns : Asked[d][g] \in Nat /\ HeldBy[d][g] = Asked[d][g]
    BY <1>1, AskedIs DEF HeldBy
  <2>5. \A g \in Godowns : Hand'[g] = Hand[g] - HeldBy[d][g]
    <3> TAKE g \in Godowns
    <3>1. OnHand(moves', g) = OnHand(moves, g) + SumOver(Change(new, g), DOMAIN new)
      BY <2>2, <2>3, OnHandGrows
    <3>2. Hand[g] \in Int /\ Hand[g] = OnHand(moves, g) /\ Hand'[g] = OnHand(moves', g)
      BY HandIs, HandIsThen DEF HandsAre
    <3>3. \A h, a \in Int : h + (-a) = h - a
      OBVIOUS
    <3> QED BY <2>2, <2>4, <3>1, <3>2, <3>3
  <2>6. Hand' = [g \in Godowns |-> Hand[g] - HeldBy[d][g]]
    BY <2>5, HandIsThen DEF HandsAre
  <2>7. \A g \in Godowns : HeldBy[d][g] <= Hand[g]
    BY <2>1, <2>4 DEF Hand
  <2>8. HeldBy' = [HeldBy EXCEPT ![d] = [g \in Godowns |-> 0]]
    BY <1>1 DEF HeldBy, Bare
  <2>9. Stock!Ship(d)
    BY <2>6, <2>7, <2>8 DEF Stock!Ship, Stock!Nothing, Hand, HeldBy
  <2> QED BY <2>9 DEF Stock!Next
<1> QED BY <1>2, <1>3

LEMMA Unseen ==
  ASSUME UNCHANGED <<moves, held>>
  PROVE  UNCHANGED Stock!vars
BY DEF Stock!vars, Physical, Places

LEMMA Steps == IInv /\ IInv' /\ [Next]_vars => [Stock!Next]_Stock!vars
<1> SUFFICES ASSUME IInv, IInv', [Next]_vars PROVE Stock!Next \/ UNCHANGED Stock!vars
  BY DEF Stock!vars
<1>1. ASSUME NEW r \in Incoming, Receive(r) PROVE Stock!Next
  <2> DEFINE m == Movement(Command(r), "IN", r.godown, r.qty, r.cost, r.date, 0)
  <2>1. m \in Move
    BY InventoryAssumption DEF Movement, Move, AllKeys
  <2>2. Insert(<<m>>) /\ UNCHANGED held /\ m.direction = "IN"
    BY <1>1 DEF Receive, Movement
  <2> HIDE DEF m
  <2> QED BY <2>1, <2>2, MovesOne
<1>2. ASSUME NEW o \in Outgoing, Lose(o) PROVE Stock!Next
  <2> DEFINE m == Movement(Command(o), "OUT", o.godown, o.qty, NoCost, o.date, 0)
  <2>1. m \in Move
    BY InventoryAssumption DEF Movement, Move, AllKeys, NoCost
  <2>2. Insert(<<m>>) /\ UNCHANGED held
    BY <1>2 DEF Lose
  <2>3. m.qty <= Hand[m.godown]
    BY <1>2, InventoryAssumption DEF Lose, Enough, Hand, Movement
  <2> HIDE DEF m
  <2> QED BY <2>1, <2>2, <2>3, MovesOne
<1>3. ASSUME NEW t \in Transfers, TransferOut(t) PROVE Stock!Next \/ UNCHANGED Stock!vars
  <2>1. CASE HasKey(Leg(t, "out"))
    BY <1>3, <2>1, Unseen DEF TransferOut
  <2>2. CASE ~HasKey(Leg(t, "out"))
    <3> DEFINE m == Movement(Leg(t, "out"), "OUT", t.from, t.qty, NoCost, t.date, 0)
    <3>1. m \in Move
      BY InventoryAssumption DEF Movement, Move, AllKeys, NoCost
    <3>2. Insert(<<m>>) /\ UNCHANGED held
      BY <1>3, <2>2 DEF TransferOut
    <3>3. m.qty <= Hand[m.godown]
      BY <1>3, <2>2, InventoryAssumption DEF TransferOut, Enough, Hand, Movement
    <3> HIDE DEF m
    <3> QED BY <3>1, <3>2, <3>3, MovesOne
  <2> QED BY <2>1, <2>2
<1>4. CASE TransferIn
  <2> DEFINE t == task.of
             c == CostOf(Leg(t, "out"))
             m == Movement(Leg(t, "in"), "IN", t.to, t.qty, c, t.date, 0)
  <2>1. t \in Transfers /\ c \in Int
    BY <1>4, UnderWay DEF TransferIn
  <2>2. Insert(<<m>>) /\ UNCHANGED held /\ m.direction = "IN"
    BY <1>4 DEF TransferIn, Movement
  <2> HIDE DEF t, c
  <2>3. m \in Move
    BY <2>1, InventoryAssumption DEF Movement, Move, AllKeys
  <2> HIDE DEF m
  <2> QED BY <2>2, <2>3, MovesOne
<1>5. ASSUME NEW d \in Documents, Reserve(d) PROVE Stock!Next
  BY <1>5, ReserveIsPromise
<1>6. ASSUME NEW d \in Documents, Release(d) PROVE Stock!Next
  BY <1>6, HoldsDrop DEF Release
<1>7. ASSUME NEW d \in Documents, ReturnBegin(d) PROVE UNCHANGED Stock!vars
  BY <1>7, Unseen DEF ReturnBegin
<1>8. ASSUME NEW d \in Documents, NEW date \in 1..LastDate, Issue(d, date) PROVE Stock!Next
  BY <1>8, IssueIsShip
<1>9. CASE Return
  <2>1. PICK i \in Places : /\ Earliest(i)
                            /\ IF HasKey(ReturnKey(i)) THEN UNCHANGED <<moves, booked>> ELSE Insert(<<Mirror(i)>>)
    BY <1>9 DEF Return
  <2>2. UNCHANGED held /\ task.kind = "return"
    BY <1>9 DEF Return
  <2>3. CASE HasKey(ReturnKey(i))
    BY <2>1, <2>2, <2>3, Unseen
  <2>4. CASE ~HasKey(ReturnKey(i))
    <3> DEFINE m == Mirror(i)
    <3>1. m \in Move /\ m.direction = "IN"
      BY <2>1, <2>2, ComingBack
    <3>2. Insert(<<m>>)
      BY <2>1, <2>4
    <3> HIDE DEF m
    <3> QED BY <2>2, <3>1, <3>2, MovesOne
  <2> QED BY <2>3, <2>4
<1>10. CASE Crash
  BY <1>10, Unseen DEF Crash
<1>11. CASE UNCHANGED vars
  BY <1>11, Unseen DEF vars
<1> HIDE DEF Stock!Next, Stock!vars
<1> QED BY <1>1, <1>2, <1>3, <1>4, <1>5, <1>6, <1>7, <1>8, <1>9, <1>10, <1>11 DEF Next

\* What is on hand and what unfinished documents hold go only through the steps
\* Godown allows: nothing goes below nothing, nothing is promised twice, and the
\* goods of a document leave together (service.ts:360-514), for any documents
\* with any lines, any movements, and deaths between any two transactions.
THEOREM PromisesKept == Spec => KeepsPromises
<1>1. Init => Stock!Init
  <2> SUFFICES ASSUME Init PROVE Stock!Init
    OBVIOUS
  <2>1. \A g : Physical(g) = 0
    <3> TAKE g
    <3>1. moves \in Seq(Move) /\ DOMAIN moves = {}
      BY DEF Init
    <3>2. Physical(g) = SumOver(Change(moves, g), {})
      BY <3>1, PhysicalIs, OnHandIs
    <3> QED BY <3>2, SumOfNone
  <2>2. held = {}
    BY DEF Init
  <2> QED BY <2>1, <2>2 DEF Stock!Init, Stock!Nothing
<1>2. IInv /\ [Next]_vars => IInv'
  BY Inductively
<1>3. IInv /\ IInv' /\ [Next]_vars => [Stock!Next]_Stock!vars
  BY Steps
<1> QED BY Initially, <1>1, <1>2, <1>3, PTL DEF Spec, KeepsPromises, Stock!Spec

-----------------------------------------------------------------------------
(* Goods that are bought (Purchasing)                                     *)

Papers == [Documents -> {None} \cup Buying!Receipts]
Entries == [state : {"NONE", "POSTED", "REVERSED"}, by : Documents \cup {None}, came : Documents \cup {None}]

PurchaseTypes ==
  /\ order \in [state : Buying!OrderStates, placed : BOOLEAN]
  /\ delivery \in Papers
  /\ bill \in [Purchases -> Entries]
  /\ onHand \in Nat /\ sold \in Nat

\* Before there is an order nothing comes for it.
NothingBefore ==
  order.state = "NONE" => ~order.placed /\ \A d \in Documents : delivery[d] # None => ~delivery[d].forOrder

\* What an approval accepted is what its fingerprint holds: of quantities and prices nothing else.
HoldsOf(print) ==
  LET kept == SumOver([t \in print[5] |-> t[3]], print[5])
      named == print[2] = "order"
      billed == print[3]
  IN (IF print[5] # {} /\ Buying!Beyond(kept, billed) THEN {<<"INVOICED_ABOVE_ACCEPTED", billed - kept>>} ELSE {})
       \cup (IF print[5] # {} /\ named /\ Buying!Beyond(Ordered, kept) THEN {<<"OVER_DELIVERED", kept - Ordered>>} ELSE {})
       \cup (IF named /\ print[4] THEN {<<"PRICE_ABOVE_ORDER", 1>>} ELSE {})

ApprovalsFit == \A a \in approvals : a.number = a.print[1] /\ a.accepted = HoldsOf(a.print)

\* The goods of the bills that name no delivery.
Loose(bs) == [p \in Purchases |-> IF bs[p].state = "POSTED" /\ bs[p].came = None THEN Billed[p] ELSE 0]

\* Whoever told what, on hand is what deliveries and the bills that name none put there.
GoodsBalance ==
  onHand + sold = Buying!Accepted(Buying!Confirmed(delivery), delivery) + SumOver(Loose(bill), Purchases)

BuyingFits == PurchaseTypes /\ NothingBefore /\ ApprovalsFit /\ GoodsBalance /\ Buying!OrderShowsArrivals

LEMMA BuyingTotal == \A f : Buying!Total(f) = SumOver(f, DOMAIN f)
  BY DEF Buying!Total, Buying!MapThenSumSet, Buying!MapThenFoldSet, SumOver, MapThenSumSet, MapThenFoldSet

LEMMA ReceiptIs ==
  ASSUME NEW x \in Buying!Receipts
  PROVE  /\ x # None /\ x.state \in {"DRAFT", "CONFIRMED", "CANCELLED"} /\ x.forOrder \in BOOLEAN
         /\ x.accepted \in Nat /\ x.received \in Nat
         /\ \A s \in {"DRAFT", "CONFIRMED", "CANCELLED"} :
              /\ [x EXCEPT !.state = s] \in Buying!Receipts
              /\ [x EXCEPT !.state = s].state = s
              /\ [x EXCEPT !.state = s].accepted = x.accepted /\ [x EXCEPT !.state = s].forOrder = x.forOrder
<1>1. PICK a \in Arrivals, for \in BOOLEAN, s \in {"DRAFT", "CONFIRMED", "CANCELLED"} : x = Buying!Receipt(a, for, s)
  BY DEF Buying!Receipts
<1>2. a.received \in Nat /\ a.accepted \in Nat
  BY PurchasingAssumption
<1>3. x # None
  BY PurchasingAssumption
<1>4. ASSUME NEW q \in {"DRAFT", "CONFIRMED", "CANCELLED"} PROVE [x EXCEPT !.state = q] = Buying!Receipt(a, for, q)
  BY <1>1 DEF Buying!Receipt
<1> QED BY <1>1, <1>2, <1>3, <1>4 DEF Buying!Receipt, Buying!Receipts

\* What deliveries brought, as a sum over all there may be.
Kept(ds, of) == [d \in Documents |-> IF d \in ds THEN of[d].accepted ELSE 0]

LEMMA AcceptedIs ==
  ASSUME NEW of \in Papers, NEW ds \in SUBSET Buying!Confirmed(of)
  PROVE  /\ \A d \in Documents : Kept(ds, of)[d] \in Nat
         /\ Buying!Accepted(ds, of) = SumOver(Kept(ds, of), Documents)
         /\ Buying!Accepted(ds, of) \in Nat
<1>1. ds \subseteq Documents /\ IsFiniteSet(Documents) /\ IsFiniteSet(ds)
  BY PurchasingAssumption, FS_Subset DEF Buying!Confirmed
<1>2. \A d \in ds : of[d] \in Buying!Receipts
  BY <1>1 DEF Papers, Buying!Confirmed
<1>3. \A d \in Documents : Kept(ds, of)[d] \in Nat
  BY <1>2, ReceiptIs DEF Kept
<1>4. Buying!Accepted(ds, of) = SumOver([d \in ds |-> of[d].accepted], ds)
  BY BuyingTotal DEF Buying!Accepted
<1>5. SumOver([d \in ds |-> of[d].accepted], ds) = SumOver(Kept(ds, of), ds)
  <2> DEFINE f == [d \in ds |-> of[d].accepted]
             g == Kept(ds, of)
  <2>1. \A d \in ds : f[d] = g[d]
    BY <1>1 DEF Kept
  <2> HIDE DEF f, g
  <2>2. SumOver(f, ds) = SumOver(g, ds)
    BY <1>1, <2>1, SumAgrees
  <2> QED BY <2>2 DEF f, g
<1>6. SumOver(Kept(ds, of), Documents) = SumOver(Kept(ds, of), ds) /\ SumOver(Kept(ds, of), Documents) \in Nat
  <2> DEFINE g == Kept(ds, of)
  <2>1. \A d \in Documents : g[d] \in Nat /\ g[d] \in Int
    BY <1>3
  <2>2. \A d \in Documents \ ds : g[d] = 0
    BY DEF Kept
  <2> HIDE DEF g
  <2>3. SumOver(g, Documents) = SumOver(g, ds)
    BY <1>1, <2>1, <2>2, SumOfPart
  <2>4. SumOver(g, Documents) \in Nat
    BY <1>1, <2>1, SumBounds
  <2> QED BY <2>3, <2>4 DEF g
<1> QED BY <1>3, <1>4, <1>5, <1>6

\* Of the deliveries counted, this one changes alone.
OneChanges(of, ds, then, es, d, x) ==
  /\ of \in Papers /\ then \in Papers /\ d \in Documents /\ x \in Buying!Receipts /\ then[d] = x
  /\ ds \subseteq Buying!Confirmed(of) /\ es \subseteq Buying!Confirmed(then)
  /\ \A c \in Documents \ {d} : then[c] = of[c] /\ (c \in ds <=> c \in es)

\* What counts of the others stays.
LEMMA AcceptedChanges ==
  ASSUME NEW of, NEW ds, NEW then, NEW es, NEW d, NEW x, OneChanges(of, ds, then, es, d, x)
  PROVE  Buying!Accepted(es, then) =
           Buying!Accepted(ds, of) - (IF d \in ds THEN of[d].accepted ELSE 0) + (IF d \in es THEN x.accepted ELSE 0)
<1> DEFINE f == Kept(ds, of)
           g == Kept(es, then)
<1>1. /\ of \in Papers /\ then \in Papers /\ d \in Documents /\ x \in Buying!Receipts /\ then[d] = x
      /\ ds \in SUBSET Buying!Confirmed(of) /\ es \in SUBSET Buying!Confirmed(then)
      /\ \A c \in Documents \ {d} : then[c] = of[c] /\ (c \in ds <=> c \in es)
  BY DEF OneChanges
<1>2. (\A c \in Documents : f[c] \in Nat) /\ Buying!Accepted(ds, of) = SumOver(f, Documents)
  BY <1>1, AcceptedIs
<1>4. (\A c \in Documents : g[c] \in Nat) /\ Buying!Accepted(es, then) = SumOver(g, Documents)
  BY <1>1, AcceptedIs
<1>5. \A c \in Documents \ {d} : f[c] = g[c]
  BY <1>1 DEF Kept, Papers
<1>6. f[d] = (IF d \in ds THEN of[d].accepted ELSE 0) /\ g[d] = (IF d \in es THEN x.accepted ELSE 0)
  BY <1>1 DEF Kept, Papers
<1>7. SumOver(g, Documents) = SumOver(f, Documents) - f[d] + g[d]
  <2> HIDE DEF f, g
  <2>1. \A c \in Documents : f[c] \in Int /\ g[c] \in Int
    BY <1>2, <1>4
  <2> QED BY <1>1, <1>5, <2>1, PurchasingAssumption, SumChanges
<1> HIDE DEF f, g
<1> QED BY <1>2, <1>4, <1>6, <1>7

\* What the deliveries against the order come to changes with a delivery for it alone.
LEMMA OrderStays ==
  ASSUME NEW of \in Papers, NEW d \in Documents, NEW x \in Buying!Receipts,
         d \notin Buying!AgainstOrder(of), ~(x.state = "CONFIRMED" /\ x.forOrder)
  PROVE  \A placed \in BOOLEAN : Buying!Arrived(placed, [of EXCEPT ![d] = x]) = Buying!Arrived(placed, of)
<1> DEFINE then == [of EXCEPT ![d] = x]
           ds == Buying!AgainstOrder(of)
           es == Buying!AgainstOrder(then)
<1>1. then \in Papers /\ then[d] = x /\ \A c \in Documents \ {d} : then[c] = of[c]
  BY DEF Papers
<1>2. ds \subseteq Buying!Confirmed(of) /\ es \subseteq Buying!Confirmed(then)
  BY DEF Buying!AgainstOrder
<1>3. ds = es
  BY <1>1 DEF Buying!AgainstOrder, Buying!Confirmed
<1>4. Buying!Accepted(es, then) = Buying!Accepted(ds, of) /\ Buying!Accepted(ds, of) \in Nat
  <2> HIDE DEF ds, es
  <2>1. Buying!Accepted(es, then) = Buying!Accepted(ds, of) - (IF d \in ds THEN of[d].accepted ELSE 0) + (IF d \in es THEN x.accepted ELSE 0)
    <3>1. OneChanges(of, ds, then, es, d, x)
      BY <1>1, <1>2, <1>3 DEF OneChanges
    <3> HIDE DEF then
    <3> QED BY <3>1, AcceptedChanges
  <2>2. d \notin ds /\ d \notin es
    BY <1>3 DEF ds
  <2>3. Buying!Accepted(ds, of) \in Nat
    BY <1>2, AcceptedIs
  <2> QED BY <2>1, <2>2, <2>3
<1> QED BY <1>4 DEF Buying!Arrived

LEMMA LooseIs ==
  ASSUME NEW bs \in [Purchases -> Entries]
  PROVE  (\A p \in Purchases : Loose(bs)[p] \in Nat) /\ SumOver(Loose(bs), Purchases) \in Nat
<1>1. \A p \in Purchases : Loose(bs)[p] \in Nat
  BY PurchasingAssumption DEF Loose
<1> QED BY <1>1, PurchasingAssumption, SumBounds

LEMMA LooseChanges ==
  ASSUME NEW bs \in [Purchases -> Entries], NEW p \in Purchases, NEW x \in Entries
  PROVE  SumOver(Loose([bs EXCEPT ![p] = x]), Purchases) =
           SumOver(Loose(bs), Purchases) - Loose(bs)[p] + (IF x.state = "POSTED" /\ x.came = None THEN Billed[p] ELSE 0)
<1> DEFINE then == [bs EXCEPT ![p] = x]
           f == Loose(bs)
           g == Loose(then)
<1>1. then \in [Purchases -> Entries] /\ then[p] = x /\ \A q \in Purchases \ {p} : then[q] = bs[q]
  OBVIOUS
<1>2. \A q \in Purchases \ {p} : f[q] = g[q]
  BY <1>1 DEF Loose
<1>3. g[p] = IF x.state = "POSTED" /\ x.came = None THEN Billed[p] ELSE 0
  BY <1>1 DEF Loose
<1>4. \A q \in Purchases : f[q] \in Nat /\ g[q] \in Nat
  <2> HIDE DEF then
  <2> QED BY <1>1, LooseIs
<1>5. SumOver(g, Purchases) = SumOver(f, Purchases) - f[p] + g[p]
  <2> HIDE DEF f, g
  <2>1. \A q \in Purchases : f[q] \in Int /\ g[q] \in Int
    BY <1>4
  <2> QED BY <1>2, <2>1, PurchasingAssumption, SumChanges
<1> QED BY <1>3, <1>5

\* Where bills name the delivery that brought their goods, those that name none are those none brought.
LEMMA GoodsAre == PurchaseTypes /\ GoodsBalance => Buying!GoodsComeInOnce
<1> SUFFICES ASSUME PurchaseTypes, GoodsBalance, \A p \in Purchases : Buying!Live(p) => bill[p].came = bill[p].by
             PROVE  onHand + sold = Buying!Accepted(Buying!Confirmed(delivery), delivery)
                      + Buying!Total([p \in Purchases |-> IF Buying!Live(p) /\ bill[p].by = None THEN Billed[p] ELSE 0])
  BY DEF Buying!GoodsComeInOnce
<1>1. [p \in Purchases |-> IF Buying!Live(p) /\ bill[p].by = None THEN Billed[p] ELSE 0] = Loose(bill)
  BY DEF Loose, Buying!Live
<1>2. DOMAIN Loose(bill) = Purchases
  BY DEF Loose
<1>3. Buying!Total(Loose(bill)) = SumOver(Loose(bill), Purchases)
  BY <1>2, BuyingTotal
<1> QED BY <1>1, <1>3 DEF GoodsBalance

LEMMA BuyingFirst == Buying!Init => BuyingFits
<1> SUFFICES ASSUME Buying!Init PROVE BuyingFits
  OBVIOUS
<1> USE DEF Buying!Init
<1>1. PurchaseTypes
  BY DEF PurchaseTypes, Buying!OrderStates, Papers, Entries
<1>2. NothingBefore /\ ApprovalsFit /\ Buying!OrderShowsArrivals
  BY DEF NothingBefore, ApprovalsFit, Buying!OrderShowsArrivals
<1>3. Buying!Accepted(Buying!Confirmed(delivery), delivery) = 0
  <2>1. Buying!Confirmed(delivery) = {}
    BY DEF Buying!Confirmed
  <2>2. Buying!Accepted({}, delivery) = SumOver([d \in {} |-> delivery[d].accepted], {})
    BY BuyingTotal DEF Buying!Accepted
  <2> QED BY <2>1, <2>2, SumOfNone
<1>4. SumOver(Loose(bill), Purchases) = 0
  <2>1. \A p \in Purchases : Loose(bill)[p] = 0
    BY DEF Loose
  <2> QED BY <2>1, PurchasingAssumption, SumOfNothings
<1>5. GoodsBalance
  BY <1>3, <1>4 DEF GoodsBalance
<1> QED BY <1>1, <1>2, <1>5 DEF BuyingFits

\* A step that leaves goods, deliveries, bills and approvals alone.
LEMMA PapersStay ==
  ASSUME BuyingFits, UNCHANGED <<delivery, bill, onHand, sold, approvals>>
  PROVE  GoodsBalance' /\ ApprovalsFit'
<1>1. GoodsBalance /\ ApprovalsFit
  BY DEF BuyingFits
<1> QED BY <1>1 DEF GoodsBalance, Loose, ApprovalsFit

\* While there is no order nothing has come for it.
LEMMA NothingYet ==
  ASSUME BuyingFits, order.state = "NONE"
  PROVE  \A placed \in BOOLEAN : Buying!Arrived(placed, delivery) = IF placed THEN "PLACED" ELSE "DRAFT"
<1>1. Buying!AgainstOrder(delivery) = {}
  BY DEF BuyingFits, NothingBefore, Buying!AgainstOrder, Buying!Confirmed
<1>2. Buying!Accepted({}, delivery) = 0
  <2>1. Buying!Accepted({}, delivery) = SumOver([d \in {} |-> delivery[d].accepted], {})
    BY BuyingTotal DEF Buying!Accepted
  <2> QED BY <2>1, SumOfNone
<1> QED BY <1>1, <1>2, PurchasingAssumption DEF Buying!Arrived

LEMMA OrderStep ==
  ASSUME BuyingFits, Buying!CreateOrder \/ Buying!PlaceOrder \/ Buying!CancelOrder \/ Buying!CloseOrder
  PROVE  BuyingFits'
<1>1. /\ UNCHANGED <<delivery, bill, onHand, sold, approvals>>
      /\ PurchaseTypes /\ NothingBefore /\ Buying!OrderShowsArrivals
  BY DEF Buying!CreateOrder, Buying!PlaceOrder, Buying!CancelOrder, Buying!CloseOrder, Buying!shop, BuyingFits
<1>2. GoodsBalance' /\ ApprovalsFit'
  BY <1>1, PapersStay
<1>3. order \in [state : Buying!OrderStates, placed : BOOLEAN]
  BY <1>1 DEF PurchaseTypes
<1>4. CASE Buying!CreateOrder
  <2>1. order.state = "NONE" /\ order' = [order EXCEPT !.state = "DRAFT"]
    BY <1>4 DEF Buying!CreateOrder
  <2>2. order' \in [state : Buying!OrderStates, placed : BOOLEAN] /\ order'.state = "DRAFT" /\ order'.placed = order.placed
    BY <1>3, <2>1 DEF Buying!OrderStates
  <2>3. ~order.placed
    BY <1>1, <2>1 DEF NothingBefore
  <2>4. Buying!Arrived(FALSE, delivery) = "DRAFT"
    BY <2>1, NothingYet
  <2>5. order'.placed = FALSE
    BY <2>2, <2>3, <1>3
  <2>6. Buying!OrderShowsArrivals'
    BY <1>1, <2>2, <2>4, <2>5 DEF Buying!OrderShowsArrivals
  <2> QED BY <1>1, <1>2, <2>2, <2>6 DEF BuyingFits, PurchaseTypes, NothingBefore
<1>5. CASE Buying!PlaceOrder
  <2>1. order.state = "DRAFT" /\ order' = [state |-> "PLACED", placed |-> TRUE]
    BY <1>5 DEF Buying!PlaceOrder
  <2>2. order' \in [state : Buying!OrderStates, placed : BOOLEAN] /\ order'.state = "PLACED" /\ order'.placed
    BY <2>1 DEF Buying!OrderStates
  <2>3. Buying!Arrived(order.placed, delivery) = "DRAFT"
    BY <1>1, <2>1 DEF Buying!OrderShowsArrivals, Buying!Over
  <2>4. Buying!Arrived(TRUE, delivery) = "PLACED"
    BY <1>3, <2>3 DEF Buying!Arrived
  <2>5. Buying!OrderShowsArrivals'
    BY <1>1, <2>1, <2>4 DEF Buying!OrderShowsArrivals
  <2> QED BY <1>1, <1>2, <2>2, <2>5 DEF BuyingFits, PurchaseTypes, NothingBefore
<1>6. CASE Buying!CancelOrder \/ Buying!CloseOrder
  <2>1. PICK s \in Buying!Over : order' = [order EXCEPT !.state = s]
    BY <1>6 DEF Buying!CancelOrder, Buying!CloseOrder, Buying!Over
  <2>2. order' \in [state : Buying!OrderStates, placed : BOOLEAN] /\ order'.state \in Buying!Over
    BY <1>3, <2>1 DEF Buying!OrderStates, Buying!Over
  <2>3. order'.state # "NONE"
    BY <2>2 DEF Buying!Over
  <2> QED BY <1>1, <1>2, <2>2, <2>3 DEF BuyingFits, PurchaseTypes, NothingBefore, Buying!OrderShowsArrivals
<1> QED BY <1>4, <1>5, <1>6

\* One delivery is recorded, confirmed or cancelled: the goods it brings are those on hand, and
\* the order it is against shows it.
LEMMA DeliveryStep ==
  ASSUME BuyingFits, NEW d \in Documents, NEW x \in Buying!Receipts, delivery' = [delivery EXCEPT ![d] = x],
         UNCHANGED <<bill, sold, approvals>>, onHand' \in Nat,
         onHand' = onHand - (IF d \in Buying!Confirmed(delivery) THEN delivery[d].accepted ELSE 0)
                          + (IF x.state = "CONFIRMED" THEN x.accepted ELSE 0),
         \/ /\ order' = order
            /\ ~(x.state = "CONFIRMED" /\ x.forOrder) /\ d \notin Buying!AgainstOrder(delivery)
            /\ x.forOrder => order.state # "NONE"
         \/ order.state # "NONE" /\ Buying!Advance(delivery')
  PROVE  BuyingFits'
<1>1. PurchaseTypes /\ NothingBefore /\ ApprovalsFit /\ Buying!OrderShowsArrivals /\ GoodsBalance
  BY DEF BuyingFits
<1>2. delivery \in Papers /\ delivery' \in Papers /\ delivery'[d] = x /\ \A c \in Documents \ {d} : delivery'[c] = delivery[c]
  BY <1>1 DEF PurchaseTypes, Papers
<1>3. x # None
  BY ReceiptIs
<1>4. GoodsBalance'
  <2> DEFINE ds == Buying!Confirmed(delivery)
             es == Buying!Confirmed(delivery')
             was == IF d \in ds THEN delivery[d].accepted ELSE 0
             is == IF x.state = "CONFIRMED" THEN x.accepted ELSE 0
  <2>1. \A c \in Documents \ {d} : c \in ds <=> c \in es
    BY <1>2 DEF Buying!Confirmed
  <2>2. d \in es <=> x.state = "CONFIRMED"
    BY <1>2, <1>3 DEF Buying!Confirmed
  <2>3. Buying!Accepted(es, delivery') = Buying!Accepted(ds, delivery) - was + is
    <3>1. ds \subseteq Buying!Confirmed(delivery) /\ es \subseteq Buying!Confirmed(delivery')
      OBVIOUS
    <3> HIDE DEF ds, es
    <3>2. OneChanges(delivery, ds, delivery', es, d, x)
      BY <1>2, <2>1, <3>1 DEF OneChanges
    <3>3. Buying!Accepted(es, delivery') =
            Buying!Accepted(ds, delivery) - (IF d \in ds THEN delivery[d].accepted ELSE 0) + (IF d \in es THEN x.accepted ELSE 0)
      BY <3>2, AcceptedChanges
    <3> QED BY <2>2, <3>3
  <2>4. onHand + sold = Buying!Accepted(ds, delivery) + SumOver(Loose(bill), Purchases)
    BY <1>1 DEF GoodsBalance
  <2>5. Buying!Accepted(ds, delivery) \in Int /\ SumOver(Loose(bill), Purchases) \in Int /\ onHand \in Int /\ sold \in Int
        /\ was \in Int /\ is \in Int
    <3>1. ds \in SUBSET Buying!Confirmed(delivery)
      OBVIOUS
    <3>2. Buying!Accepted(ds, delivery) \in Nat
      BY <1>2, <3>1, AcceptedIs
    <3>3. SumOver(Loose(bill), Purchases) \in Nat
      BY <1>1, LooseIs DEF PurchaseTypes
    <3>4. x.accepted \in Nat
      BY ReceiptIs
    <3>5. d \in ds => delivery[d].accepted \in Nat
      <4>1. d \in ds => delivery[d] \in Buying!Receipts
        BY <1>2 DEF Papers, Buying!Confirmed
      <4> HIDE DEF ds
      <4> QED BY <4>1, ReceiptIs
    <3> HIDE DEF ds
    <3> QED BY <1>1, <3>2, <3>3, <3>4, <3>5 DEF PurchaseTypes
  <2>6. onHand' = onHand - was + is
    OBVIOUS
  <2>7. onHand' + sold = Buying!Accepted(es, delivery') + SumOver(Loose(bill), Purchases)
    <3> HIDE DEF ds, es, was, is
    <3> QED BY <2>3, <2>4, <2>5, <2>6
  <2>8. onHand' + sold' = Buying!Accepted(Buying!Confirmed(delivery'), delivery') + SumOver(Loose(bill'), Purchases)
    BY <2>7
  <2> QED BY <2>8 DEF GoodsBalance
<1>5. order' \in [state : Buying!OrderStates, placed : BOOLEAN] /\ (order'.state = "NONE" <=> order.state = "NONE") /\ order'.placed = order.placed
      /\ Buying!OrderShowsArrivals'
  <2>1. order \in [state : Buying!OrderStates, placed : BOOLEAN]
    BY <1>1 DEF PurchaseTypes
  <2>2. CASE order' = order /\ ~(x.state = "CONFIRMED" /\ x.forOrder) /\ d \notin Buying!AgainstOrder(delivery)
    <3>1. \A placed \in BOOLEAN : Buying!Arrived(placed, [delivery EXCEPT ![d] = x]) = Buying!Arrived(placed, delivery)
      BY <1>2, <2>2, OrderStays
    <3>2. Buying!Arrived(order.placed, delivery') = Buying!Arrived(order.placed, delivery)
      BY <2>1, <3>1
    <3> QED BY <1>1, <2>1, <2>2, <3>2 DEF Buying!OrderShowsArrivals
  <2>3. CASE order.state # "NONE" /\ Buying!Advance(delivery')
    <3>1. CASE order.state \in Buying!Over
      <4>1. order' = order
        BY <2>3, <3>1 DEF Buying!Advance
      <4> QED BY <2>1, <3>1, <4>1 DEF Buying!OrderShowsArrivals
    <3>2. CASE order.state \notin Buying!Over
      <4>1. order' = [order EXCEPT !.state = Buying!Arrived(order.placed, delivery')]
        BY <2>3, <3>2 DEF Buying!Advance
      <4>2. Buying!Arrived(order.placed, delivery') \in {"RECEIVED", "PARTIALLY_RECEIVED", "PLACED", "DRAFT"}
        BY DEF Buying!Arrived
      <4>3. order' \in [state : Buying!OrderStates, placed : BOOLEAN] /\ order'.placed = order.placed
            /\ order'.state = Buying!Arrived(order'.placed, delivery') /\ order'.state # "NONE"
        BY <2>1, <4>1, <4>2 DEF Buying!OrderStates
      <4> QED BY <2>3, <4>3 DEF Buying!OrderShowsArrivals
    <3> QED BY <3>1, <3>2
  <2> QED BY <2>2, <2>3
<1>6. NothingBefore'
  <2> SUFFICES ASSUME order'.state = "NONE" PROVE ~order'.placed /\ \A c \in Documents : delivery'[c] # None => ~delivery'[c].forOrder
    BY DEF NothingBefore
  <2>1. order.state = "NONE" /\ order' = order
    BY <1>5
  <2>2. ~x.forOrder
    BY <2>1
  <2> QED BY <1>1, <1>2, <2>1, <2>2 DEF NothingBefore
<1>7. PurchaseTypes' /\ ApprovalsFit'
  BY <1>1, <1>2, <1>5 DEF PurchaseTypes, ApprovalsFit
<1> QED BY <1>4, <1>5, <1>6, <1>7 DEF BuyingFits

LEMMA ReceiptSteps ==
  ASSUME BuyingFits, NEW d \in Documents,
         \/ \E a \in Arrivals : Buying!GoodsConfirmed(d, a) \/ \E for \in BOOLEAN : Buying!RecordReceipt(d, a, for)
         \/ Buying!ConfirmReceipt(d) \/ Buying!CancelReceipt(d)
  PROVE  BuyingFits'
<1>1. delivery \in Papers /\ onHand \in Nat /\ NothingBefore
  BY DEF BuyingFits, PurchaseTypes
<1>2. \A a \in Arrivals, for \in BOOLEAN, s \in {"DRAFT", "CONFIRMED", "CANCELLED"} :
        /\ Buying!Receipt(a, for, s) \in Buying!Receipts
        /\ Buying!Receipt(a, for, s).state = s /\ Buying!Receipt(a, for, s).forOrder = for
        /\ Buying!Receipt(a, for, s).accepted = a.accepted /\ a.accepted \in Nat
  BY PurchasingAssumption DEF Buying!Receipts, Buying!Receipt
<1>3. delivery[d] # None => delivery[d] \in Buying!Receipts
  BY <1>1 DEF Papers
<1>4. ASSUME NEW a \in Arrivals, NEW for \in BOOLEAN, Buying!RecordReceipt(d, a, for) PROVE BuyingFits'
  <2> DEFINE x == Buying!Receipt(a, for, "DRAFT")
  <2>1. /\ delivery[d] = None /\ delivery' = [delivery EXCEPT ![d] = x] /\ UNCHANGED <<bill, sold, approvals>>
        /\ onHand' = onHand /\ order' = order /\ (for => order.state # "NONE")
    BY <1>4 DEF Buying!RecordReceipt, Buying!shop
  <2>2. d \notin Buying!Confirmed(delivery) /\ d \notin Buying!AgainstOrder(delivery)
    BY <2>1 DEF Buying!Confirmed, Buying!AgainstOrder
  <2>3. x \in Buying!Receipts /\ x.state = "DRAFT" /\ x.forOrder = for
    BY <1>2
  <2> HIDE DEF x
  <2>4. onHand' \in Nat /\ onHand' = onHand - (IF d \in Buying!Confirmed(delivery) THEN delivery[d].accepted ELSE 0)
                          + (IF x.state = "CONFIRMED" THEN x.accepted ELSE 0)
    BY <1>1, <2>1, <2>2, <2>3
  <2> QED BY <2>1, <2>2, <2>3, <2>4, DeliveryStep
<1>5. ASSUME NEW a \in Arrivals, Buying!GoodsConfirmed(d, a) PROVE BuyingFits'
  <2> DEFINE x == Buying!Receipt(a, FALSE, "CONFIRMED")
  <2>1. /\ delivery[d] = None /\ delivery' = [delivery EXCEPT ![d] = x] /\ UNCHANGED <<bill, sold, approvals>>
        /\ onHand' = onHand + a.accepted /\ order' = order
    BY <1>5 DEF Buying!GoodsConfirmed
  <2>2. d \notin Buying!Confirmed(delivery) /\ d \notin Buying!AgainstOrder(delivery)
    BY <2>1 DEF Buying!Confirmed, Buying!AgainstOrder
  <2>3. x \in Buying!Receipts /\ x.state = "CONFIRMED" /\ ~x.forOrder /\ x.accepted = a.accepted /\ a.accepted \in Nat
    BY <1>2
  <2> HIDE DEF x
  <2>4. onHand' \in Nat /\ onHand' = onHand - (IF d \in Buying!Confirmed(delivery) THEN delivery[d].accepted ELSE 0)
                          + (IF x.state = "CONFIRMED" THEN x.accepted ELSE 0)
    BY <1>1, <2>1, <2>2, <2>3
  <2> QED BY <2>1, <2>2, <2>3, <2>4, DeliveryStep
<1>6. ASSUME Buying!ConfirmReceipt(d) PROVE BuyingFits'
  <2> DEFINE x == [delivery[d] EXCEPT !.state = "CONFIRMED"]
  <2>1. /\ delivery[d] # None /\ delivery[d].state = "DRAFT" /\ delivery' = [delivery EXCEPT ![d] = x] /\ UNCHANGED <<bill, sold, approvals>>
        /\ onHand' = onHand + delivery[d].accepted
        /\ IF delivery[d].forOrder THEN Buying!Advance(delivery') ELSE order' = order
    BY <1>6 DEF Buying!ConfirmReceipt
  <2>2. d \notin Buying!Confirmed(delivery) /\ d \notin Buying!AgainstOrder(delivery)
    BY <2>1 DEF Buying!Confirmed, Buying!AgainstOrder
  <2>3. x \in Buying!Receipts /\ x.state = "CONFIRMED" /\ x.forOrder = delivery[d].forOrder /\ x.accepted = delivery[d].accepted
        /\ delivery[d].accepted \in Nat
    BY <1>3, <2>1, ReceiptIs
  <2> HIDE DEF x
  <2>4. onHand' \in Nat /\ onHand' = onHand - (IF d \in Buying!Confirmed(delivery) THEN delivery[d].accepted ELSE 0)
                          + (IF x.state = "CONFIRMED" THEN x.accepted ELSE 0)
    BY <1>1, <2>1, <2>2, <2>3
  <2>5. delivery[d].forOrder => order.state # "NONE"
    BY <1>1, <2>1 DEF NothingBefore
  <2> QED BY <2>1, <2>2, <2>3, <2>4, <2>5, DeliveryStep
<1>7. ASSUME Buying!CancelReceipt(d) PROVE BuyingFits'
  <2> DEFINE x == [delivery[d] EXCEPT !.state = "CANCELLED"]
             n == IF delivery[d].state = "CONFIRMED" THEN delivery[d].accepted ELSE 0
  <2>1. /\ delivery[d] # None /\ delivery' = [delivery EXCEPT ![d] = x] /\ UNCHANGED <<bill, sold, approvals>>
        /\ n <= onHand /\ onHand' = onHand - n
        /\ IF delivery[d].forOrder THEN Buying!Advance(delivery') ELSE order' = order
    BY <1>7 DEF Buying!CancelReceipt, Buying!TakeBack
  <2>2. (d \in Buying!Confirmed(delivery) <=> delivery[d].state = "CONFIRMED") /\ (~delivery[d].forOrder => d \notin Buying!AgainstOrder(delivery))
    BY <2>1 DEF Buying!Confirmed, Buying!AgainstOrder
  <2>3. x \in Buying!Receipts /\ x.state = "CANCELLED" /\ delivery[d].accepted \in Nat
    BY <1>3, <2>1, ReceiptIs
  <2>4. n \in Nat /\ n = IF d \in Buying!Confirmed(delivery) THEN delivery[d].accepted ELSE 0
    BY <2>2, <2>3
  <2>6. x.forOrder = delivery[d].forOrder
    BY <1>3, <2>1, ReceiptIs
  <2> HIDE DEF x, n
  <2>5. onHand' \in Nat /\ onHand' = onHand - (IF d \in Buying!Confirmed(delivery) THEN delivery[d].accepted ELSE 0)
                          + (IF x.state = "CONFIRMED" THEN x.accepted ELSE 0)
    BY <1>1, <2>1, <2>3, <2>4
  <2>7. delivery[d].forOrder => order.state # "NONE"
    BY <1>1, <2>1 DEF NothingBefore
  <2> QED BY <2>1, <2>2, <2>3, <2>5, <2>6, <2>7, DeliveryStep
<1> QED BY <1>4, <1>5, <1>6, <1>7

\* One bill is posted or undone: the goods it brings itself are those on hand.
LEMMA BillStep ==
  ASSUME BuyingFits, NEW p \in Purchases, NEW x \in Entries, bill' = [bill EXCEPT ![p] = x],
         UNCHANGED <<order, delivery, sold, approvals>>, onHand' \in Nat,
         onHand' = onHand - Loose(bill)[p] + (IF x.state = "POSTED" /\ x.came = None THEN Billed[p] ELSE 0)
  PROVE  BuyingFits'
<1>1. PurchaseTypes /\ NothingBefore /\ ApprovalsFit /\ Buying!OrderShowsArrivals /\ GoodsBalance
  BY DEF BuyingFits
<1>2. bill \in [Purchases -> Entries] /\ onHand \in Nat /\ sold \in Nat /\ delivery \in Papers
  BY <1>1 DEF PurchaseTypes
<1> DEFINE came == Buying!Accepted(Buying!Confirmed(delivery), delivery)
           is == IF x.state = "POSTED" /\ x.came = None THEN Billed[p] ELSE 0
<1>3. SumOver(Loose(bill'), Purchases) = SumOver(Loose(bill), Purchases) - Loose(bill)[p] + is
  BY <1>2, LooseChanges
<1>4. onHand + sold = came + SumOver(Loose(bill), Purchases)
  BY <1>1 DEF GoodsBalance
<1>5. came \in Nat /\ SumOver(Loose(bill), Purchases) \in Nat /\ Loose(bill)[p] \in Nat /\ is \in Nat
  BY <1>2, AcceptedIs, LooseIs, PurchasingAssumption
<1>6. onHand' = onHand - Loose(bill)[p] + is
  OBVIOUS
<1>7. onHand' + sold = came + SumOver(Loose(bill'), Purchases)
  <2> HIDE DEF came, is
  <2> QED BY <1>2, <1>3, <1>4, <1>5, <1>6
<1>9. GoodsBalance'
  BY <1>7 DEF GoodsBalance
<1>10. PurchaseTypes' /\ NothingBefore' /\ ApprovalsFit' /\ Buying!OrderShowsArrivals'
  BY <1>1 DEF PurchaseTypes, NothingBefore, ApprovalsFit, Buying!OrderShowsArrivals
<1> QED BY <1>9, <1>10 DEF BuyingFits

LEMMA BillSteps ==
  ASSUME BuyingFits, NEW p \in Purchases, Buying!Reverse(p) \/ \E by, came \in Documents \cup {None} : Buying!Post(p, by, came)
  PROVE  BuyingFits'
<1>1. bill \in [Purchases -> Entries] /\ onHand \in Nat
  BY DEF BuyingFits, PurchaseTypes
<1>2. Billed[p] \in Nat
  BY PurchasingAssumption
<1>3. CASE Buying!Reverse(p)
  <2> DEFINE x == [bill[p] EXCEPT !.state = "REVERSED"]
             n == IF bill[p].came = None THEN Billed[p] ELSE 0
  <2>1. /\ bill[p].state = "POSTED" /\ bill' = [bill EXCEPT ![p] = x] /\ UNCHANGED <<order, delivery, sold, approvals>>
        /\ n <= onHand /\ onHand' = onHand - n
    BY <1>3 DEF Buying!Reverse, Buying!TakeBack, Buying!Live, Buying!papers
  <2>2. x \in Entries /\ x.state = "REVERSED"
    BY <1>1 DEF Entries
  <2>3. n \in Nat /\ Loose(bill)[p] = n
    BY <1>2, <2>1 DEF Loose
  <2> HIDE DEF x, n
  <2>4. onHand' \in Nat /\ onHand' = onHand - Loose(bill)[p] + (IF x.state = "POSTED" /\ x.came = None THEN Billed[p] ELSE 0)
    BY <1>1, <2>1, <2>2, <2>3
  <2> QED BY <2>1, <2>2, <2>4, BillStep
<1>4. ASSUME NEW by \in Documents \cup {None}, NEW came \in Documents \cup {None}, Buying!Post(p, by, came) PROVE BuyingFits'
  <2> DEFINE x == [state |-> "POSTED", by |-> by, came |-> came]
             n == IF came = None THEN Billed[p] ELSE 0
  <2>1. /\ bill[p].state = "NONE" /\ bill' = [bill EXCEPT ![p] = x] /\ UNCHANGED <<order, delivery, sold, approvals>>
        /\ onHand' = onHand + n
    BY <1>4 DEF Buying!Post, Buying!Brought, Buying!papers
  <2>2. x \in Entries /\ x.state = "POSTED" /\ x.came = came
    BY DEF Entries
  <2>3. n \in Nat /\ Loose(bill)[p] = 0
    BY <1>2, <2>1 DEF Loose
  <2>4. n = IF x.state = "POSTED" /\ x.came = None THEN Billed[p] ELSE 0
    OBVIOUS
  <2> HIDE DEF x, n
  <2>5. onHand' \in Nat /\ onHand' = onHand - Loose(bill)[p] + (IF x.state = "POSTED" /\ x.came = None THEN Billed[p] ELSE 0)
    BY <1>1, <2>1, <2>3, <2>4
  <2> QED BY <2>1, <2>2, <2>5, BillStep
<1> QED BY <1>3, <1>4

Namings == {"order", "supplier", "nothing"}

LEMMA HoldsAre ==
  ASSUME PurchaseTypes, NEW p \in Purchases, NEW named \in Namings
  PROVE  Buying!Holds(p, named) = HoldsOf(Buying!Fingerprint(p, named))
<1> DEFINE ds == Buying!Compared(named)
           f == [d \in ds |-> delivery[d].accepted]
           h == [d \in ds |-> <<d, delivery[d].received, delivery[d].accepted>>]
           seen == {<<d, delivery[d].received, delivery[d].accepted>> : d \in ds}
           g == [t \in seen |-> t[3]]
<1>1. delivery \in Papers
  BY DEF PurchaseTypes
<1>2. ds \subseteq Documents /\ \A d \in ds : delivery[d] \in Buying!Receipts
  BY <1>1 DEF Buying!Compared, Buying!AgainstOrder, Buying!Confirmed, Papers
<1>3. IsFiniteSet(ds) /\ \A d \in ds : delivery[d].accepted \in Int
  <2>1. IsFiniteSet(ds)
    BY <1>2, PurchasingAssumption, FS_Subset
  <2>2. ASSUME NEW d \in ds PROVE delivery[d].accepted \in Int
    <3> DEFINE x == delivery[d]
    <3>1. x \in Buying!Receipts
      BY <1>2
    <3> HIDE DEF x
    <3>2. x.accepted \in Nat
      BY <3>1, ReceiptIs
    <3> QED BY <3>2 DEF x
  <2> QED BY <2>1, <2>2
<1>4. Buying!Accepted(ds, delivery) = SumOver(f, ds)
  BY BuyingTotal DEF Buying!Accepted
<1>5. seen = {h[d] : d \in ds}
  OBVIOUS
<1>6. \A d \in ds : f[d] \in Int /\ g[h[d]] = f[d]
  BY <1>3
<1>7. \A d, e \in ds : h[d] = h[e] => d = e
  OBVIOUS
<1>8. SumOver(g, seen) = SumOver(f, ds)
  <2> HIDE DEF ds, f, g, h, seen
  <2> QED BY <1>3, <1>5, <1>6, <1>7, SumReindexed
<1>9. seen = {} <=> ds = {}
  OBVIOUS
<1> DEFINE print == Buying!Fingerprint(p, named)
<1>10. print[5] = seen /\ print[2] = named /\ print[3] = Billed[p] /\ print[4] = Dear[p]
  BY DEF Buying!Fingerprint
<1> DEFINE kept == Buying!Accepted(ds, delivery)
<1>11. Buying!Holds(p, named) =
         (IF ds # {} /\ Buying!Beyond(kept, Billed[p]) THEN {<<"INVOICED_ABOVE_ACCEPTED", Billed[p] - kept>>} ELSE {})
           \cup (IF ds # {} /\ named = "order" /\ Buying!Beyond(Ordered, kept) THEN {<<"OVER_DELIVERED", kept - Ordered>>} ELSE {})
           \cup (IF named = "order" /\ Dear[p] THEN {<<"PRICE_ABOVE_ORDER", 1>>} ELSE {})
  BY DEF Buying!Holds
<1>12. SumOver([t \in print[5] |-> t[3]], print[5]) = kept
  BY <1>4, <1>8, <1>10
<1> HIDE DEF print, kept, seen, ds
<1> QED BY <1>9, <1>10, <1>11, <1>12 DEF HoldsOf, print

LEMMA BuyingStep ==
  ASSUME BuyingFits, [Buying!Next]_(Buying!vars)
  PROVE  BuyingFits'
<1>1. CASE Buying!CreateOrder \/ Buying!PlaceOrder \/ Buying!CancelOrder \/ Buying!CloseOrder
  BY <1>1, OrderStep
<1>2. ASSUME NEW d \in Documents,
             \/ \E a \in Arrivals : Buying!GoodsConfirmed(d, a) \/ \E for \in BOOLEAN : Buying!RecordReceipt(d, a, for)
             \/ Buying!ConfirmReceipt(d) \/ Buying!CancelReceipt(d)
      PROVE  BuyingFits'
  BY <1>2, ReceiptSteps
<1>3. ASSUME NEW p \in Purchases, Buying!Reverse(p) \/ \E by, came \in Documents \cup {None} : Buying!Post(p, by, came)
      PROVE  BuyingFits'
  BY <1>3, BillSteps
<1>4. ASSUME NEW p \in Purchases, NEW named \in Namings, Buying!ApproveMatch(p, named) PROVE BuyingFits'
  <2> DEFINE a == [print |-> Buying!Fingerprint(p, named), number |-> Number[p], accepted |-> Buying!Holds(p, named)]
  <2>1. approvals' = approvals \cup {a} /\ UNCHANGED <<order, delivery, bill, onHand, sold>>
    BY <1>4 DEF Buying!ApproveMatch, Buying!papers, Buying!shop
  <2>2. a.number = a.print[1]
    BY DEF Buying!Fingerprint
  <2>3. a.accepted = HoldsOf(a.print)
    BY HoldsAre DEF BuyingFits
  <2> HIDE DEF a
  <2>4. ApprovalsFit'
    BY <2>1, <2>2, <2>3 DEF BuyingFits, ApprovalsFit
  <2> QED BY <2>1, <2>4 DEF BuyingFits, PurchaseTypes, NothingBefore, GoodsBalance, Loose, Buying!OrderShowsArrivals
<1>5. CASE Buying!Sell
  <2>1. /\ onHand > 0 /\ onHand' = onHand - 1 /\ sold' = sold + 1
        /\ UNCHANGED <<order, delivery, bill, approvals>>
    BY <1>5 DEF Buying!Sell, Buying!papers
  <2>2. onHand \in Nat /\ sold \in Nat
    BY DEF BuyingFits, PurchaseTypes
  <2>3. onHand' \in Nat /\ sold' \in Nat /\ onHand' + sold' = onHand + sold
    BY <2>1, <2>2
  <2>4. GoodsBalance'
    BY <2>1, <2>3 DEF BuyingFits, GoodsBalance, Loose
  <2> QED BY <2>1, <2>3, <2>4 DEF BuyingFits, PurchaseTypes, NothingBefore, ApprovalsFit, Buying!OrderShowsArrivals
<1>6. CASE UNCHANGED Buying!vars
  <2>1. UNCHANGED <<order, delivery, bill, onHand, sold, approvals>>
    BY <1>6 DEF Buying!vars, Buying!papers, Buying!shop
  <2> QED BY <2>1 DEF BuyingFits, PurchaseTypes, NothingBefore, ApprovalsFit, GoodsBalance, Loose, Buying!OrderShowsArrivals
<1> QED BY <1>1, <1>2, <1>3, <1>4, <1>5, <1>6 DEF Buying!Next, Namings

LEMMA SeenAsAccepted == BuyingFits => Buying!AcceptedAsSeen
<1> SUFFICES ASSUME BuyingFits, NEW p \in Purchases, NEW named \in Buying!MayName,
                    Buying!Cleared(p, named), Buying!Holds(p, named) # {}
             PROVE  \E a \in approvals : a.number = Number[p] /\ a.accepted = Buying!Holds(p, named)
  BY DEF Buying!AcceptedAsSeen
<1>1. PICK a \in approvals : a.print = Buying!Fingerprint(p, named)
  BY DEF Buying!Cleared
<1>2. a.number = a.print[1] /\ a.accepted = HoldsOf(a.print)
  BY DEF BuyingFits, ApprovalsFit
<1>3. a.print[1] = Number[p]
  BY <1>1 DEF Buying!Fingerprint
<1>4. named \in Namings
  BY DEF Buying!MayName, Namings
<1>5. Buying!Holds(p, named) = HoldsOf(Buying!Fingerprint(p, named))
  BY <1>4, HoldsAre DEF BuyingFits
<1> QED BY <1>1, <1>2, <1>3, <1>5

\* For any order, deliveries and bills: goods that are bought come in once, by a delivery or by
\* the bill, whatever is sold, cancelled or undone in between, where the bills that stand name
\* the delivery that brought their goods; the order shows what has arrived,
\* backwards too; and what a person accepted clears a bill with the differences that person saw
\* (posting-service.ts:199, matching-service.ts:518-539).
THEOREM PurchasesAlwaysAddUp == MCSpec => []PurchasesAddUp
<1>1. MCInit => BuyingFits
  BY BuyingFirst DEF MCInit
<1>2. BuyingFits /\ [MCNext]_<<vars, chase, assistant, rollbacks, purchases, imports, case>> => BuyingFits'
  <2> SUFFICES ASSUME BuyingFits, [MCNext]_<<vars, chase, assistant, rollbacks, purchases, imports, case>> PROVE BuyingFits'
    OBVIOUS
  <2>1. Buying!Next \/ UNCHANGED purchases
    BY DEF MCNext
  <2>2. [Buying!Next]_(Buying!vars)
    BY <2>1 DEF purchases, Buying!vars, Buying!papers, Buying!shop
  <2> QED BY <2>2, BuyingStep
<1>3. BuyingFits => PurchasesAddUp
  BY SeenAsAccepted, GoodsAre DEF PurchasesAddUp, BuyingFits
<1> QED BY <1>1, <1>2, <1>3, PTL DEF MCSpec

-----------------------------------------------------------------------------
(* What comes from another program (Migration)                            *)

FileRows(b) == DOMAIN RowsOf[batches[b].file]
Mark(b, i) == brought[b][Import!RowAt(b, i)]
Ended == {"COMMITTED", "ROLLED_BACK"}

Batch == [file : Files, state : Import!States, version : Nat, written : SUBSET Import!Places]
Request ==
  [at : {"idle", "write", "unwind", "back"}, batch : Nat, version : Nat,
   rows : SUBSET Import!Places, done : SUBSET Import!Places]

ImportTypes ==
  /\ batches \in Seq(Batch) /\ Len(batches) <= MaxBatches
  /\ brought \in [Import!Ids -> [Import!AllRows -> {"none", "in", "out"}]]
  /\ soldOn \in [Import!AllRows -> Nat]
  /\ callers \in [Callers -> Request]

\* A batch not yet made has brought nothing.
Unborn == \A b \in Import!Ids \ DOMAIN batches : \A r \in Import!AllRows : brought[b][r] = "none"

\* A batch brings rows of its file, and what it wrote was brought; taken out, all of it is out.
\* Of goods and balances it wrote every row.  Before it is committed, and unless a commit failed,
\* nothing was taken out of it.
BatchFits(b) ==
  /\ batches[b].written \subseteq FileRows(b)
  /\ \A i \in batches[b].written : Mark(b, i) # "none"
  /\ batches[b].state = "ROLLED_BACK" => \A i \in batches[b].written : Mark(b, i) = "out"
  /\ batches[b].state \in Ended /\ Import!KindOf(b) # "names" => batches[b].written = FileRows(b)
  /\ \A r \in Import!AllRows : brought[b][r] # "none" => \E i \in FileRows(b) : Import!RowAt(b, i) = r
  /\ batches[b].state \in Import!Open /\ b \notin failed => \A r \in Import!AllRows : brought[b][r] # "out"

\* What a request knows of its batch.
Placed(c) ==
  LET b == callers[c].batch IN
  /\ callers[c].at # "idle" /\ b \in DOMAIN batches
  /\ callers[c].rows \subseteq FileRows(b) /\ callers[c].done \subseteq FileRows(b)
  /\ callers[c].version <= batches[b].version
  /\ \A i \in callers[c].done : Mark(b, i) # "none"

Writing(c) ==
  LET b == callers[c].batch IN
  /\ callers[c].version = batches[b].version => batches[b].state \in Import!Open
  /\ Import!KindOf(b) # "names" => callers[c].rows \cup callers[c].done = FileRows(b)
  /\ Import!KindOf(b) = "names" => \A i \in FileRows(b) \ callers[c].rows : Import!Known(b, Import!RowAt(b, i))

Unwinding(c) == callers[c].rows \subseteq callers[c].done /\ callers[c].batch \in failed

GoingBack(c) ==
  LET b == callers[c].batch IN
  /\ callers[c].rows \subseteq callers[c].done /\ callers[c].done = batches[b].written
  /\ batches[b].state \in Ended /\ (batches[b].state = "COMMITTED" <=> callers[c].version = batches[b].version)
  /\ \A i \in callers[c].done \ callers[c].rows : Mark(b, i) = "out"
  /\ Import!KindOf(b) = "stock" /\ b \notin disturbed =>
       \A i \in callers[c].rows : Mark(b, i) = "in" => Import!Physical(Import!RowAt(b, i)) >= 1

CallersFit ==
  \A c \in Callers : callers[c] # Import!Idle =>
    /\ Placed(c)
    /\ callers[c].at = "write" => Writing(c)
    /\ callers[c].at = "unwind" => Unwinding(c)
    /\ callers[c].at = "back" => GoingBack(c)

\* A name stands for one import, and is on while it stands.
NamesFit ==
  /\ Already \subseteq names
  /\ \A b \in DOMAIN batches : Import!KindOf(b) = "names" =>
       \A r \in Import!AllRows : brought[b][r] # "none" =>
         /\ r \notin Already /\ (brought[b][r] = "in" => r \in names)
         /\ \A e \in DOMAIN batches : Import!KindOf(e) = "names" /\ e # b => brought[e][r] = "none"

Writer(c, b) == callers[c].at = "write" /\ callers[c].batch = b

\* One request writes names at a time, and what it brought is what somebody knows of: the request,
\* one that takes it out, or the batch; or else the file has nothing more to bring.
OneWriter ==
  \A b \in DOMAIN batches : Import!KindOf(b) = "names" /\ b \notin disturbed =>
    /\ \A c, d \in Callers : Writer(c, b) /\ Writer(d, b) => c = d
    /\ \A c \in Callers : Writer(c, b) => batches[b].state \in Import!Open

Accounted(b, r) ==
  \/ \E c \in Callers : Writer(c, b) /\ \E i \in callers[c].done : Import!RowAt(b, i) = r
  \/ \E c \in Callers : callers[c].at = "unwind" /\ callers[c].batch = b /\ \E i \in callers[c].rows : Import!RowAt(b, i) = r
  \/ batches[b].state = "COMMITTED" /\ \E i \in batches[b].written : Import!RowAt(b, i) = r
  \/ /\ batches[b].state \in Import!Open /\ \A c \in Callers : ~Writer(c, b)
     /\ \A i \in FileRows(b) : Import!Known(b, Import!RowAt(b, i))

NothingForgotten ==
  \A b \in DOMAIN batches : Import!KindOf(b) = "names" /\ b \notin disturbed =>
    \A r \in Import!AllRows : brought[b][r] = "in" => Accounted(b, r)

\* A committed import stands whole, or somebody is taking it out.
WholeOrLeaving ==
  \A b \in DOMAIN batches : batches[b].state = "COMMITTED" /\ b \notin failed \cup disturbed =>
    \/ \A i \in batches[b].written : Mark(b, i) = "in"
    \/ \E c \in Callers : callers[c].at = "back" /\ callers[c].batch = b /\ callers[c].version = batches[b].version

ImportsFit ==
  /\ ImportTypes /\ Unborn /\ (\A b \in DOMAIN batches : BatchFits(b)) /\ CallersFit
  /\ NamesFit /\ OneWriter /\ NothingForgotten /\ WholeOrLeaving

LEMMA LeastIs == \A S \in SUBSET Nat : S # {} => Min(S) \in S
<1> SUFFICES ASSUME NEW S \in SUBSET Nat, \A x \in S : ~ \A y \in S : x =< y PROVE S = {}
  BY DEF Min
<1> DEFINE Good == {n \in Nat : \A m \in 0..n : m \notin S}
<1>1. 0 \in Good
  BY SMT
<1>2. \A n \in Nat : n \in Good => n + 1 \in Good
  <2> SUFFICES ASSUME NEW n \in Nat, \A m \in 0..n : m \notin S, n + 1 \in S PROVE FALSE
    BY SMT
  <2>1. PICK y \in S : ~(n + 1 =< y)
    OBVIOUS
  <2>2. y \in 0..n
    BY <2>1
  <2> QED BY <2>2
<1>3. \A n \in Nat : n \in Good
  <2> HIDE DEF Good
  <2> QED BY <1>1, <1>2, Induction
<1> QED BY <1>3

LEMMA BatchesAre ==
  ASSUME ImportTypes
  PROVE  /\ Len(batches) \in Nat /\ DOMAIN batches = 1..Len(batches) /\ DOMAIN batches \subseteq Import!Ids
         /\ IsFiniteSet(DOMAIN batches)
         /\ \A b \in DOMAIN batches : /\ batches[b] \in Batch /\ b \in Nat \ {0}
                                      /\ Import!KindOf(b) \in {"names", "stock", "balances"}
                                      /\ FileRows(b) \subseteq Import!Places /\ FileRows(b) \subseteq Nat
                                      /\ \A i \in FileRows(b) : Import!RowAt(b, i) \in Import!AllRows
<1>1. Len(batches) \in Nat /\ DOMAIN batches = 1..Len(batches) /\ Len(batches) <= MaxBatches
  BY LenProperties DEF ImportTypes
<1>2. \A b \in DOMAIN batches : batches[b] \in Batch
  BY <1>1, ElementOfSeq DEF ImportTypes
<1>3. DOMAIN batches \subseteq Import!Ids
  BY <1>1, MigrationAssumption DEF Import!Ids
<1>4. \A b \in DOMAIN batches : batches[b].file \in Files
  BY <1>2 DEF Batch
<1>5. \A b \in DOMAIN batches : FileRows(b) \subseteq Import!Places /\ FileRows(b) \subseteq Nat
  BY <1>4, MigrationAssumption DEF FileRows, Import!Places
<1>6. \A b \in DOMAIN batches : \A i \in FileRows(b) : Import!RowAt(b, i) \in Import!AllRows
  BY <1>4 DEF FileRows, Import!RowAt, Import!AllRows
<1>7. \A b \in DOMAIN batches : Import!KindOf(b) \in {"names", "stock", "balances"}
  BY <1>4, MigrationAssumption DEF Import!KindOf
<1>8. IsFiniteSet(DOMAIN batches)
  BY <1>1, FS_Interval
<1> QED BY <1>1, <1>2, <1>3, <1>5, <1>6, <1>7, <1>8

LEMMA ImportFirst == Import!Init => ImportsFit
<1> SUFFICES ASSUME Import!Init PROVE ImportsFit
  OBVIOUS
<1> USE DEF Import!Init
<1>1. DOMAIN batches = {} /\ Len(batches) = 0 /\ batches \in Seq(Batch)
  OBVIOUS
<1>2. \A c \in Callers : callers[c] = Import!Idle
  OBVIOUS
<1>3. ImportTypes
  <2>1. Import!Idle \in Request
    BY DEF Import!Idle, Request
  <2> QED BY <1>1, <2>1, MigrationAssumption DEF ImportTypes
<1>4. Unborn /\ CallersFit /\ NamesFit /\ OneWriter /\ NothingForgotten /\ WholeOrLeaving
  BY <1>1, <1>2 DEF Unborn, CallersFit, NamesFit, OneWriter, NothingForgotten, WholeOrLeaving
<1> QED BY <1>1, <1>3, <1>4 DEF ImportsFit

\* The promises follow.
LEMMA ImportsKeepTheirWord ==
  ASSUME ImportsFit
  PROVE  Import!OthersUntouched /\ Import!TakenOutWhole /\ Import!StandsWhole
<1> USE DEF ImportsFit
<1>1. Import!OthersUntouched
  BY DEF NamesFit, Import!OthersUntouched
<1>2. \A b \in DOMAIN batches : Import!AtRest(b) => \A c \in Callers : callers[c].batch # b
  BY DEF Import!AtRest
<1>3. ASSUME NEW b \in DOMAIN batches, batches[b].state = "ROLLED_BACK", b \notin disturbed, Import!AtRest(b),
             NEW r \in Import!AllRows, brought[b][r] = "in"
      PROVE  FALSE
  <2>1. BatchFits(b) /\ \A c \in Callers : callers[c].batch # b
    BY <1>2, <1>3
  <2>2. PICK i \in FileRows(b) : Import!RowAt(b, i) = r
    BY <1>3, <2>1 DEF BatchFits
  <2>3. \A j \in batches[b].written : Mark(b, j) = "out"
    BY <1>3, <2>1 DEF BatchFits
  <2>4. i \notin batches[b].written
    BY <1>3, <2>2, <2>3 DEF Mark
  <2>5. Import!KindOf(b) = "names"
    BY <1>3, <2>1, <2>4 DEF BatchFits, Ended
  <2>6. Accounted(b, r)
    BY <1>3, <2>5 DEF NothingForgotten
  <2> QED BY <1>3, <2>1, <2>6 DEF Accounted, Writer, Import!Open
<1>4. ASSUME NEW b \in DOMAIN batches, batches[b].state = "COMMITTED", b \notin failed \cup disturbed, Import!AtRest(b)
      PROVE  \A i \in batches[b].written : brought[b][Import!RowAt(b, i)] = "in"
  BY <1>2, <1>4 DEF WholeOrLeaving, Mark
<1> QED BY <1>1, <1>3, <1>4 DEF Import!TakenOutWhole, Import!StandsWhole

-----------------------------------------------------------------------------

LEMMA BatchStays ==
  ASSUME NEW b, BatchFits(b), batches'[b] = batches[b], brought'[b] = brought[b], b \in failed => b \in failed'
  PROVE  BatchFits(b)'
<1>1. FileRows(b)' = FileRows(b) /\ Import!KindOf(b)' = Import!KindOf(b)
  BY DEF FileRows, Import!KindOf
<1>2. \A i : Mark(b, i)' = Mark(b, i) /\ Import!RowAt(b, i)' = Import!RowAt(b, i)
  BY DEF Mark, Import!RowAt
<1> QED BY <1>1, <1>2 DEF BatchFits

LEMMA Analysed == ASSUME ImportsFit, NEW f \in Files, Import!Analyse(f) PROVE ImportsFit'
<1> DEFINE x == [file |-> f, state |-> IF Import!IsRepeat(f) THEN "REJECTED_DUPLICATE" ELSE "ANALYSED", version |-> 1, written |-> {}]
<1>0. ImportTypes /\ Unborn /\ (\A b \in DOMAIN batches : BatchFits(b)) /\ CallersFit /\ NamesFit /\ OneWriter /\ NothingForgotten /\ WholeOrLeaving
  BY DEF ImportsFit
<1>1. /\ Len(batches) < MaxBatches /\ batches' = Append(batches, x)
      /\ UNCHANGED <<brought, names, soldOn, callers, disturbed, failed, fails>>
  BY DEF Import!Analyse
<1>2. x \in Batch /\ x.written = {} /\ x.state \in {"REJECTED_DUPLICATE", "ANALYSED"} /\ x.file = f
  BY DEF Batch, Import!States
<1> HIDE DEF x
<1>3. /\ Len(batches) \in Nat /\ batches \in Seq(Batch) /\ DOMAIN batches = 1..Len(batches) /\ DOMAIN batches \subseteq Import!Ids
      /\ IsFiniteSet(DOMAIN batches)
  BY <1>0, BatchesAre DEF ImportTypes
<1>19. PICK n \in Nat : n = Len(batches) + 1
  BY <1>3
<1>4. /\ batches' \in Seq(Batch) /\ Len(batches') = n /\ DOMAIN batches' = DOMAIN batches \cup {n}
      /\ batches'[n] = x /\ \A b \in DOMAIN batches : batches'[b] = batches[b]
  BY <1>1, <1>2, <1>3, <1>19, AppendProperties
<1>5. n \in Import!Ids /\ n \notin DOMAIN batches /\ n <= MaxBatches
  BY <1>1, <1>3, <1>19, MigrationAssumption DEF Import!Ids
<1>6. \A r \in Import!AllRows : brought[n][r] = "none"
  BY <1>0, <1>5 DEF Unborn
<1>7. ImportTypes' /\ Unborn'
  BY <1>0, <1>1, <1>4, <1>5, <1>6 DEF ImportTypes, Unborn
<1>8. \A r \in Import!AllRows : Import!Holding(r)' = Import!Holding(r)
  BY <1>1, <1>4, <1>6 DEF Import!Holding, Import!KindOf
<1>9. \A r \in Import!AllRows : Import!Physical(r)' = Import!Physical(r)
  BY <1>1, <1>8 DEF Import!Physical
<1>10. (\A b \in DOMAIN batches : BatchFits(b))'
  <2>1. \A b \in DOMAIN batches : BatchFits(b)'
    BY <1>0, <1>1, <1>4, BatchStays
  <2>2. BatchFits(n)'
    <3>1. batches'[n].written = {} /\ batches'[n].state \in {"REJECTED_DUPLICATE", "ANALYSED"} /\ \A r \in Import!AllRows : brought'[n][r] = "none"
      BY <1>1, <1>2, <1>4, <1>6
    <3> QED BY <3>1 DEF BatchFits, Ended
  <2>3. \A b \in DOMAIN batches' : BatchFits(b)'
    BY <2>1, <2>2, <1>4
  <2> QED BY <2>3
<1>11. CallersFit'
  <2> SUFFICES ASSUME NEW c \in Callers, callers[c] # Import!Idle
               PROVE  /\ Placed(c)'
                      /\ callers[c].at = "write" => Writing(c)'
                      /\ callers[c].at = "unwind" => Unwinding(c)'
                      /\ callers[c].at = "back" => GoingBack(c)'
    BY <1>1 DEF CallersFit
  <2>1. /\ Placed(c)
        /\ callers[c].at = "write" => Writing(c)
        /\ callers[c].at = "unwind" => Unwinding(c)
        /\ callers[c].at = "back" => GoingBack(c)
    BY <1>0 DEF CallersFit
  <2>2. Placed(c)' /\ callers[c].batch \in DOMAIN batches
    BY <2>1, <1>1, <1>4 DEF Placed, FileRows, Mark, Import!RowAt
  <2>3. callers[c].at = "write" => Writing(c)'
    BY <2>1, <2>2, <1>1, <1>4 DEF Writing, FileRows, Import!RowAt, Import!KindOf, Import!Known, Import!MadeOf
  <2>4. callers[c].at = "unwind" => Unwinding(c)'
    BY <2>1, <1>1 DEF Unwinding
  <2>5. callers[c].at = "back" => GoingBack(c)'
    <3>1. \A i \in callers[c].rows : Import!RowAt(callers[c].batch, i) \in Import!AllRows
      BY <1>0, <2>1, BatchesAre DEF Placed
    <3>2. PICK b \in DOMAIN batches : b = callers[c].batch
      BY <2>2
    <3>3. batches'[b] = batches[b] /\ Import!KindOf(b)' = Import!KindOf(b) /\ \A i : Mark(b, i)' = Mark(b, i)
      BY <1>1, <1>4 DEF Mark, Import!RowAt, Import!KindOf
    <3>4. \A i \in callers[c].rows : Import!Physical(Import!RowAt(b, i))' = Import!Physical(Import!RowAt(b, i))
      <4> SUFFICES ASSUME NEW i \in callers[c].rows, NEW r \in Import!AllRows, r = Import!RowAt(b, i)
                   PROVE  Import!Physical(Import!RowAt(b, i))' = Import!Physical(Import!RowAt(b, i))
        BY <3>1, <3>2
      <4>1. Import!RowAt(b, i)' = r
        BY <1>4 DEF Import!RowAt
      <4>2. Import!Physical(r)' = Import!Physical(r)
        BY <1>9
      <4> QED BY <1>4, <4>1, <4>2 DEF Import!Physical, Import!Holding, Import!RowAt
    <3> QED BY <2>1, <3>2, <3>3, <3>4, <1>1 DEF GoingBack
  <2> QED BY <2>2, <2>3, <2>4, <2>5
<1>12. NamesFit'
  BY <1>0, <1>1, <1>4, <1>6 DEF NamesFit, Import!KindOf
<1>13. \A c \in Callers : callers[c] # Import!Idle => callers[c].batch # n
  BY <1>0, <1>5 DEF CallersFit, Placed
<1>14. \A c \in Callers : ~Writer(c, n)
  BY <1>13 DEF Writer, Import!Idle
<1>15. OneWriter'
  BY <1>0, <1>1, <1>4, <1>14 DEF OneWriter, Writer, Import!KindOf
<1>16. NothingForgotten'
  <2> SUFFICES ASSUME NEW b \in DOMAIN batches', Import!KindOf(b)' = "names", b \notin disturbed, NEW r \in Import!AllRows, brought[b][r] = "in"
               PROVE  Accounted(b, r)'
    BY <1>1 DEF NothingForgotten
  <2>1. b \in DOMAIN batches
    BY <1>4, <1>6
  <2>2. Accounted(b, r)
    BY <1>0, <1>4, <2>1 DEF NothingForgotten, Import!KindOf
  <2>3. FileRows(b)' = FileRows(b) /\ batches'[b] = batches[b]
    BY <1>4, <2>1 DEF FileRows
  <2>4. \A i : Import!RowAt(b, i)' = Import!RowAt(b, i)
    BY <2>3 DEF Import!RowAt
  <2>5. \A q : Import!Known(b, q)' = Import!Known(b, q)
    BY <1>1 DEF Import!Known, Import!MadeOf
  <2>6. \A i : i \in FileRows(b) /\ Import!Known(b, Import!RowAt(b, i)) => Import!Known(b, Import!RowAt(b, i))'
    BY <2>3, <1>1 DEF Import!Known, Import!MadeOf, Import!RowAt
  <2> QED BY <2>2, <2>3, <2>4, <2>6, <1>1 DEF Accounted, Writer
<1>17. WholeOrLeaving'
  BY <1>0, <1>1, <1>2, <1>4 DEF WholeOrLeaving, Mark, Import!RowAt
<1> QED BY <1>7, <1>10, <1>11, <1>12, <1>15, <1>16, <1>17 DEF ImportsFit


RequestFits(c) ==
  callers[c] # Import!Idle =>
    /\ Placed(c)
    /\ callers[c].at = "write" => Writing(c)
    /\ callers[c].at = "unwind" => Unwinding(c)
    /\ callers[c].at = "back" => GoingBack(c)

LEMMA FitEach == CallersFit <=> \A c \in Callers : RequestFits(c)
  BY DEF CallersFit, RequestFits

\* A step of one request that leaves the batches and what they brought alone.
LEMMA RequestMoves ==
  ASSUME ImportsFit, NEW c \in Callers, NEW k \in Request, callers' = [callers EXCEPT ![c] = k],
         UNCHANGED <<batches, brought, names, soldOn>>,
         disturbed \subseteq disturbed', failed \subseteq failed',
         RequestFits(c)'
  PROVE  /\ ImportTypes' /\ Unborn' /\ (\A b \in DOMAIN batches : BatchFits(b))' /\ CallersFit' /\ NamesFit'
         /\ \A d \in Callers \ {c} : callers'[d] = callers[d]
         /\ callers'[c] = k
<1>0. ImportTypes /\ Unborn /\ (\A b \in DOMAIN batches : BatchFits(b)) /\ CallersFit /\ NamesFit
  BY DEF ImportsFit
<1>1. callers'[c] = k /\ \A d \in Callers \ {c} : callers'[d] = callers[d]
  BY <1>0 DEF ImportTypes
<1>2. ImportTypes' /\ Unborn' /\ NamesFit'
  BY <1>0 DEF ImportTypes, Unborn, NamesFit, Import!KindOf
<1>3. (\A b \in DOMAIN batches : BatchFits(b))'
  <2>1. \A b \in DOMAIN batches : BatchFits(b)'
    BY <1>0, BatchStays
  <2> QED BY <2>1
<1>4. ASSUME NEW d \in Callers \ {c} PROVE RequestFits(d)'
  <2>1. RequestFits(d) /\ callers'[d] = callers[d]
    BY <1>0, <1>1, FitEach
  <2>2. Placed(d) => Placed(d)'
    BY <2>1 DEF Placed, FileRows, Mark, Import!RowAt
  <2>3. Writing(d) => Writing(d)'
    BY <2>1 DEF Writing, FileRows, Import!RowAt, Import!KindOf, Import!Known, Import!MadeOf
  <2>4. Unwinding(d) => Unwinding(d)'
    BY <2>1 DEF Unwinding
  <2>5. GoingBack(d) => GoingBack(d)'
    BY <2>1 DEF GoingBack, Mark, Import!RowAt, Import!KindOf, Import!Physical, Import!Holding
  <2> QED BY <2>1, <2>2, <2>3, <2>4, <2>5 DEF RequestFits
<1>5. \A d \in Callers : RequestFits(d)'
  BY <1>4
<1>6. CallersFit'
  BY <1>5 DEF CallersFit, RequestFits
<1> QED BY <1>1, <1>2, <1>3, <1>6

LEMMA IdleIs == Import!Idle \in Request /\ Import!Idle.at = "idle" /\ Import!Idle.batch = 0 /\ Import!Idle.rows = {}
  BY DEF Import!Idle, Request

LEMMA Started ==
  ASSUME ImportsFit, NEW c \in Callers, NEW b \in DOMAIN batches, Import!Commit(c, b) \/ Import!Rollback(c, b)
  PROVE  ImportsFit'
<1>0. ImportTypes /\ Unborn /\ (\A e \in DOMAIN batches : BatchFits(e)) /\ CallersFit /\ NamesFit /\ OneWriter /\ NothingForgotten /\ WholeOrLeaving
  BY DEF ImportsFit
<1>1. /\ batches[b] \in Batch /\ FileRows(b) \subseteq Import!Places /\ BatchFits(b) /\ b \in Nat
      /\ \A i \in FileRows(b) : Import!RowAt(b, i) \in Import!AllRows
  BY <1>0, BatchesAre
<1>2. callers[c] = Import!Idle /\ UNCHANGED <<batches, brought, names, soldOn, failed, fails>>
  BY DEF Import!Commit, Import!Rollback
<1>3. CASE Import!Commit(c, b)
  <2> DEFINE k == [at |-> "write", batch |-> b, version |-> batches[b].version, rows |-> Import!Accepted(b), done |-> {}]
  <2>1. /\ callers' = [callers EXCEPT ![c] = k] /\ batches[b].state = "MAPPING_APPROVED" /\ Import!Accepted(b) # {}
        /\ disturbed' = IF Import!KindOf(b) = "names" /\ \E d \in Callers : Writer(d, b) THEN disturbed \cup {b} ELSE disturbed
    BY <1>3 DEF Import!Commit, Writer
  <2>2. Import!Accepted(b) = {i \in FileRows(b) : Import!KindOf(b) # "names" \/ ~Import!Known(b, Import!RowAt(b, i))}
    BY DEF Import!Accepted, FileRows
  <2>3. k \in Request /\ k.at = "write" /\ k.batch = b /\ k.version = batches[b].version /\ k.rows = Import!Accepted(b) /\ k.done = {}
    BY <1>1, <2>2 DEF Request, Batch
  <2> HIDE DEF k
  <2>4. callers'[c] = k /\ \A d \in Callers \ {c} : callers'[d] = callers[d]
    BY <1>0, <2>1 DEF ImportTypes
  <2>5. RequestFits(c)'
    <3>1. Placed(c)'
      BY <1>1, <1>2, <2>2, <2>3, <2>4 DEF Placed, FileRows, Batch
    <3>2. Writing(c)'
      <4>1. callers'[c].batch = b /\ callers'[c].rows = Import!Accepted(b) /\ callers'[c].done = {}
        BY <2>3, <2>4
      <4>2. batches'[b].state \in Import!Open
        BY <1>2, <2>1 DEF Import!Open
      <4>3. Import!KindOf(b) # "names" => Import!Accepted(b) = FileRows(b)
        BY <2>2
      <4>4. Import!KindOf(b) = "names" => \A i \in FileRows(b) \ Import!Accepted(b) : Import!Known(b, Import!RowAt(b, i))
        BY <2>2
      <4> QED BY <1>2, <4>1, <4>2, <4>3, <4>4 DEF Writing, FileRows, Import!KindOf, Import!Known, Import!MadeOf, Import!RowAt
    <3> QED BY <2>3, <2>4, <3>1, <3>2 DEF RequestFits
  <2>6. disturbed \subseteq disturbed' /\ failed \subseteq failed'
    BY <1>2, <2>1
  <2>7. ImportTypes' /\ Unborn' /\ (\A e \in DOMAIN batches : BatchFits(e))' /\ CallersFit' /\ NamesFit'
    BY <1>2, <2>1, <2>3, <2>5, <2>6, RequestMoves
  <2>8. \A d \in Callers : \A e : e # b => (Writer(d, e)' <=> Writer(d, e))
    BY <1>2, <2>3, <2>4, IdleIs DEF Writer
  <2>9. ~Writer(c, b) /\ Writer(c, b)'
    BY <1>2, <2>3, <2>4, IdleIs DEF Writer
  <2>10. \A d \in Callers \ {c} : Writer(d, b)' <=> Writer(d, b)
    BY <2>4 DEF Writer
  <2>11. OneWriter'
    <3> SUFFICES ASSUME NEW e \in DOMAIN batches, Import!KindOf(e) = "names", e \notin disturbed'
                 PROVE  /\ \A a, d \in Callers : Writer(a, e)' /\ Writer(d, e)' => a = d
                        /\ \A a \in Callers : Writer(a, e)' => batches[e].state \in Import!Open
      BY <1>2 DEF OneWriter, Import!KindOf
    <3>1. e \notin disturbed
      BY <2>6
    <3>2. CASE e # b
      BY <1>0, <2>8, <3>1, <3>2 DEF OneWriter
    <3>3. CASE e = b
      <4>1. \A d \in Callers : ~Writer(d, b)
        BY <2>1, <3>3
      <4> QED BY <2>1, <2>10, <3>3, <4>1 DEF Import!Open
    <3> QED BY <3>2, <3>3
  <2>12. NothingForgotten'
    <3> SUFFICES ASSUME NEW e \in DOMAIN batches, Import!KindOf(e) = "names", e \notin disturbed', NEW r \in Import!AllRows, brought[e][r] = "in"
                 PROVE  Accounted(e, r)'
      BY <1>2 DEF NothingForgotten, Import!KindOf
    <3>1. Accounted(e, r)
      BY <1>0, <2>6 DEF NothingForgotten
    <3>2. ~(e = b /\ \A i \in FileRows(b) : Import!Known(b, Import!RowAt(b, i)))
      BY <2>1, <2>2
    <3>3. \A i : Import!RowAt(e, i)' = Import!RowAt(e, i)
      BY <1>2 DEF Import!RowAt
    <3>4. \A i : Import!Known(e, Import!RowAt(e, i))' = Import!Known(e, Import!RowAt(e, i))
      BY <1>2 DEF Import!Known, Import!MadeOf, Import!RowAt
    <3>5. CASE \E d \in Callers : Writer(d, e) /\ \E i \in callers[d].done : Import!RowAt(e, i) = r
      <4>1. PICK d \in Callers : Writer(d, e) /\ \E i \in callers[d].done : Import!RowAt(e, i) = r
        BY <3>5
      <4>2. d # c
        BY <4>1, <1>2, IdleIs DEF Writer
      <4> QED BY <2>4, <3>3, <4>1, <4>2 DEF Accounted, Writer
    <3>6. CASE \E d \in Callers : callers[d].at = "unwind" /\ callers[d].batch = e /\ \E i \in callers[d].rows : Import!RowAt(e, i) = r
      <4>1. PICK d \in Callers : callers[d].at = "unwind" /\ callers[d].batch = e /\ \E i \in callers[d].rows : Import!RowAt(e, i) = r
        BY <3>6
      <4>2. d # c
        BY <4>1, <1>2, IdleIs
      <4> QED BY <2>4, <3>3, <4>1, <4>2 DEF Accounted
    <3>7. CASE batches[e].state = "COMMITTED" /\ \E i \in batches[e].written : Import!RowAt(e, i) = r
      BY <1>2, <3>3, <3>7 DEF Accounted
    <3>8. CASE /\ batches[e].state \in Import!Open /\ \A d \in Callers : ~Writer(d, e)
               /\ \A i \in FileRows(e) : Import!Known(e, Import!RowAt(e, i))
      <4>1. e # b
        BY <3>2, <3>8
      <4> QED BY <1>2, <2>8, <3>4, <3>8, <4>1 DEF Accounted, FileRows
    <3> QED BY <3>1, <3>5, <3>6, <3>7, <3>8 DEF Accounted
  <2>13. WholeOrLeaving'
    <3>1. callers[c].at # "back"
      BY <1>2, IdleIs
    <3> QED BY <1>0, <1>2, <2>4, <2>6, <3>1 DEF WholeOrLeaving, Mark, Import!RowAt
  <2> QED BY <2>7, <2>11, <2>12, <2>13 DEF ImportsFit
<1>4. CASE Import!Rollback(c, b)
  <2> DEFINE k == [at |-> "back", batch |-> b, version |-> batches[b].version, rows |-> batches[b].written, done |-> batches[b].written]
  <2>1. /\ callers' = [callers EXCEPT ![c] = k] /\ batches[b].state = "COMMITTED" /\ Import!CanReverse(b) /\ disturbed' = disturbed
    BY <1>4 DEF Import!Rollback
  <2>3. k \in Request /\ k.at = "back" /\ k.batch = b /\ k.version = batches[b].version /\ k.rows = batches[b].written /\ k.done = batches[b].written
    BY <1>1 DEF Request, Batch
  <2> HIDE DEF k
  <2>4. callers'[c] = k /\ \A d \in Callers \ {c} : callers'[d] = callers[d]
    BY <1>0, <2>1 DEF ImportTypes
  <2>5. RequestFits(c)'
    <3>1. Placed(c)'
      BY <1>1, <1>2, <2>3, <2>4 DEF Placed, FileRows, Batch, BatchFits, Mark, Import!RowAt
    <3>2. GoingBack(c)'
      <4>1. callers'[c].batch = b /\ callers'[c].rows = batches[b].written /\ callers'[c].done = batches[b].written /\ callers'[c].version = batches[b].version
        BY <2>3, <2>4
      <4>2. Import!KindOf(b) = "stock" => \A i \in batches[b].written : Import!Physical(Import!RowAt(b, i)) >= 1
        BY <2>1 DEF Import!CanReverse
      <4> QED BY <1>2, <2>1, <4>1, <4>2 DEF GoingBack, Ended, Import!KindOf, Import!RowAt, Mark, Import!Physical, Import!Holding
    <3> QED BY <2>3, <2>4, <3>1, <3>2 DEF RequestFits
  <2>6. disturbed \subseteq disturbed' /\ failed \subseteq failed'
    BY <1>2, <2>1
  <2>7. ImportTypes' /\ Unborn' /\ (\A e \in DOMAIN batches : BatchFits(e))' /\ CallersFit' /\ NamesFit'
    BY <1>2, <2>1, <2>3, <2>5, <2>6, RequestMoves
  <2>8. \A d \in Callers : \A e : Writer(d, e)' <=> Writer(d, e)
    BY <1>2, <2>3, <2>4, IdleIs DEF Writer
  <2>11. OneWriter'
    BY <1>0, <1>2, <2>1, <2>8 DEF OneWriter, Import!KindOf
  <2>12. NothingForgotten'
    <3> SUFFICES ASSUME NEW e \in DOMAIN batches, Import!KindOf(e) = "names", e \notin disturbed, NEW r \in Import!AllRows, brought[e][r] = "in"
                 PROVE  Accounted(e, r)'
      BY <1>2, <2>1 DEF NothingForgotten, Import!KindOf
    <3>1. Accounted(e, r)
      BY <1>0 DEF NothingForgotten
    <3>3. \A i : Import!RowAt(e, i)' = Import!RowAt(e, i)
      BY <1>2 DEF Import!RowAt
    <3>4. \A i : Import!Known(e, Import!RowAt(e, i))' = Import!Known(e, Import!RowAt(e, i))
      BY <1>2 DEF Import!Known, Import!MadeOf, Import!RowAt
    <3>5. \A d \in Callers : Writer(d, e) \/ callers[d].at = "unwind" => d # c /\ callers'[d] = callers[d]
      BY <1>2, <2>4, IdleIs DEF Writer
    <3> QED BY <1>2, <2>8, <3>1, <3>3, <3>4, <3>5 DEF Accounted, FileRows
  <2>13. WholeOrLeaving'
    <3>1. callers[c].at # "back"
      BY <1>2, IdleIs
    <3> QED BY <1>0, <1>2, <2>4, <2>6, <3>1 DEF WholeOrLeaving, Mark, Import!RowAt
  <2> QED BY <2>7, <2>11, <2>12, <2>13 DEF ImportsFit
<1> QED BY <1>3, <1>4


LEMMA Failed == ASSUME ImportsFit, NEW c \in Callers, Import!Fail(c) PROVE ImportsFit'
<1>0. ImportTypes /\ CallersFit /\ OneWriter /\ NothingForgotten /\ WholeOrLeaving
  BY DEF ImportsFit
<1> DEFINE k == [callers[c] EXCEPT !.at = "unwind", !.rows = callers[c].done]
<1>1. /\ callers[c].at = "write" /\ callers' = [callers EXCEPT ![c] = k] /\ failed' = failed \cup {callers[c].batch}
      /\ UNCHANGED <<batches, brought, names, soldOn, disturbed>>
  BY DEF Import!Fail, Import!Unwinds
<1>2. callers[c] \in Request
  BY <1>0 DEF ImportTypes
<1>3. k \in Request /\ k.at = "unwind" /\ k.batch = callers[c].batch /\ k.version = callers[c].version /\ k.rows = callers[c].done /\ k.done = callers[c].done
  BY <1>2 DEF Request
<1> HIDE DEF k
<1>4. callers'[c] = k /\ \A d \in Callers \ {c} : callers'[d] = callers[d]
  BY <1>0, <1>1 DEF ImportTypes
<1>5. Placed(c)
  BY <1>0, <1>1, IdleIs, FitEach DEF RequestFits
<1>6. RequestFits(c)'
  <2>1. Placed(c)'
    BY <1>1, <1>3, <1>4, <1>5 DEF Placed, FileRows, Mark, Import!RowAt
  <2>2. Unwinding(c)'
    BY <1>1, <1>3, <1>4 DEF Unwinding
  <2> QED BY <1>3, <1>4, <2>1, <2>2 DEF RequestFits
<1>7. ImportTypes' /\ Unborn' /\ (\A e \in DOMAIN batches : BatchFits(e))' /\ CallersFit' /\ NamesFit'
  BY <1>1, <1>3, <1>6, RequestMoves
<1>8. \A d \in Callers : \A e : Writer(d, e)' <=> Writer(d, e) /\ d # c
  BY <1>3, <1>4 DEF Writer
<1>9. OneWriter'
  BY <1>0, <1>1, <1>8 DEF OneWriter, Import!KindOf
<1>10. NothingForgotten'
  <2> SUFFICES ASSUME NEW e \in DOMAIN batches, Import!KindOf(e) = "names", e \notin disturbed, NEW r \in Import!AllRows, brought[e][r] = "in"
               PROVE  Accounted(e, r)'
    BY <1>1 DEF NothingForgotten, Import!KindOf
  <2>1. Accounted(e, r)
    BY <1>0 DEF NothingForgotten
  <2>2. \A i : Import!RowAt(e, i)' = Import!RowAt(e, i)
    BY <1>1 DEF Import!RowAt
  <2>3. \A i : Import!Known(e, Import!RowAt(e, i))' = Import!Known(e, Import!RowAt(e, i))
    BY <1>1 DEF Import!Known, Import!MadeOf, Import!RowAt
  <2>4. CASE \E d \in Callers : Writer(d, e) /\ \E i \in callers[d].done : Import!RowAt(e, i) = r
    <3>1. PICK d \in Callers : Writer(d, e) /\ \E i \in callers[d].done : Import!RowAt(e, i) = r
      BY <2>4
    <3>2. CASE d = c
      BY <1>3, <1>4, <2>2, <3>1, <3>2 DEF Accounted, Writer
    <3>3. CASE d # c
      BY <1>4, <2>2, <3>1, <3>3 DEF Accounted, Writer
    <3> QED BY <3>2, <3>3
  <2>5. CASE \E d \in Callers : callers[d].at = "unwind" /\ callers[d].batch = e /\ \E i \in callers[d].rows : Import!RowAt(e, i) = r
    <3>1. PICK d \in Callers : callers[d].at = "unwind" /\ callers[d].batch = e /\ \E i \in callers[d].rows : Import!RowAt(e, i) = r
      BY <2>5
    <3>2. d # c
      BY <1>1, <3>1
    <3> QED BY <1>4, <2>2, <3>1, <3>2 DEF Accounted
  <2> QED BY <1>1, <1>8, <2>1, <2>2, <2>3, <2>4, <2>5 DEF Accounted, FileRows
<1>11. WholeOrLeaving'
  BY <1>0, <1>1, <1>4 DEF WholeOrLeaving, Mark, Import!RowAt
<1> QED BY <1>7, <1>9, <1>10, <1>11 DEF ImportsFit

\* What may become of a batch's record.
Shift(b, y) ==
  \/ y = batches[b]
  \/ /\ y.version = batches[b].version + 1 /\ batches[b].state \in Import!Open
     /\ y.state = "COMMITTED" \/ (y.state \in Import!Open /\ y.written = batches[b].written)
  \/ /\ y.version = batches[b].version + 1 /\ batches[b].state = "COMMITTED"
     /\ y.state = "ROLLED_BACK" /\ y.written = batches[b].written

\* A step that changes the record of one batch, and may end requests.
LEMMA BatchMoves ==
  ASSUME ImportsFit, NEW b \in DOMAIN batches, NEW y \in Batch, batches' = [batches EXCEPT ![b] = y], y.file = batches[b].file,
         Shift(b, y), UNCHANGED <<brought, names, soldOn, disturbed, failed>>,
         callers' \in [Callers -> Request], \A d \in Callers : callers'[d] = callers[d] \/ callers'[d] = Import!Idle,
         BatchFits(b)'
  PROVE  /\ ImportTypes' /\ Unborn' /\ (\A e \in DOMAIN batches : BatchFits(e))' /\ CallersFit' /\ NamesFit'
         /\ DOMAIN batches' = DOMAIN batches /\ batches'[b] = y /\ \A e \in DOMAIN batches \ {b} : batches'[e] = batches[e]
         /\ \A e \in DOMAIN batches : /\ Import!KindOf(e)' = Import!KindOf(e) /\ FileRows(e)' = FileRows(e)
                                      /\ \A i : Import!RowAt(e, i)' = Import!RowAt(e, i)
                                      /\ \A i : Import!Known(e, Import!RowAt(e, i))' = Import!Known(e, Import!RowAt(e, i))
<1>0. ImportTypes /\ Unborn /\ (\A e \in DOMAIN batches : BatchFits(e)) /\ CallersFit /\ NamesFit
  BY DEF ImportsFit
<1>1. /\ Len(batches) \in Nat /\ batches \in Seq(Batch) /\ DOMAIN batches = 1..Len(batches)
      /\ \A e \in DOMAIN batches : batches[e] \in Batch
  BY <1>0, BatchesAre DEF ImportTypes
<1>2. /\ batches' \in Seq(Batch) /\ Len(batches') = Len(batches) /\ DOMAIN batches' = DOMAIN batches /\ batches'[b] = y
      /\ \A e \in DOMAIN batches \ {b} : batches'[e] = batches[e]
  <2>1. b \in 1..Len(batches)
    BY <1>1
  <2> QED BY <1>1, <2>1, ExceptSeq
<1>3. \A e \in DOMAIN batches : batches'[e].file = batches[e].file
  BY <1>2
<1>4. \A e \in DOMAIN batches : /\ Import!KindOf(e)' = Import!KindOf(e) /\ FileRows(e)' = FileRows(e)
                                /\ \A i : Import!RowAt(e, i)' = Import!RowAt(e, i)
                                /\ \A i : Import!Known(e, Import!RowAt(e, i))' = Import!Known(e, Import!RowAt(e, i))
                                /\ \A i : Mark(e, i)' = Mark(e, i)
  BY <1>3 DEF Import!KindOf, FileRows, Import!RowAt, Import!Known, Import!MadeOf, Mark
<1>5. ImportTypes' /\ Unborn'
  BY <1>0, <1>2 DEF ImportTypes, Unborn
<1>6. NamesFit'
  BY <1>0, <1>2, <1>4 DEF NamesFit
<1>7. (\A e \in DOMAIN batches : BatchFits(e))'
  <2>1. ASSUME NEW e \in DOMAIN batches \ {b} PROVE BatchFits(e)'
    BY <1>0, <1>2, BatchStays
  <2>2. \A e \in DOMAIN batches' : BatchFits(e)'
    BY <1>2, <2>1
  <2> QED BY <2>2
<1>8. \A r : Import!Physical(r)' = Import!Physical(r)
  <2>1. \A r : Import!Holding(r)' = Import!Holding(r)
    BY <1>2, <1>4 DEF Import!Holding
  <2> QED BY <2>1 DEF Import!Physical
<1>9. ASSUME NEW d \in Callers, callers'[d] = callers[d] PROVE RequestFits(d)'
  <2>0. SUFFICES ASSUME callers[d] # Import!Idle PROVE RequestFits(d)'
    BY <1>9 DEF RequestFits
  <2> DEFINE e == callers[d].batch
  <2>1. RequestFits(d) /\ Placed(d) /\ callers[d] \in Request
    BY <1>0, <2>0, FitEach DEF RequestFits, ImportTypes
  <2>2. PICK g \in DOMAIN batches : g = callers[d].batch
    BY <2>1 DEF Placed
  <2>3. batches[g] \in Batch /\ batches[b] \in Batch /\ callers[d].version \in Nat /\ callers[d].version <= batches[g].version
    BY <1>1, <2>1, <2>2 DEF Placed, Request
  <2>4. batches'[g] = batches[g] \/ (callers[d].version < batches'[g].version /\ g = b)
    <3>1. batches[g].version \in Nat
      BY <2>3 DEF Batch
    <3>2. CASE g # b \/ y = batches[b]
      <4>1. batches'[g] = batches[g]
        BY <1>2, <3>2
      <4> QED BY <4>1
    <3>3. CASE g = b /\ y # batches[b]
      <4>1. y.version = batches[g].version + 1 /\ batches'[g] = y
        BY <1>2, <3>3 DEF Shift
      <4> QED BY <2>3, <3>1, <3>3, <4>1
    <3> QED BY <3>2, <3>3
  <2>5. Placed(d)'
    <3>1. callers[d].version <= batches'[g].version
      BY <2>3, <2>4, <1>2 DEF Batch
    <3> QED BY <1>2, <1>4, <1>9, <2>1, <2>2, <3>1 DEF Placed
  <2>6. callers[d].at = "write" => Writing(d)'
    <3>1. callers[d].version = batches'[g].version => batches'[g] = batches[g]
      BY <2>3, <2>4
    <3>2. SUFFICES ASSUME Writing(d) PROVE Writing(d)'
      BY <2>0, <2>1 DEF RequestFits
    <3> QED BY <1>4, <1>9, <2>2, <3>1, <3>2 DEF Writing
  <2>7. callers[d].at = "unwind" => Unwinding(d)'
    BY <1>9, <2>0, <2>1 DEF Unwinding, RequestFits
  <2>8. callers[d].at = "back" => GoingBack(d)'
    <3>1. SUFFICES ASSUME GoingBack(d) PROVE GoingBack(d)'
      BY <2>0, <2>1 DEF RequestFits
    <3>2. batches[g].state \in Ended
      BY <2>2, <3>1 DEF GoingBack
    <3>3. batches'[g] = batches[g] \/ (batches'[g].state = "ROLLED_BACK" /\ batches'[g].written = batches[g].written)
      BY <1>2, <3>2 DEF Shift, Ended, Import!Open
    <3>4. batches'[g] = batches[g] \/ callers[d].version # batches'[g].version
      BY <2>3, <2>4
    <3> QED BY <1>4, <1>8, <1>9, <2>2, <3>1, <3>3, <3>4 DEF GoingBack, Ended
  <2> QED BY <1>9, <2>5, <2>6, <2>7, <2>8 DEF RequestFits
<1>10. \A d \in Callers : RequestFits(d)'
  BY <1>9 DEF RequestFits
<1>11. CallersFit'
  BY <1>10 DEF CallersFit, RequestFits
<1> QED BY <1>2, <1>4, <1>5, <1>6, <1>7, <1>11

LEMMA Approved == ASSUME ImportsFit, NEW b \in DOMAIN batches, Import!ApproveMapping(b) PROVE ImportsFit'
<1>0. ImportTypes /\ (\A e \in DOMAIN batches : BatchFits(e)) /\ CallersFit /\ OneWriter /\ NothingForgotten /\ WholeOrLeaving
  BY DEF ImportsFit
<1> DEFINE y == [batches[b] EXCEPT !.state = "MAPPING_APPROVED", !.version = batches[b].version + 1]
<1>1. /\ batches[b].state \in Import!Open /\ batches' = [batches EXCEPT ![b] = y]
      /\ UNCHANGED <<brought, names, soldOn, callers, disturbed, failed, fails>>
  BY DEF Import!ApproveMapping
<1>2. batches[b] \in Batch /\ BatchFits(b)
  BY <1>0, BatchesAre
<1>3. y \in Batch /\ y.file = batches[b].file /\ y.state = "MAPPING_APPROVED" /\ y.version = batches[b].version + 1 /\ y.written = batches[b].written
  <2>1. batches[b] \in [file : Files, state : Import!States, version : Nat, written : SUBSET Import!Places]
    BY <1>2 DEF Batch
  <2>2. batches[b].version + 1 \in Nat /\ "MAPPING_APPROVED" \in Import!States
    BY <2>1 DEF Import!States
  <2> QED BY <2>1, <2>2 DEF Batch
<1> HIDE DEF y
<1>4. Shift(b, y)
  BY <1>1, <1>3 DEF Shift, Import!Open
<1>5. batches'[b] = y
  BY <1>1
<1>6. BatchFits(b)'
  BY <1>1, <1>2, <1>3, <1>5 DEF BatchFits, FileRows, Mark, Import!RowAt, Import!KindOf, Import!Open, Ended
<1>7. /\ ImportTypes' /\ Unborn' /\ (\A e \in DOMAIN batches : BatchFits(e))' /\ CallersFit' /\ NamesFit'
      /\ DOMAIN batches' = DOMAIN batches /\ \A e \in DOMAIN batches \ {b} : batches'[e] = batches[e]
      /\ \A e \in DOMAIN batches : /\ Import!KindOf(e)' = Import!KindOf(e) /\ FileRows(e)' = FileRows(e)
                                   /\ \A i : Import!RowAt(e, i)' = Import!RowAt(e, i)
                                   /\ \A i : Import!Known(e, Import!RowAt(e, i))' = Import!Known(e, Import!RowAt(e, i))
  <2>1. callers' \in [Callers -> Request]
    BY <1>0, <1>1 DEF ImportTypes
  <2> QED BY <1>1, <1>3, <1>4, <1>6, <2>1, BatchMoves
<1>8. \A e \in DOMAIN batches : /\ batches'[e].state \in Import!Open <=> batches[e].state \in Import!Open
                                /\ batches'[e].state = "COMMITTED" <=> batches[e].state = "COMMITTED"
                                /\ batches'[e].state = "COMMITTED" => batches'[e] = batches[e]
                                /\ batches'[e].written = batches[e].written
  BY <1>1, <1>3, <1>5, <1>7 DEF Import!Open
<1>9. OneWriter'
  BY <1>0, <1>1, <1>7, <1>8 DEF OneWriter, Writer
<1>10. NothingForgotten'
  BY <1>0, <1>1, <1>7, <1>8 DEF NothingForgotten, Accounted, Writer
<1>11. WholeOrLeaving'
  BY <1>0, <1>1, <1>7, <1>8 DEF WholeOrLeaving, Mark
<1> QED BY <1>7, <1>9, <1>10, <1>11 DEF ImportsFit


LEMMA Finished ==
  ASSUME ImportsFit, NEW c \in Callers, Import!Committed(c) \/ Import!TakenOut(c)
  PROVE  ImportsFit'
<1>0. ImportTypes /\ (\A e \in DOMAIN batches : BatchFits(e)) /\ CallersFit /\ OneWriter /\ NothingForgotten /\ WholeOrLeaving
  BY DEF ImportsFit
<1>1. /\ callers[c].at \in {"write", "unwind", "back"} /\ callers[c].rows = {} /\ callers' = [callers EXCEPT ![c] = Import!Idle]
      /\ UNCHANGED <<brought, names, soldOn, disturbed, failed, fails>>
  BY DEF Import!Committed, Import!TakenOut, Import!Rests
<1>2. RequestFits(c) /\ Placed(c) /\ callers[c] # Import!Idle
  BY <1>0, <1>1, IdleIs, FitEach DEF RequestFits
<1>3. PICK b \in DOMAIN batches : b = callers[c].batch
  BY <1>2 DEF Placed
<1>4. batches[b] \in Batch /\ BatchFits(b) /\ callers[c] \in Request /\ batches \in Seq(Batch) /\ DOMAIN batches = 1..Len(batches)
  BY <1>0, <1>3, BatchesAre DEF ImportTypes
<1>5. /\ callers' \in [Callers -> Request] /\ callers'[c] = Import!Idle
      /\ \A d \in Callers \ {c} : callers'[d] = callers[d]
  BY <1>0, <1>1, IdleIs DEF ImportTypes
<1> DEFINE Becomes(state) == [batches[b] EXCEPT !.state = state, !.version = callers[c].version + 1, !.written = callers[c].done]
           Turn(y) ==
             \/ y = batches[b] /\ (callers[c].at = "back" => callers[c].version # batches[b].version)
             \/ /\ callers[c].at = "write" /\ batches[b].state \in Import!Open
                /\ y.state = "COMMITTED" /\ y.written = callers[c].done /\ y.version = batches[b].version + 1
             \/ /\ callers[c].at = "back" /\ batches[b].state = "COMMITTED"
                /\ y.state = "ROLLED_BACK" /\ y.written = batches[b].written /\ callers[c].done = batches[b].written
                /\ y.version = batches[b].version + 1
<1>6. ASSUME NEW state \in {"COMMITTED", "ROLLED_BACK"}, batches[b].version = callers[c].version
      PROVE  /\ Becomes(state) \in Batch /\ Becomes(state).file = batches[b].file /\ Becomes(state).state = state
             /\ Becomes(state).written = callers[c].done /\ Becomes(state).version = batches[b].version + 1
  <2>1. /\ batches[b] \in [file : Files, state : Import!States, version : Nat, written : SUBSET Import!Places]
        /\ callers[c].done \in SUBSET Import!Places /\ callers[c].version + 1 \in Nat
        /\ batches[b].version + 1 = callers[c].version + 1
    BY <1>4, <1>6 DEF Batch, Request
  <2>2. state \in Import!States
    BY DEF Import!States
  <2> QED BY <2>1, <2>2 DEF Batch
<1>7. \E y \in Batch : batches' = [batches EXCEPT ![b] = y] /\ y.file = batches[b].file /\ Turn(y)
  <2>1. [batches EXCEPT ![b] = batches[b]] = batches
    <3>1. batches = [i \in 1..Len(batches) |-> batches[i]]
      BY <1>4
    <3> QED BY <1>4, <3>1
  <2>2. CASE batches' = batches /\ (callers[c].at = "back" => callers[c].version # batches[b].version)
    BY <1>4, <2>1, <2>2
  <2>3. CASE callers[c].at = "write" /\ batches[b].version = callers[c].version /\ batches' = [batches EXCEPT ![b] = Becomes("COMMITTED")]
    <3>1. batches[b].state \in Import!Open
      BY <1>2, <1>3, <2>3 DEF RequestFits, Writing
    <3> HIDE DEF Becomes
    <3> QED BY <1>6, <2>3, <3>1
  <2>4. CASE callers[c].at = "back" /\ batches[b].version = callers[c].version /\ batches' = [batches EXCEPT ![b] = Becomes("ROLLED_BACK")]
    <3>1. batches[b].state = "COMMITTED" /\ callers[c].done = batches[b].written
      BY <1>2, <1>3, <2>4 DEF RequestFits, GoingBack
    <3> HIDE DEF Becomes
    <3> QED BY <1>6, <2>4, <3>1
  <2>5. CASE Import!Committed(c)
    <3>1. callers[c].at = "write" /\ batches' = IF batches[b].version # callers[c].version THEN batches ELSE [batches EXCEPT ![b] = Becomes("COMMITTED")]
      BY <1>3, <2>5 DEF Import!Committed, Import!Updates
    <3> HIDE DEF Becomes, Turn
    <3> QED BY <2>2, <2>3, <3>1
  <2>6. CASE Import!TakenOut(c)
    <3>1. /\ callers[c].at = "back" =>
               batches' = IF batches[b].version # callers[c].version THEN batches ELSE [batches EXCEPT ![b] = Becomes("ROLLED_BACK")]
          /\ callers[c].at # "back" => batches' = batches
      BY <1>3, <2>6 DEF Import!TakenOut, Import!Updates
    <3> HIDE DEF Becomes, Turn
    <3> QED BY <2>2, <2>4, <3>1
  <2> QED BY <2>5, <2>6
<1>8. PICK y \in Batch : batches' = [batches EXCEPT ![b] = y] /\ y.file = batches[b].file /\ Turn(y)
  BY <1>7
<1>9. Shift(b, y)
  BY <1>8 DEF Shift
<1>10. BatchFits(b)'
  <2>0. batches'[b] = y /\ (\A i : Mark(b, i)' = Mark(b, i)) /\ (\A i : Import!RowAt(b, i)' = Import!RowAt(b, i))
        /\ FileRows(b)' = FileRows(b) /\ Import!KindOf(b)' = Import!KindOf(b)
    <3>1. batches'[b] = y
      BY <1>8, <1>4
    <3> QED BY <1>1, <1>8, <3>1 DEF Mark, Import!RowAt, FileRows, Import!KindOf
  <2>1. CASE y = batches[b]
    BY <1>1, <1>4, <2>0, <2>1, BatchStays
  <2>2. CASE callers[c].at = "write" /\ y.state = "COMMITTED" /\ y.written = callers[c].done
    <3>1. Writing(c) /\ callers[c].done \subseteq FileRows(b) /\ \A i \in callers[c].done : Mark(b, i) # "none"
      BY <1>2, <1>3, <2>2 DEF RequestFits, Placed
    <3>2. Import!KindOf(b) # "names" => callers[c].done = FileRows(b)
      BY <1>1, <1>3, <3>1 DEF Writing
    <3> QED BY <1>1, <1>4, <2>0, <2>2, <3>1, <3>2 DEF BatchFits, Import!Open
  <2>3. CASE callers[c].at = "back" /\ batches[b].state = "COMMITTED" /\ y.state = "ROLLED_BACK" /\ y.written = batches[b].written /\ callers[c].done = batches[b].written
    <3>1. \A i \in batches[b].written : Mark(b, i) = "out"
      BY <1>1, <1>2, <1>3, <2>3 DEF RequestFits, GoingBack
    <3> QED BY <1>1, <1>4, <2>0, <2>3, <3>1 DEF BatchFits, Import!Open, Ended
  <2> QED BY <1>8, <2>1, <2>2, <2>3
<1>11. /\ ImportTypes' /\ Unborn' /\ (\A e \in DOMAIN batches : BatchFits(e))' /\ CallersFit' /\ NamesFit'
       /\ DOMAIN batches' = DOMAIN batches /\ batches'[b] = y /\ \A e \in DOMAIN batches \ {b} : batches'[e] = batches[e]
       /\ \A e \in DOMAIN batches : /\ Import!KindOf(e)' = Import!KindOf(e) /\ FileRows(e)' = FileRows(e)
                                    /\ \A i : Import!RowAt(e, i)' = Import!RowAt(e, i)
                                    /\ \A i : Import!Known(e, Import!RowAt(e, i))' = Import!Known(e, Import!RowAt(e, i))
  BY <1>1, <1>5, <1>8, <1>9, <1>10, BatchMoves
<1>12. \A d \in Callers : \A e : Writer(d, e)' <=> Writer(d, e) /\ d # c
  BY <1>5, IdleIs DEF Writer
<1>13. callers[c].at = "write" => Writer(c, b)
  BY <1>3 DEF Writer
<1>14. OneWriter'
  <2> SUFFICES ASSUME NEW e \in DOMAIN batches, Import!KindOf(e) = "names", e \notin disturbed
               PROVE  /\ \A a, d \in Callers : Writer(a, e)' /\ Writer(d, e)' => a = d
                      /\ \A a \in Callers : Writer(a, e)' => batches'[e].state \in Import!Open
    BY <1>1, <1>11 DEF OneWriter
  <2>1. /\ \A a, d \in Callers : Writer(a, e) /\ Writer(d, e) => a = d
        /\ \A a \in Callers : Writer(a, e) => batches[e].state \in Import!Open
    BY <1>0 DEF OneWriter
  <2>2. CASE e # b \/ y = batches[b]
    BY <1>11, <1>12, <2>1, <2>2
  <2>3. CASE e = b /\ callers[c].at = "write"
    BY <1>12, <1>13, <2>1, <2>3
  <2>4. CASE e = b /\ batches[b].state = "COMMITTED"
    BY <1>12, <2>1, <2>4 DEF Import!Open
  <2> QED BY <1>8, <2>2, <2>3, <2>4
<1>15. NothingForgotten'
  <2> SUFFICES ASSUME NEW e \in DOMAIN batches, Import!KindOf(e) = "names", e \notin disturbed, NEW r \in Import!AllRows, brought[e][r] = "in"
               PROVE  Accounted(e, r)'
    BY <1>1, <1>11 DEF NothingForgotten
  <2>1. Accounted(e, r)
    BY <1>0 DEF NothingForgotten
  <2>2. \A a \in Callers : Writer(a, e) => batches[e].state \in Import!Open /\ \A d \in Callers : Writer(d, e) => a = d
    BY <1>0 DEF OneWriter
  <2>3. CASE \E d \in Callers : Writer(d, e) /\ \E i \in callers[d].done : Import!RowAt(e, i) = r
    <3>1. PICK d \in Callers : Writer(d, e) /\ \E i \in callers[d].done : Import!RowAt(e, i) = r
      BY <2>3
    <3>2. CASE d # c
      BY <1>5, <1>11, <3>1, <3>2 DEF Accounted, Writer
    <3>3. CASE d = c /\ y = batches[b]
      <4>1. e = b /\ \A a \in Callers : ~Writer(a, b)'
        BY <1>3, <1>12, <2>2, <3>1, <3>3 DEF Writer
      <4>2. \A i \in FileRows(b) : Import!Known(b, Import!RowAt(b, i))
        <5>1. callers[c].at = "write" /\ Writing(c)
          BY <1>2, <3>1, <3>3 DEF RequestFits, Writer
        <5> QED BY <1>1, <1>3, <4>1, <5>1 DEF Writing
      <4>3. batches'[b].state \in Import!Open
        BY <1>11, <2>2, <3>1, <3>3, <4>1
      <4> QED BY <1>11, <4>1, <4>2, <4>3 DEF Accounted
    <3>4. CASE d = c /\ y.state = "COMMITTED" /\ y.written = callers[c].done
      <4>1. e = b
        BY <1>3, <3>1, <3>4 DEF Writer
      <4> QED BY <1>11, <3>1, <3>4, <4>1 DEF Accounted
    <3>5. CASE d = c /\ callers[c].at = "back"
      BY <3>1, <3>5 DEF Writer
    <3> QED BY <1>8, <3>2, <3>3, <3>4, <3>5
  <2>4. CASE \E d \in Callers : callers[d].at = "unwind" /\ callers[d].batch = e /\ \E i \in callers[d].rows : Import!RowAt(e, i) = r
    <3>1. PICK d \in Callers : callers[d].at = "unwind" /\ callers[d].batch = e /\ \E i \in callers[d].rows : Import!RowAt(e, i) = r
      BY <2>4
    <3>2. d # c
      BY <1>1, <3>1
    <3> QED BY <1>5, <1>11, <3>1, <3>2 DEF Accounted
  <2>5. CASE batches[e].state = "COMMITTED" /\ \E i \in batches[e].written : Import!RowAt(e, i) = r
    <3>1. CASE e # b \/ y = batches[b]
      BY <1>11, <2>5, <3>1 DEF Accounted
    <3>2. CASE e = b /\ callers[c].at = "write" /\ batches[b].state \in Import!Open
      BY <2>5, <3>2 DEF Import!Open
    <3>3. CASE e = b /\ callers[c].at = "back" /\ callers[c].done = batches[b].written
      <4>1. \A i \in batches[b].written : Mark(b, i) = "out"
        BY <1>1, <1>2, <1>3, <3>3 DEF RequestFits, GoingBack
      <4> QED BY <2>5, <3>3, <4>1 DEF Mark
    <3> QED BY <1>8, <3>1, <3>2, <3>3
  <2>6. CASE /\ batches[e].state \in Import!Open /\ \A d \in Callers : ~Writer(d, e)
             /\ \A i \in FileRows(e) : Import!Known(e, Import!RowAt(e, i))
    <3>1. CASE e # b \/ y = batches[b]
      BY <1>11, <1>12, <2>6, <3>1 DEF Accounted
    <3>2. CASE e = b /\ callers[c].at = "write"
      BY <1>13, <2>6, <3>2
    <3>3. CASE e = b /\ batches[b].state = "COMMITTED"
      BY <2>6, <3>3 DEF Import!Open
    <3> QED BY <1>8, <3>1, <3>2, <3>3
  <2> QED BY <2>1, <2>3, <2>4, <2>5, <2>6 DEF Accounted
<1>16. WholeOrLeaving'
  <2> SUFFICES ASSUME NEW e \in DOMAIN batches, batches'[e].state = "COMMITTED", e \notin failed \cup disturbed
               PROVE  \/ \A i \in batches'[e].written : Mark(e, i) = "in"
                      \/ \E d \in Callers : callers'[d].at = "back" /\ callers'[d].batch = e /\ callers'[d].version = batches'[e].version
    BY <1>1, <1>11 DEF WholeOrLeaving, Mark
  <2>1. CASE batches'[e] = batches[e]
    <3>1. \/ \A i \in batches[e].written : Mark(e, i) = "in"
          \/ \E d \in Callers : callers[d].at = "back" /\ callers[d].batch = e /\ callers[d].version = batches[e].version
      BY <1>0, <2>1 DEF WholeOrLeaving
    <3>2. callers[c].at = "back" /\ callers[c].batch = e => callers[c].version # batches[e].version
      BY <1>2, <1>3, <1>8, <1>11, <2>1
    <3> QED BY <1>5, <2>1, <3>1, <3>2
  <2>2. CASE e = b /\ y.state = "COMMITTED" /\ callers[c].at = "write" /\ batches[b].state \in Import!Open /\ y.written = callers[c].done
    <3>1. \A i \in callers[c].done : Mark(b, i) # "none" /\ i \in FileRows(b)
      BY <1>2, <1>3 DEF Placed
    <3>2. \A r \in Import!AllRows : brought[b][r] # "out"
      BY <1>4, <2>2 DEF BatchFits
    <3>3. \A i \in callers[c].done : Import!RowAt(b, i) \in Import!AllRows
      BY <1>0, <3>1, BatchesAre
    <3>4. b \in Import!Ids /\ brought \in [Import!Ids -> [Import!AllRows -> {"none", "in", "out"}]]
      BY <1>0, BatchesAre DEF ImportTypes
    <3>5. \A i \in callers[c].done : Mark(b, i) = "in"
      BY <3>1, <3>2, <3>3, <3>4 DEF Mark
    <3> QED BY <1>11, <2>2, <3>5
  <2> QED BY <1>8, <1>11, <2>1, <2>2
<1> QED BY <1>11, <1>14, <1>15, <1>16 DEF ImportsFit

LEMMA SoldOn == ASSUME ImportsFit, NEW r \in Import!AllRows, Import!Sell(r) PROVE ImportsFit'
<1>0. ImportTypes /\ Unborn /\ (\A e \in DOMAIN batches : BatchFits(e)) /\ CallersFit /\ NamesFit /\ OneWriter /\ NothingForgotten /\ WholeOrLeaving
  BY DEF ImportsFit
<1>1. /\ soldOn' = [soldOn EXCEPT ![r] = soldOn[r] + 1] /\ disturbed' = disturbed \cup Import!TakingOut(0)
      /\ UNCHANGED <<batches, brought, names, callers, failed, fails>>
  BY DEF Import!Sell
<1>2. ImportTypes' /\ Unborn' /\ NamesFit' /\ OneWriter' /\ WholeOrLeaving'
  BY <1>0, <1>1 DEF ImportTypes, Unborn, NamesFit, OneWriter, WholeOrLeaving, Import!KindOf, Writer, Mark, Import!RowAt
<1>3. \A e \in DOMAIN batches' : BatchFits(e)'
  BY <1>0, <1>1, BatchStays
<1>4. NothingForgotten'
  <2> SUFFICES ASSUME NEW e \in DOMAIN batches, Import!KindOf(e) = "names", e \notin disturbed, NEW q \in Import!AllRows, brought[e][q] = "in"
               PROVE  Accounted(e, q)'
    BY <1>1 DEF NothingForgotten, Import!KindOf
  <2>1. Accounted(e, q)
    BY <1>0 DEF NothingForgotten
  <2> QED BY <1>1, <2>1 DEF Accounted, Writer, FileRows, Import!RowAt, Import!Known, Import!MadeOf
<1>5. ASSUME NEW d \in Callers PROVE RequestFits(d)'
  <2>0. RequestFits(d)
    BY <1>0, FitEach
  <2>1. Placed(d) => Placed(d)'
    BY <1>1 DEF Placed, FileRows, Mark, Import!RowAt
  <2>2. Writing(d) => Writing(d)'
    BY <1>1 DEF Writing, FileRows, Import!RowAt, Import!KindOf, Import!Known, Import!MadeOf
  <2>3. Unwinding(d) => Unwinding(d)'
    BY <1>1 DEF Unwinding
  <2>4. callers[d].at = "back" /\ Placed(d) => callers[d].batch \in disturbed'
    <3>1. callers[d].at = "back" => callers[d].batch \in {callers[c].batch : c \in {a \in Callers : callers[a].at = "back"}}
      OBVIOUS
    <3>2. Placed(d) => callers[d].batch # 0
      BY <1>0, BatchesAre DEF Placed
    <3> QED BY <1>1, <3>1, <3>2 DEF Import!TakingOut
  <2>5. callers[d].at = "back" /\ Placed(d) /\ GoingBack(d) => GoingBack(d)'
    BY <1>1, <2>4 DEF GoingBack, Mark, Import!RowAt, Import!KindOf
  <2> QED BY <1>1, <2>0, <2>1, <2>2, <2>3, <2>5 DEF RequestFits
<1>6. CallersFit'
  BY <1>5 DEF CallersFit, RequestFits
<1> QED BY <1>2, <1>3, <1>4, <1>6 DEF ImportsFit


LEMMA NextPlace ==
  ASSUME ImportTypes, NEW c \in Callers, Placed(c), callers[c].rows # {}
  PROVE  /\ Import!Place(c) \in callers[c].rows /\ Import!Place(c) \in FileRows(callers[c].batch)
         /\ Import!Row(c) = Import!RowAt(callers[c].batch, Import!Place(c)) /\ Import!Row(c) \in Import!AllRows
<1>1. callers[c].rows \in SUBSET Nat
  BY BatchesAre DEF Placed
<1>2. Import!Place(c) \in callers[c].rows
  BY <1>1, LeastIs DEF Import!Place, Import!Min, Min
<1> QED BY <1>2, BatchesAre DEF Placed, Import!Row

\* The mark of one row of one batch changes, to what stands or to what was taken out.
MarksOne(c, k, b, r, m) ==
  /\ c \in Callers /\ k \in Request /\ b \in DOMAIN batches /\ r \in Import!AllRows /\ m \in {"in", "out"}
  /\ callers' = [callers EXCEPT ![c] = k] /\ brought' = [brought EXCEPT ![b][r] = m]
  /\ UNCHANGED <<batches, soldOn>> /\ disturbed \subseteq disturbed' /\ failed \subseteq failed'
  /\ \E i \in FileRows(b) : Import!RowAt(b, i) = r
  /\ m = "in" => brought[b][r] = "none"
  /\ m = "out" => /\ brought[b][r] # "none" /\ (batches[b].state \notin Import!Open \/ b \in failed')
                  /\ Import!KindOf(b) = "stock" => Import!TakingOut(b) \subseteq disturbed'

LEMMA MarkMoves ==
  ASSUME ImportsFit, NEW c, NEW k, NEW b, NEW r, NEW m, MarksOne(c, k, b, r, m)
  PROVE  /\ ImportTypes' /\ Unborn' /\ (\A e \in DOMAIN batches : BatchFits(e))'
         /\ callers'[c] = k /\ \A d \in Callers \ {c} : callers'[d] = callers[d] /\ RequestFits(d)'
         /\ \A e \in DOMAIN batches : \A q \in Import!AllRows : brought'[e][q] = IF e = b /\ q = r THEN m ELSE brought[e][q]
         /\ \A e \in DOMAIN batches : /\ Import!KindOf(e)' = Import!KindOf(e) /\ FileRows(e)' = FileRows(e)
                                      /\ \A i : Import!RowAt(e, i)' = Import!RowAt(e, i)
         /\ \A e \in DOMAIN batches, q \in Import!AllRows : Import!Known(e, q) \/ q = r => Import!Known(e, q)'
         /\ \A q \in Import!AllRows : q # r => Import!Physical(q)' = Import!Physical(q)
<1> USE DEF MarksOne
<1>0. ImportTypes /\ Unborn /\ (\A e \in DOMAIN batches : BatchFits(e)) /\ CallersFit
  BY DEF ImportsFit
<1>1. callers'[c] = k /\ \A d \in Callers \ {c} : callers'[d] = callers[d]
  BY <1>0 DEF ImportTypes
<1>2. \A e \in Import!Ids : \A q \in Import!AllRows : brought'[e][q] = IF e = b /\ q = r THEN m ELSE brought[e][q]
  BY <1>0, BatchesAre DEF ImportTypes
<1>3. DOMAIN batches \subseteq Import!Ids /\ IsFiniteSet(DOMAIN batches)
  BY <1>0, BatchesAre
<1>4. ImportTypes'
  BY <1>0, <1>3 DEF ImportTypes
<1>5. Unborn'
  BY <1>0, <1>2 DEF Unborn
<1>6. \A e : /\ Import!KindOf(e)' = Import!KindOf(e) /\ FileRows(e)' = FileRows(e)
             /\ \A i : Import!RowAt(e, i)' = Import!RowAt(e, i)
  BY DEF Import!KindOf, FileRows, Import!RowAt
<1>7. \A e \in DOMAIN batches : \A i \in FileRows(e) : Import!RowAt(e, i) \in Import!AllRows
  BY <1>0, BatchesAre
<1>8. \A e \in DOMAIN batches : \A i \in FileRows(e) : Mark(e, i)' = IF e = b /\ Import!RowAt(e, i) = r THEN m ELSE Mark(e, i)
  BY <1>2, <1>3, <1>6, <1>7 DEF Mark
<1>9. ASSUME NEW e \in DOMAIN batches PROVE BatchFits(e)'
  <2>1. BatchFits(e)
    BY <1>0
  <2>2. \A i \in FileRows(e) : /\ Mark(e, i) # "none" => Mark(e, i)' # "none"
                               /\ Mark(e, i) = "out" => Mark(e, i)' = "out"
    BY <1>8 DEF Mark
  <2>3. \A q \in Import!AllRows : brought'[e][q] # "none" => \E i \in FileRows(e) : Import!RowAt(e, i) = q
    BY <1>2, <1>3, <2>1 DEF BatchFits
  <2>4. batches[e].state \in Import!Open /\ e \notin failed' => \A q \in Import!AllRows : brought'[e][q] # "out"
    BY <1>2, <1>3, <2>1 DEF BatchFits
  <2> QED BY <1>6, <2>1, <2>2, <2>3, <2>4 DEF BatchFits
<1>10. \A e \in DOMAIN batches' : BatchFits(e)'
  BY <1>9
<1>11. \A e \in DOMAIN batches, q \in Import!AllRows : Import!Known(e, q) \/ q = r => Import!Known(e, q)'
  <2>1. \A q \in Import!AllRows : \A e \in Import!MadeOf(q) : e \in Import!MadeOf(q)'
    BY <1>2 DEF Import!MadeOf
  <2>2. b \in Import!MadeOf(r)'
    BY <1>2, <1>3 DEF Import!MadeOf
  <2> QED BY <2>1, <2>2 DEF Import!Known
<1>12. \A q \in Import!AllRows : q # r \/ Import!KindOf(b) # "stock" => Import!Physical(q)' = Import!Physical(q)
  <2> SUFFICES ASSUME NEW q \in Import!AllRows, q # r \/ Import!KindOf(b) # "stock" PROVE Import!Physical(q)' = Import!Physical(q)
    OBVIOUS
  <2>1. Import!Holding(q)' = Import!Holding(q)
    BY <1>2, <1>3, <1>6 DEF Import!Holding
  <2> QED BY <2>1 DEF Import!Physical
<1>13. m = "in" => Import!Physical(r)' >= Import!Physical(r) /\ Import!Physical(r) \in Int /\ Import!Physical(r)' \in Int
  <2> SUFFICES ASSUME m = "in" PROVE Import!Physical(r)' >= Import!Physical(r) /\ Import!Physical(r) \in Int /\ Import!Physical(r)' \in Int
    OBVIOUS
  <2>1. Import!Holding(r) \subseteq Import!Holding(r)' /\ Import!Holding(r)' \subseteq DOMAIN batches
    BY <1>2, <1>3, <1>6 DEF Import!Holding
  <2>2. IsFiniteSet(Import!Holding(r)') /\ IsFiniteSet(Import!Holding(r))
    BY <1>3, <2>1, FS_Subset
  <2>3. Cardinality(Import!Holding(r)) <= Cardinality(Import!Holding(r)')
        /\ Cardinality(Import!Holding(r)) \in Nat /\ Cardinality(Import!Holding(r)') \in Nat
    BY <2>1, <2>2, FS_Subset, FS_CardinalityType
  <2>4. soldOn[r] \in Nat /\ soldOn'[r] = soldOn[r]
    BY <1>0 DEF ImportTypes
  <2>5. Import!Physical(r) = Cardinality(Import!Holding(r)) - soldOn[r] /\ Import!Physical(r)' = Cardinality(Import!Holding(r)') - soldOn[r]
    BY <2>4 DEF Import!Physical, Import!Cardinality, Cardinality, Import!IsFiniteSet, IsFiniteSet
  <2> QED BY <2>3, <2>4, <2>5
<1>14. ASSUME NEW d \in Callers \ {c} PROVE RequestFits(d)'
  <2>0. SUFFICES ASSUME callers[d] # Import!Idle PROVE RequestFits(d)'
    BY <1>1 DEF RequestFits
  <2>1. RequestFits(d) /\ Placed(d) /\ callers'[d] = callers[d]
    BY <1>0, <1>1, <2>0, FitEach DEF RequestFits
  <2>2. PICK g \in DOMAIN batches : g = callers[d].batch
    BY <2>1 DEF Placed
  <2>3. callers[d].done \subseteq FileRows(g) /\ callers[d].rows \subseteq FileRows(g) /\ \A i \in callers[d].done : Mark(g, i) # "none"
    BY <2>1, <2>2 DEF Placed
  <2>4. Placed(d)'
    <3>1. \A i \in callers[d].done : Mark(g, i)' # "none"
      BY <1>8, <2>3
    <3> QED BY <1>6, <2>1, <2>2, <3>1 DEF Placed
  <2>5. Writing(d) => Writing(d)'
    <3>1. \A i \in FileRows(g) : Import!Known(g, Import!RowAt(g, i)) => Import!Known(g, Import!RowAt(g, i))'
      <4> SUFFICES ASSUME NEW i \in FileRows(g), Import!Known(g, Import!RowAt(g, i)) PROVE Import!Known(g, Import!RowAt(g, i))'
        OBVIOUS
      <4>1. PICK q \in Import!AllRows : q = Import!RowAt(g, i)
        BY <1>7
      <4>2. Import!Known(g, q)'
        BY <1>11, <4>1
      <4> QED BY <1>6, <4>1, <4>2 DEF Import!Known, Import!MadeOf
    <3> QED BY <1>6, <2>1, <2>2, <3>1 DEF Writing
  <2>6. Unwinding(d) => Unwinding(d)'
    BY <2>1 DEF Unwinding
  <2>7. callers[d].at = "back" /\ GoingBack(d) => GoingBack(d)'
    <3> SUFFICES ASSUME callers[d].at = "back", GoingBack(d) PROVE GoingBack(d)'
      OBVIOUS
    <3>1. \A i \in callers[d].done \ callers[d].rows : Mark(g, i)' = "out"
      BY <1>8, <2>2, <2>3 DEF GoingBack, Mark
    <3>2. ASSUME Import!KindOf(g) = "stock", g \notin disturbed', NEW i \in callers[d].rows, Mark(g, i)' = "in"
          PROVE  Import!Physical(Import!RowAt(g, i))' >= 1
      <4>1. i \in callers[d].done /\ i \in FileRows(g) /\ Mark(g, i) # "none"
        BY <2>2, <2>3, <3>2 DEF GoingBack
      <4>2. PICK q \in Import!AllRows : q = Import!RowAt(g, i)
        BY <1>7, <4>1
      <4>3. Mark(g, i) = "in" /\ ~(g = b /\ q = r)
        BY <1>8, <3>2, <4>1, <4>2 DEF Mark
      <4>4. Import!Physical(q) >= 1
        BY <2>2, <3>2, <4>2, <4>3 DEF GoingBack
      <4>5. Import!Physical(q)' >= 1
        <5>1. CASE q # r \/ Import!KindOf(b) # "stock"
          BY <1>12, <4>4, <5>1
        <5>2. CASE q = r /\ m = "in"
          BY <1>13, <4>4, <5>2
        <5>3. CASE q = r /\ m = "out" /\ Import!KindOf(b) = "stock"
          <6>1. g # b
            BY <4>3, <5>3
          <6>2. g \in Import!TakingOut(b)
            BY <2>2, <6>1 DEF Import!TakingOut
          <6> QED BY <3>2, <5>3, <6>2
        <5> QED BY <5>1, <5>2, <5>3
      <4> QED BY <1>6, <4>2, <4>5 DEF Import!Physical, Import!Holding
    <3> QED BY <1>6, <2>1, <2>2, <3>1, <3>2 DEF GoingBack
  <2> QED BY <2>1, <2>4, <2>5, <2>6, <2>7 DEF RequestFits
<1>15. \A e \in DOMAIN batches : \A q \in Import!AllRows : brought'[e][q] = IF e = b /\ q = r THEN m ELSE brought[e][q]
  BY <1>2, <1>3
<1> QED BY <1>1, <1>4, <1>5, <1>6, <1>10, <1>11, <1>12, <1>14, <1>15


LEMMA Wrote == ASSUME ImportsFit, NEW c \in Callers, Import!Write(c) PROVE ImportsFit'
<1>0. ImportTypes /\ Unborn /\ (\A e \in DOMAIN batches : BatchFits(e)) /\ CallersFit /\ NamesFit /\ OneWriter /\ NothingForgotten /\ WholeOrLeaving
  BY DEF ImportsFit
<1>1. callers[c].at = "write" /\ callers[c].rows # {} /\ UNCHANGED <<batches, soldOn, disturbed, failed, fails>>
  BY DEF Import!Write
<1>2. RequestFits(c) /\ Placed(c) /\ Writing(c) /\ callers[c] \in Request
  BY <1>0, <1>1, IdleIs, FitEach DEF RequestFits, ImportTypes
<1>3. PICK b \in DOMAIN batches : b = callers[c].batch
  BY <1>2 DEF Placed
<1>4. PICK p \in FileRows(b), r \in Import!AllRows : p = Import!Place(c) /\ r = Import!Row(c) /\ r = Import!RowAt(b, p) /\ p \in callers[c].rows
  BY <1>0, <1>1, <1>2, <1>3, NextPlace
<1>5. /\ BatchFits(b) /\ FileRows(b) \subseteq Import!Places
      /\ \A e \in DOMAIN batches : \A i \in FileRows(e) : Import!RowAt(e, i) \in Import!AllRows
  BY <1>0, BatchesAre
<1> DEFINE on == [callers[c] EXCEPT !.rows = callers[c].rows \ {p}]
           kept == [callers[c] EXCEPT !.rows = callers[c].rows \ {p}, !.done = callers[c].done \cup {p}]
<1>6. /\ on \in Request /\ on.at = "write" /\ on.batch = b /\ on.version = callers[c].version
      /\ on.rows = callers[c].rows \ {p} /\ on.done = callers[c].done
      /\ kept \in Request /\ kept.at = "write" /\ kept.batch = b /\ kept.version = callers[c].version
      /\ kept.rows = callers[c].rows \ {p} /\ kept.done = callers[c].done \cup {p}
  BY <1>1, <1>2, <1>3, <1>4, <1>5 DEF Request
<1>7. \/ callers' = [callers EXCEPT ![c] = kept] /\ brought[b][r] # "none" /\ UNCHANGED <<brought, names>>
      \/ callers' = [callers EXCEPT ![c] = on] /\ Import!KindOf(b) = "names" /\ Import!Known(b, r) /\ UNCHANGED <<brought, names>>
      \/ /\ callers' = [callers EXCEPT ![c] = kept] /\ brought[b][r] = "none" /\ ~(Import!KindOf(b) = "names" /\ Import!Known(b, r))
         /\ brought' = [brought EXCEPT ![b][r] = "in"]
         /\ names' = IF Import!KindOf(b) = "names" THEN names \cup {r} ELSE names
  <2>1. Import!Written(c) => callers' = [callers EXCEPT ![c] = kept]
    BY <1>4 DEF Import!Written, Import!Onwards
  <2>2. Import!Passes(c) => callers' = [callers EXCEPT ![c] = on]
    BY <1>4 DEF Import!Passes, Import!Onwards
  <2> HIDE DEF kept, on
  <2> QED BY <1>3, <1>4, <2>1, <2>2 DEF Import!Write, Import!IsOurs, Import!Brings
<1> HIDE DEF on, kept
\* What holds whichever it was: the request goes on, what is known stays known, this row too.
<1> DEFINE Step1(k) == /\ k \in Request /\ k.at = "write" /\ k.batch = b /\ k.version = callers[c].version /\ k.rows = callers[c].rows \ {p}
                      /\ k.done \in {callers[c].done, callers[c].done \cup {p}} /\ (Import!KindOf(b) # "names" => p \in k.done)
<1>8. ASSUME NEW k, Step1(k), callers' = [callers EXCEPT ![c] = k],
             p \in k.done => brought'[b][r] # "none",
             \A e \in DOMAIN batches : \A q \in Import!AllRows : brought[e][q] # "none" => brought'[e][q] = brought[e][q],
             \A e \in DOMAIN batches, q \in Import!AllRows : Import!Known(e, q) => Import!Known(e, q)',
             Import!KindOf(b) = "names" => Import!Known(b, r)',
             \A e \in DOMAIN batches, q \in Import!AllRows : brought'[e][q] = "in" => brought[e][q] = "in" \/ (e = b /\ q = r /\ p \in k.done)
      PROVE  RequestFits(c)' /\ OneWriter' /\ NothingForgotten' /\ WholeOrLeaving'
  <2>1. callers'[c] = k /\ \A d \in Callers \ {c} : callers'[d] = callers[d]
    BY <1>0, <1>8 DEF ImportTypes
  <2>2. /\ k.at = "write" /\ k.batch = b /\ k.version = callers[c].version /\ k.rows = callers[c].rows \ {p}
        /\ callers[c].done \subseteq k.done /\ k.done \subseteq callers[c].done \cup {p}
        /\ Import!KindOf(b) # "names" => p \in k.done
        /\ \A i \in k.done : i \in callers[c].done \/ (i = p /\ p \in k.done)
    BY <1>8
  <2>3. \A e : /\ Import!KindOf(e)' = Import!KindOf(e) /\ FileRows(e)' = FileRows(e) /\ batches'[e] = batches[e]
               /\ \A i : Import!RowAt(e, i)' = Import!RowAt(e, i)
    BY <1>1 DEF Import!KindOf, FileRows, Import!RowAt
  <2>4. \A e \in DOMAIN batches : \A i \in FileRows(e) : Import!Known(e, Import!RowAt(e, i)) => Import!Known(e, Import!RowAt(e, i))'
    <3> SUFFICES ASSUME NEW e \in DOMAIN batches, NEW i \in FileRows(e), Import!Known(e, Import!RowAt(e, i)) PROVE Import!Known(e, Import!RowAt(e, i))'
      OBVIOUS
    <3>1. PICK q \in Import!AllRows : q = Import!RowAt(e, i)
      BY <1>5
    <3>2. Import!Known(e, q)'
      BY <1>8, <3>1
    <3> QED BY <2>3, <3>1, <3>2 DEF Import!Known, Import!MadeOf
  <2>5. RequestFits(c)'
    <3>1. Placed(c)'
      <4>1. \A i \in callers[c].done : Mark(b, i)' # "none"
        <5> SUFFICES ASSUME NEW i \in callers[c].done PROVE Mark(b, i)' # "none"
          OBVIOUS
        <5>1. i \in FileRows(b) /\ Mark(b, i) # "none"
          BY <1>2, <1>3 DEF Placed
        <5> QED BY <1>5, <1>8, <2>3, <5>1 DEF Mark
      <4>2. p \in k.done => Mark(b, p)' # "none"
        BY <1>4, <1>8, <2>3 DEF Mark
      <4>3. \A i \in k.done : Mark(b, i)' # "none"
        BY <2>2, <4>1, <4>2
      <4>4. k.rows \subseteq FileRows(b) /\ k.done \subseteq FileRows(b) /\ callers[c].version <= batches[b].version
        BY <1>2, <1>3, <1>4, <2>2 DEF Placed
      <4> QED BY <1>1, <2>1, <2>2, <2>3, <4>3, <4>4 DEF Placed
    <3>2. Writing(c)'
      <4>1. Import!KindOf(b) # "names" => k.rows \cup k.done = FileRows(b)
        BY <1>2, <1>3, <1>4, <1>8, <2>2 DEF Writing
      <4>2. ASSUME Import!KindOf(b) = "names", NEW i \in FileRows(b) \ k.rows PROVE Import!Known(b, Import!RowAt(b, i))'
        <5>1. CASE i = p
          <6>1. Import!Known(b, r)'
            BY <1>8, <4>2
          <6> QED BY <1>4, <2>3, <5>1, <6>1 DEF Import!Known, Import!MadeOf
        <5>2. CASE i # p
          <6>1. Import!Known(b, Import!RowAt(b, i))
            BY <1>2, <1>3, <2>2, <4>2, <5>2 DEF Writing
          <6> QED BY <2>4, <6>1
        <5> QED BY <5>1, <5>2
      <4>3. callers[c].version = batches[b].version => batches[b].state \in Import!Open
        BY <1>2, <1>3 DEF Writing
      <4> QED BY <2>1, <2>2, <2>3, <4>1, <4>2, <4>3 DEF Writing
    <3> QED BY <2>1, <2>2, <3>1, <3>2 DEF RequestFits
  <2>6. \A d \in Callers : \A e : Writer(d, e)' <=> Writer(d, e)
    BY <1>1, <1>3, <2>1, <2>2 DEF Writer
  <2>7. OneWriter'
    BY <1>0, <1>1, <2>3, <2>6 DEF OneWriter
  <2>8. NothingForgotten'
    <3> SUFFICES ASSUME NEW e \in DOMAIN batches, Import!KindOf(e) = "names", e \notin disturbed, NEW q \in Import!AllRows, brought'[e][q] = "in"
                 PROVE  Accounted(e, q)'
      BY <1>1, <2>3 DEF NothingForgotten
    <3>1. CASE e = b /\ q = r /\ p \in k.done
      <4>1. Writer(c, b)' /\ p \in callers'[c].done /\ Import!RowAt(b, p)' = r
        BY <1>4, <2>1, <2>2, <2>3, <3>1 DEF Writer
      <4> QED BY <3>1, <4>1 DEF Accounted
    <3>2. CASE brought[e][q] = "in"
      <4>1. Accounted(e, q)
        BY <1>0, <3>2 DEF NothingForgotten
      <4>2. \A d \in Callers : Writer(d, e) \/ callers[d].at = "unwind" => callers[d].done \subseteq callers'[d].done /\ (callers[d].at = "unwind" => callers'[d] = callers[d])
        BY <1>1, <2>1, <2>2
      <4> QED BY <2>3, <2>4, <2>6, <4>1, <4>2 DEF Accounted
    <3> QED BY <1>8, <3>1, <3>2
  <2>9. WholeOrLeaving'
    <3> SUFFICES ASSUME NEW e \in DOMAIN batches, batches[e].state = "COMMITTED", e \notin failed \cup disturbed
                 PROVE  \/ \A i \in batches[e].written : Mark(e, i)' = "in"
                        \/ \E d \in Callers : callers'[d].at = "back" /\ callers'[d].batch = e /\ callers'[d].version = batches[e].version
      BY <1>1, <2>3 DEF WholeOrLeaving
    <3>1. \/ \A i \in batches[e].written : Mark(e, i) = "in"
          \/ \E d \in Callers : callers[d].at = "back" /\ callers[d].batch = e /\ callers[d].version = batches[e].version
      BY <1>0 DEF WholeOrLeaving
    <3>2. CASE \A i \in batches[e].written : Mark(e, i) = "in"
      <4>1. \A i \in batches[e].written : i \in FileRows(e)
        BY <1>0 DEF BatchFits
      <4> QED BY <1>5, <1>8, <2>3, <3>2, <4>1 DEF Mark
    <3>3. CASE \E d \in Callers : callers[d].at = "back" /\ callers[d].batch = e /\ callers[d].version = batches[e].version
      BY <1>1, <2>1, <3>3
    <3> QED BY <3>1, <3>2, <3>3
  <2> QED BY <2>5, <2>7, <2>8, <2>9
<1> HIDE DEF Step1
\* Nothing new is brought.
<1>9. ASSUME NEW k, Step1(k), callers' = [callers EXCEPT ![c] = k], UNCHANGED <<brought, names>>,
             p \in k.done => brought[b][r] # "none", Import!KindOf(b) = "names" => Import!Known(b, r)
      PROVE  ImportsFit'
  <2>1. \A e, q : Import!Known(e, q)' <=> Import!Known(e, q)
    BY <1>9 DEF Import!Known, Import!MadeOf
  <2>2. /\ p \in k.done => brought'[b][r] # "none"
        /\ \A e \in DOMAIN batches : \A q \in Import!AllRows : brought[e][q] # "none" => brought'[e][q] = brought[e][q]
        /\ \A e \in DOMAIN batches, q \in Import!AllRows : Import!Known(e, q) => Import!Known(e, q)'
        /\ Import!KindOf(b) = "names" => Import!Known(b, r)'
        /\ \A e \in DOMAIN batches, q \in Import!AllRows : brought'[e][q] = "in" => brought[e][q] = "in" \/ (e = b /\ q = r /\ p \in k.done)
    BY <1>9, <2>1
  <2>4. RequestFits(c)' /\ OneWriter' /\ NothingForgotten' /\ WholeOrLeaving'
    BY <1>8, <1>9, <2>2
  <2>5. k \in Request
    BY <1>9 DEF Step1
  <2>6. disturbed \subseteq disturbed' /\ failed \subseteq failed' /\ UNCHANGED <<batches, brought, names, soldOn>> /\ RequestFits(c)'
    BY <1>1, <1>9, <2>4
  <2>7. ImportTypes' /\ Unborn' /\ (\A e \in DOMAIN batches : BatchFits(e))' /\ CallersFit' /\ NamesFit'
    BY <1>9, <2>5, <2>6, RequestMoves
  <2> QED BY <2>4, <2>7 DEF ImportsFit
<1>10. ASSUME callers' = [callers EXCEPT ![c] = kept], brought[b][r] = "none", ~(Import!KindOf(b) = "names" /\ Import!Known(b, r)),
              brought' = [brought EXCEPT ![b][r] = "in"], names' = IF Import!KindOf(b) = "names" THEN names \cup {r} ELSE names
       PROVE  ImportsFit'
  <2>0. Step1(kept) /\ p \in kept.done
    BY <1>6 DEF Step1
  <2>1. PICK k \in Request : k = kept
    BY <1>6
  <2>2. PICK m \in {"in", "out"} : m = "in"
    OBVIOUS
  <2>3. /\ callers' = [callers EXCEPT ![c] = k] /\ brought' = [brought EXCEPT ![b][r] = m]
        /\ UNCHANGED <<batches, soldOn>> /\ disturbed \subseteq disturbed' /\ failed \subseteq failed'
    BY <1>1, <1>10, <2>1, <2>2
  <2>4. \E i \in FileRows(b) : Import!RowAt(b, i) = r
    BY <1>4
  <2>5. m = "in" => brought[b][r] = "none"
    BY <1>10
  <2>6. m = "out" => /\ brought[b][r] # "none" /\ (batches[b].state \notin Import!Open \/ b \in failed')
                     /\ Import!KindOf(b) = "stock" => Import!TakingOut(b) \subseteq disturbed'
    BY <2>2
  <2>7. /\ ImportTypes' /\ Unborn' /\ (\A e \in DOMAIN batches : BatchFits(e))'
        /\ callers'[c] = k /\ \A d \in Callers \ {c} : callers'[d] = callers[d] /\ RequestFits(d)'
        /\ \A e \in DOMAIN batches : \A q \in Import!AllRows : brought'[e][q] = IF e = b /\ q = r THEN m ELSE brought[e][q]
        /\ \A e \in DOMAIN batches : Import!KindOf(e)' = Import!KindOf(e)
        /\ \A e \in DOMAIN batches, q \in Import!AllRows : Import!Known(e, q) \/ q = r => Import!Known(e, q)'
    <3>1. MarksOne(c, k, b, r, m)
      BY <1>3, <1>4, <2>1, <2>2, <2>3, <2>4, <2>5, <2>6 DEF MarksOne
    <3> QED BY <3>1, MarkMoves
  <2>8. /\ p \in kept.done => brought'[b][r] # "none"
        /\ \A e \in DOMAIN batches : \A q \in Import!AllRows : brought[e][q] # "none" => brought'[e][q] = brought[e][q]
        /\ \A e \in DOMAIN batches, q \in Import!AllRows : Import!Known(e, q) => Import!Known(e, q)'
        /\ Import!KindOf(b) = "names" => Import!Known(b, r)'
        /\ \A e \in DOMAIN batches, q \in Import!AllRows : brought'[e][q] = "in" => brought[e][q] = "in" \/ (e = b /\ q = r /\ p \in kept.done)
    BY <1>10, <2>0, <2>2, <2>7
  <2>9. RequestFits(c)' /\ OneWriter' /\ NothingForgotten' /\ WholeOrLeaving'
    BY <1>8, <1>10, <2>0, <2>8
  <2>10. CallersFit'
    <3>1. \A d \in Callers : RequestFits(d)'
      BY <2>7, <2>9
    <3> QED BY <3>1 DEF CallersFit, RequestFits
  <2>11. NamesFit'
    <3>1. CASE Import!KindOf(b) = "names"
      <4>1. r \notin Already /\ \A e \in DOMAIN batches : brought[e][r] = "none"
        BY <1>0, <1>10, <3>1, BatchesAre DEF Import!Known, Import!MadeOf
      <4> QED BY <1>0, <1>1, <1>10, <2>2, <2>7, <3>1, <4>1 DEF NamesFit
    <3>2. CASE Import!KindOf(b) # "names"
      BY <1>0, <1>1, <1>10, <2>2, <2>7, <3>2 DEF NamesFit
    <3> QED BY <3>1, <3>2
  <2> QED BY <2>7, <2>9, <2>10, <2>11 DEF ImportsFit
\* The three ways of writing a row.
<1>11. CASE callers' = [callers EXCEPT ![c] = kept] /\ brought[b][r] # "none" /\ UNCHANGED <<brought, names>>
  <2>1. Step1(kept) /\ (p \in kept.done => brought[b][r] # "none")
    BY <1>6, <1>11 DEF Step1
  <2>2. Import!KindOf(b) = "names" => Import!Known(b, r)
    BY <1>0, <1>11, BatchesAre DEF Import!Known, Import!MadeOf
  <2> QED BY <1>9, <1>11, <2>1, <2>2
<1>12. CASE callers' = [callers EXCEPT ![c] = on] /\ Import!KindOf(b) = "names" /\ Import!Known(b, r) /\ UNCHANGED <<brought, names>>
  <2>1. p \in on.done => brought[b][r] # "none"
    BY <1>2, <1>3, <1>4, <1>6 DEF Placed, Mark
  <2>2. Step1(on)
    BY <1>6, <1>12 DEF Step1
  <2> QED BY <1>9, <1>12, <2>1, <2>2
<1> QED BY <1>7, <1>10, <1>11, <1>12


LEMMA FailedAtAddress == ASSUME ImportsFit, NEW c \in Callers, Import!FailAtAddress(c) PROVE ImportsFit'
<1>0. ImportTypes /\ (\A e \in DOMAIN batches : BatchFits(e)) /\ CallersFit /\ NamesFit /\ OneWriter /\ NothingForgotten /\ WholeOrLeaving
  BY DEF ImportsFit
<1>1. /\ callers[c].at = "write" /\ callers[c].rows # {} /\ failed' = failed \cup {callers[c].batch}
      /\ Import!KindOf(callers[c].batch) = "names" /\ ~Import!Known(callers[c].batch, Import!Row(c))
      /\ names' = names \cup {Import!Row(c)} /\ disturbed' = disturbed \cup {callers[c].batch} /\ UNCHANGED <<batches, soldOn>>
  BY DEF Import!FailAtAddress, Import!Unwinds
<1>2. RequestFits(c) /\ Placed(c) /\ callers[c] \in Request
  BY <1>0, <1>1, IdleIs, FitEach DEF RequestFits, ImportTypes
<1>3. PICK b \in DOMAIN batches : b = callers[c].batch
  BY <1>2 DEF Placed
<1>4. PICK p \in FileRows(b), r \in Import!AllRows : p = Import!Place(c) /\ r = Import!Row(c) /\ r = Import!RowAt(b, p) /\ p \in callers[c].rows
  BY <1>0, <1>1, <1>2, <1>3, NextPlace
<1> DEFINE on == [callers[c] EXCEPT !.at = "unwind", !.rows = callers[c].done]
<1>5. on \in Request /\ on.at = "unwind" /\ on.batch = b /\ on.rows = callers[c].done /\ on.done = callers[c].done /\ on.version = callers[c].version
  BY <1>2, <1>3 DEF Request
<1>6. callers' = [callers EXCEPT ![c] = on] /\ brought' = [brought EXCEPT ![b][r] = "in"]
  BY <1>3, <1>4 DEF Import!FailAtAddress, Import!Unwinds, Import!Brings
<1> HIDE DEF on
<1>7. r \notin Already /\ \A e \in DOMAIN batches : brought[e][r] = "none"
  BY <1>0, <1>1, <1>3, <1>4, BatchesAre DEF Import!Known, Import!MadeOf
<1>8. MarksOne(c, on, b, r, "in")
  BY <1>1, <1>3, <1>4, <1>5, <1>6, <1>7 DEF MarksOne
<1>9. /\ ImportTypes' /\ Unborn' /\ (\A e \in DOMAIN batches : BatchFits(e))'
      /\ callers'[c] = on /\ \A d \in Callers \ {c} : callers'[d] = callers[d] /\ RequestFits(d)'
      /\ \A e \in DOMAIN batches : \A q \in Import!AllRows : brought'[e][q] = IF e = b /\ q = r THEN "in" ELSE brought[e][q]
      /\ \A e \in DOMAIN batches : /\ Import!KindOf(e)' = Import!KindOf(e) /\ FileRows(e)' = FileRows(e)
                                   /\ \A i : Import!RowAt(e, i)' = Import!RowAt(e, i)
      /\ \A e \in DOMAIN batches, q \in Import!AllRows : Import!Known(e, q) \/ q = r => Import!Known(e, q)'
  BY <1>8, MarkMoves
<1>10. \A e \in DOMAIN batches : \A i \in FileRows(e) : Import!RowAt(e, i) \in Import!AllRows
  BY <1>0, BatchesAre
<1>11. \A e \in DOMAIN batches : \A i \in FileRows(e) : /\ Mark(e, i) # "none" => Mark(e, i)' # "none"
                                                        /\ e # b => Mark(e, i)' = Mark(e, i)
  BY <1>9, <1>10 DEF Mark
<1>12. CallersFit'
  <2>1. Placed(c)'
    BY <1>1, <1>2, <1>3, <1>5, <1>9, <1>11 DEF Placed
  <2>2. Unwinding(c)'
    BY <1>1, <1>3, <1>5, <1>9 DEF Unwinding
  <2>3. \A d \in Callers : RequestFits(d)'
    BY <1>5, <1>9, <2>1, <2>2 DEF RequestFits
  <2> QED BY <2>3 DEF CallersFit, RequestFits
<1>13. NamesFit'
  BY <1>0, <1>1, <1>3, <1>4, <1>7, <1>9 DEF NamesFit
<1>14. \A d \in Callers : \A e : Writer(d, e)' <=> Writer(d, e) /\ d # c
  BY <1>5, <1>9 DEF Writer
<1>15. OneWriter'
  BY <1>0, <1>1, <1>9, <1>14 DEF OneWriter
<1>16. NothingForgotten'
  <2> SUFFICES ASSUME NEW e \in DOMAIN batches, Import!KindOf(e) = "names", e \notin disturbed', NEW q \in Import!AllRows, brought'[e][q] = "in"
               PROVE  Accounted(e, q)'
    BY <1>1, <1>9 DEF NothingForgotten
  <2>1. e # b /\ e \notin disturbed
    BY <1>1, <1>3
  <2>2. Accounted(e, q)
    BY <1>0, <1>9, <2>1 DEF NothingForgotten
  <2>3. \A d \in Callers : Writer(d, e) \/ (callers[d].at = "unwind" /\ callers[d].batch = e) => callers'[d] = callers[d] /\ d # c
    BY <1>3, <1>9, <2>1 DEF Writer
  <2>4. \A i \in FileRows(e) : Import!Known(e, Import!RowAt(e, i)) => Import!Known(e, Import!RowAt(e, i))'
    <3> SUFFICES ASSUME NEW i \in FileRows(e), Import!Known(e, Import!RowAt(e, i)) PROVE Import!Known(e, Import!RowAt(e, i))'
      OBVIOUS
    <3>1. PICK s \in Import!AllRows : s = Import!RowAt(e, i)
      BY <1>10
    <3>2. Import!Known(e, s)'
      BY <1>9, <3>1
    <3> QED BY <1>9, <3>1, <3>2 DEF Import!Known, Import!MadeOf
  <2> QED BY <1>1, <1>9, <1>14, <2>2, <2>3, <2>4 DEF Accounted
<1>17. WholeOrLeaving'
  <2> SUFFICES ASSUME NEW e \in DOMAIN batches, batches[e].state = "COMMITTED", e \notin failed' \cup disturbed'
               PROVE  \/ \A i \in batches[e].written : Mark(e, i)' = "in"
                      \/ \E d \in Callers : callers'[d].at = "back" /\ callers'[d].batch = e /\ callers'[d].version = batches[e].version
    BY <1>1, <1>9 DEF WholeOrLeaving
  <2>1. e # b /\ e \notin failed \cup disturbed /\ batches[e].written \subseteq FileRows(e)
    BY <1>0, <1>1, <1>3 DEF BatchFits
  <2>2. \/ \A i \in batches[e].written : Mark(e, i) = "in"
        \/ \E d \in Callers : callers[d].at = "back" /\ callers[d].batch = e /\ callers[d].version = batches[e].version
    BY <1>0, <2>1 DEF WholeOrLeaving
  <2> QED BY <1>1, <1>9, <1>11, <2>1, <2>2
<1> QED BY <1>9, <1>12, <1>13, <1>15, <1>16, <1>17 DEF ImportsFit

LEMMA TookOut == ASSUME ImportsFit, NEW c \in Callers, Import!TakeOut(c) PROVE ImportsFit'
<1>0. ImportTypes /\ (\A e \in DOMAIN batches : BatchFits(e)) /\ CallersFit /\ NamesFit /\ OneWriter /\ NothingForgotten /\ WholeOrLeaving
  BY DEF ImportsFit
<1>1. /\ callers[c].at \in {"unwind", "back"} /\ callers[c].rows # {} /\ UNCHANGED <<batches, soldOn, failed, fails>>
  BY DEF Import!TakeOut
<1>2. RequestFits(c) /\ Placed(c) /\ callers[c] \in Request
  BY <1>0, <1>1, IdleIs, FitEach DEF RequestFits, ImportTypes
<1>3. PICK b \in DOMAIN batches : b = callers[c].batch
  BY <1>2 DEF Placed
<1>4. PICK p \in FileRows(b), r \in Import!AllRows : p = Import!Place(c) /\ r = Import!Row(c) /\ r = Import!RowAt(b, p) /\ p \in callers[c].rows
  BY <1>0, <1>1, <1>2, <1>3, NextPlace
<1>5. /\ callers[c].at = "unwind" => Unwinding(c) /\ b \in failed
      /\ callers[c].at = "back" => GoingBack(c)
      /\ callers[c].rows \subseteq callers[c].done
  BY <1>1, <1>2, <1>3, IdleIs DEF RequestFits, Unwinding, GoingBack
<1>6. CASE ~Import!MayLeave(b, r)
  <2>1. /\ callers' = [callers EXCEPT ![c] = Import!Idle] /\ UNCHANGED <<brought, names>>
        /\ disturbed' = IF callers[c].at = "unwind" THEN disturbed \cup {b} ELSE disturbed
    BY <1>3, <1>4, <1>6 DEF Import!TakeOut, Import!Rests
  <2>2. Import!KindOf(b) = "stock" /\ brought[b][r] = "in" /\ ~(Import!Physical(r) >= 1)
    BY <1>6 DEF Import!MayLeave
  <2>3. callers'[c] = Import!Idle
    BY <1>0, <2>1 DEF ImportTypes
  <2>4. disturbed \subseteq disturbed' /\ failed \subseteq failed' /\ RequestFits(c)'
    BY <1>1, <2>1, <2>3 DEF RequestFits
  <2>5. /\ ImportTypes' /\ Unborn' /\ (\A e \in DOMAIN batches : BatchFits(e))' /\ CallersFit' /\ NamesFit'
        /\ \A d \in Callers \ {c} : callers'[d] = callers[d]
    BY <1>1, <2>1, <2>4, IdleIs, RequestMoves
  <2>6. \A d \in Callers : \A e : Writer(d, e)' <=> Writer(d, e)
    BY <1>1, <2>3, <2>5, IdleIs DEF Writer
  <2>7. OneWriter'
    BY <1>0, <1>1, <2>4, <2>6 DEF OneWriter, Import!KindOf
  <2>8. NothingForgotten'
    <3> SUFFICES ASSUME NEW e \in DOMAIN batches, Import!KindOf(e) = "names", e \notin disturbed, NEW q \in Import!AllRows, brought[e][q] = "in"
                 PROVE  Accounted(e, q)'
      BY <1>1, <2>1, <2>4 DEF NothingForgotten, Import!KindOf
    <3>1. Accounted(e, q) /\ e # b
      BY <1>0, <2>2 DEF NothingForgotten
    <3>2. \A d \in Callers : Writer(d, e) \/ (callers[d].at = "unwind" /\ callers[d].batch = e) => callers'[d] = callers[d]
      BY <1>3, <2>5, <3>1 DEF Writer
    <3>3. FileRows(e)' = FileRows(e) /\ \A i : Import!RowAt(e, i)' = Import!RowAt(e, i)
      BY <1>1 DEF FileRows, Import!RowAt
    <3>4. \A i : Import!Known(e, Import!RowAt(e, i))' = Import!Known(e, Import!RowAt(e, i))
      BY <1>1, <2>1 DEF Import!Known, Import!MadeOf, Import!RowAt
    <3> QED BY <1>1, <2>6, <3>1, <3>2, <3>3, <3>4 DEF Accounted
  <2>9. callers[c].at = "back" => b \in disturbed
    <3>1. Mark(b, p) = "in"
      BY <1>4, <2>2 DEF Mark
    <3>2. callers[c].at = "back" /\ b \notin disturbed => Import!Physical(Import!RowAt(b, p)) >= 1
      BY <1>3, <1>4, <1>5, <2>2, <3>1 DEF GoingBack
    <3> QED BY <1>4, <2>2, <3>2
  <2>10. WholeOrLeaving'
    <3> SUFFICES ASSUME NEW e \in DOMAIN batches, batches[e].state = "COMMITTED", e \notin failed \cup disturbed'
                 PROVE  \/ \A i \in batches[e].written : Mark(e, i) = "in"
                        \/ \E d \in Callers : callers'[d].at = "back" /\ callers'[d].batch = e /\ callers'[d].version = batches[e].version
      BY <1>1, <2>1 DEF WholeOrLeaving, Mark, Import!RowAt
    <3>1. e # b
      BY <1>1, <1>5, <2>4, <2>9
    <3>2. \/ \A i \in batches[e].written : Mark(e, i) = "in"
          \/ \E d \in Callers : callers[d].at = "back" /\ callers[d].batch = e /\ callers[d].version = batches[e].version
      BY <1>0, <2>4 DEF WholeOrLeaving
    <3> QED BY <1>3, <2>5, <3>1, <3>2
  <2> QED BY <2>5, <2>7, <2>8, <2>10 DEF ImportsFit
<1>7. CASE Import!MayLeave(b, r)
  <2> DEFINE on == [callers[c] EXCEPT !.rows = callers[c].rows \ {p}]
  <2>1. /\ callers' = [callers EXCEPT ![c] = on] /\ brought' = [brought EXCEPT ![b][r] = "out"]
        /\ names' = IF Import!KindOf(b) = "names" THEN names \ {r} ELSE names
        /\ disturbed' = IF Import!KindOf(b) = "stock" THEN disturbed \cup Import!TakingOut(b) ELSE disturbed
    BY <1>3, <1>4, <1>7 DEF Import!TakeOut, Import!Passes, Import!Onwards, Import!SwitchedOff
  <2>2. /\ on \in Request /\ on.at = callers[c].at /\ on.batch = b /\ on.rows = callers[c].rows \ {p} /\ on.done = callers[c].done
        /\ on.version = callers[c].version
    BY <1>2, <1>3 DEF Request
  <2> HIDE DEF on
  <2>3. brought[b][r] # "none"
    BY <1>2, <1>3, <1>4, <1>5 DEF Placed, Mark
  <2>4. batches[b].state \notin Import!Open \/ b \in failed'
    BY <1>1, <1>3, <1>5 DEF GoingBack, Ended, Import!Open
  <2>5. MarksOne(c, on, b, r, "out")
    BY <1>1, <1>3, <1>4, <2>1, <2>2, <2>3, <2>4 DEF MarksOne
  <2>6. /\ ImportTypes' /\ Unborn' /\ (\A e \in DOMAIN batches : BatchFits(e))'
        /\ callers'[c] = on /\ \A d \in Callers \ {c} : callers'[d] = callers[d] /\ RequestFits(d)'
        /\ \A e \in DOMAIN batches : \A q \in Import!AllRows : brought'[e][q] = IF e = b /\ q = r THEN "out" ELSE brought[e][q]
        /\ \A e \in DOMAIN batches : /\ Import!KindOf(e)' = Import!KindOf(e) /\ FileRows(e)' = FileRows(e)
                                     /\ \A i : Import!RowAt(e, i)' = Import!RowAt(e, i)
        /\ \A e \in DOMAIN batches, q \in Import!AllRows : Import!Known(e, q) \/ q = r => Import!Known(e, q)'
        /\ \A q \in Import!AllRows : q # r => Import!Physical(q)' = Import!Physical(q)
    BY <2>5, MarkMoves
  <2>7. \A e \in DOMAIN batches : \A i \in FileRows(e) : Import!RowAt(e, i) \in Import!AllRows
    BY <1>0, BatchesAre
  <2>8. \A e \in DOMAIN batches : \A i \in FileRows(e) : Mark(e, i)' = IF e = b /\ Import!RowAt(e, i) = r THEN "out" ELSE Mark(e, i)
    BY <2>6, <2>7 DEF Mark
  <2>9. CallersFit'
    <3>1. Placed(c)'
      BY <1>1, <1>2, <1>3, <2>2, <2>6, <2>8 DEF Placed
    <3>2. callers[c].at = "unwind" => Unwinding(c)'
      BY <1>1, <1>3, <1>5, <2>2, <2>6 DEF Unwinding
    <3>3. ASSUME callers[c].at = "back" PROVE GoingBack(c)'
      <4>1. callers[c].done \subseteq FileRows(b) /\ callers[c].rows \subseteq FileRows(b)
        BY <1>2, <1>3 DEF Placed
      <4>2. \A i \in callers[c].done \ (callers[c].rows \ {p}) : Mark(b, i)' = "out"
        BY <1>3, <1>4, <1>5, <2>8, <3>3, <4>1 DEF GoingBack
      <4>3. ASSUME Import!KindOf(b) = "stock", b \notin disturbed', NEW i \in callers[c].rows \ {p}, Mark(b, i)' = "in"
            PROVE  Import!Physical(Import!RowAt(b, i))' >= 1
        <5>1. PICK q \in Import!AllRows : q = Import!RowAt(b, i)
          BY <2>7, <4>1, <4>3
        <5>2. q # r /\ Mark(b, i) = "in" /\ b \notin disturbed
          BY <2>1, <2>8, <4>1, <4>3, <5>1
        <5>3. Import!Physical(q) >= 1
          BY <1>3, <1>5, <3>3, <4>3, <5>1, <5>2 DEF GoingBack
        <5>4. Import!Physical(q)' >= 1
          BY <2>6, <5>2, <5>3
        <5> QED BY <2>6, <5>1, <5>4 DEF Import!Physical, Import!Holding
      <4>4. callers'[c].batch = b /\ callers'[c].rows = callers[c].rows \ {p} /\ callers'[c].done = callers[c].done /\ callers'[c].version = callers[c].version
        BY <2>2, <2>6
      <4> QED BY <1>1, <1>3, <1>5, <2>6, <3>3, <4>2, <4>3, <4>4 DEF GoingBack
    <3>4. \A d \in Callers : RequestFits(d)'
      BY <1>1, <2>2, <2>6, <3>1, <3>2, <3>3 DEF RequestFits
    <3> QED BY <3>4 DEF CallersFit, RequestFits
  <2>10. NamesFit'
    <3>1. CASE Import!KindOf(b) = "names"
      <4>1. r \notin Already /\ \A e \in DOMAIN batches : Import!KindOf(e) = "names" /\ e # b => brought[e][r] = "none"
        BY <1>0, <2>3, <3>1 DEF NamesFit
      <4> QED BY <1>0, <1>1, <2>1, <2>3, <2>6, <3>1, <4>1 DEF NamesFit
    <3>2. CASE Import!KindOf(b) # "names"
      BY <1>0, <1>1, <2>1, <2>6, <3>2 DEF NamesFit
    <3> QED BY <3>1, <3>2
  <2>11. \A d \in Callers : \A e : Writer(d, e)' <=> Writer(d, e)
    BY <1>1, <2>2, <2>6 DEF Writer
  <2>12. disturbed \subseteq disturbed'
    BY <2>1
  <2>13. OneWriter'
    BY <1>0, <1>1, <2>6, <2>11, <2>12 DEF OneWriter
  <2>14. NothingForgotten'
    <3> SUFFICES ASSUME NEW e \in DOMAIN batches, Import!KindOf(e) = "names", e \notin disturbed', NEW q \in Import!AllRows, brought'[e][q] = "in"
                 PROVE  Accounted(e, q)'
      BY <1>1, <2>6 DEF NothingForgotten
    <3>1. Accounted(e, q) /\ ~(e = b /\ q = r)
      BY <1>0, <2>6, <2>12 DEF NothingForgotten
    <3>2. \A i \in FileRows(e) : Import!Known(e, Import!RowAt(e, i)) => Import!Known(e, Import!RowAt(e, i))'
      <4> SUFFICES ASSUME NEW i \in FileRows(e), Import!Known(e, Import!RowAt(e, i)) PROVE Import!Known(e, Import!RowAt(e, i))'
        OBVIOUS
      <4>1. PICK s \in Import!AllRows : s = Import!RowAt(e, i)
        BY <2>7
      <4>2. Import!Known(e, s)'
        BY <2>6, <4>1
      <4> QED BY <2>6, <4>1, <4>2 DEF Import!Known, Import!MadeOf
    <3>3. CASE \E d \in Callers : Writer(d, e) /\ \E i \in callers[d].done : Import!RowAt(e, i) = q
      <4>1. \A d \in Callers : Writer(d, e) => callers'[d] = callers[d]
        BY <1>1, <2>6 DEF Writer
      <4> QED BY <2>6, <2>11, <3>3, <4>1 DEF Accounted
    <3>4. CASE \E d \in Callers : callers[d].at = "unwind" /\ callers[d].batch = e /\ \E i \in callers[d].rows : Import!RowAt(e, i) = q
      <4>1. PICK d \in Callers : callers[d].at = "unwind" /\ callers[d].batch = e /\ \E i \in callers[d].rows : Import!RowAt(e, i) = q
        BY <3>4
      <4>2. callers'[d].at = "unwind" /\ callers'[d].batch = e /\ \E i \in callers'[d].rows : Import!RowAt(e, i) = q
        <5>1. CASE d # c
          BY <2>6, <4>1, <5>1
        <5>2. CASE d = c
          <6>1. e = b /\ q # Import!RowAt(b, p)
            BY <1>3, <1>4, <3>1, <4>1, <5>2
          <6> QED BY <2>2, <2>6, <4>1, <5>2, <6>1
        <5> QED BY <5>1, <5>2
      <4> QED BY <2>6, <4>2 DEF Accounted
    <3> QED BY <1>1, <2>6, <2>11, <3>1, <3>2, <3>3, <3>4 DEF Accounted
  <2>15. WholeOrLeaving'
    <3> SUFFICES ASSUME NEW e \in DOMAIN batches, batches[e].state = "COMMITTED", e \notin failed \cup disturbed'
                 PROVE  \/ \A i \in batches[e].written : Mark(e, i)' = "in"
                        \/ \E d \in Callers : callers'[d].at = "back" /\ callers'[d].batch = e /\ callers'[d].version = batches[e].version
      BY <1>1, <2>6 DEF WholeOrLeaving
    <3>1. \/ \A i \in batches[e].written : Mark(e, i) = "in"
          \/ \E d \in Callers : callers[d].at = "back" /\ callers[d].batch = e /\ callers[d].version = batches[e].version
      BY <1>0, <2>12 DEF WholeOrLeaving
    <3>2. batches[e].written \subseteq FileRows(e)
      BY <1>0 DEF BatchFits
    <3>3. CASE e # b
      BY <1>3, <2>6, <2>8, <3>1, <3>2, <3>3
    <3>4. CASE e = b
      <4>1. callers[c].at = "back" /\ callers[c].version = batches[b].version
        BY <1>1, <1>3, <1>5, <3>4 DEF GoingBack
      <4> QED BY <2>2, <2>6, <3>4, <4>1
    <3> QED BY <3>3, <3>4
  <2> QED BY <2>6, <2>9, <2>10, <2>13, <2>14, <2>15 DEF ImportsFit
<1> QED BY <1>6, <1>7

LEMMA Untouched == ASSUME ImportsFit, UNCHANGED imports PROVE ImportsFit'
<1> USE DEF imports
<1>0. ImportTypes /\ Unborn /\ (\A e \in DOMAIN batches : BatchFits(e)) /\ CallersFit /\ NamesFit /\ OneWriter /\ NothingForgotten /\ WholeOrLeaving
  BY DEF ImportsFit
<1>1. ImportTypes' /\ Unborn' /\ NamesFit' /\ OneWriter' /\ WholeOrLeaving'
  BY <1>0 DEF ImportTypes, Unborn, NamesFit, OneWriter, WholeOrLeaving, Import!KindOf, Writer, Mark, Import!RowAt
<1>2. \A e \in DOMAIN batches' : BatchFits(e)'
  BY <1>0, BatchStays
<1>3. NothingForgotten'
  <2> SUFFICES ASSUME NEW e \in DOMAIN batches, Import!KindOf(e) = "names", e \notin disturbed, NEW q \in Import!AllRows, brought[e][q] = "in"
               PROVE  Accounted(e, q)'
    BY DEF NothingForgotten, Import!KindOf
  <2>1. Accounted(e, q)
    BY <1>0 DEF NothingForgotten
  <2> QED BY <2>1 DEF Accounted, Writer, FileRows, Import!RowAt, Import!Known, Import!MadeOf
<1>4. ASSUME NEW d \in Callers PROVE RequestFits(d)'
  <2>0. RequestFits(d)
    BY <1>0, FitEach
  <2>1. Placed(d) => Placed(d)'
    BY DEF Placed, FileRows, Mark, Import!RowAt
  <2>2. Writing(d) => Writing(d)'
    BY DEF Writing, FileRows, Import!RowAt, Import!KindOf, Import!Known, Import!MadeOf
  <2>3. Unwinding(d) => Unwinding(d)'
    BY DEF Unwinding
  <2>4. GoingBack(d) => GoingBack(d)'
    BY DEF GoingBack, Mark, Import!RowAt, Import!KindOf, Import!Physical, Import!Holding
  <2> QED BY <2>0, <2>1, <2>2, <2>3, <2>4 DEF RequestFits
<1>5. CallersFit'
  BY <1>4 DEF CallersFit, RequestFits
<1> QED BY <1>1, <1>2, <1>3, <1>5 DEF ImportsFit

LEMMA ImportStep == ImportsFit /\ (Import!Next \/ UNCHANGED imports) => ImportsFit'
  BY Analysed, Approved, Started, Wrote, Failed, FailedAtAddress, Finished, TookOut, SoldOn, Untouched DEF Import!Next

-----------------------------------------------------------------------------
(* The movements and what is imported, together                            *)

Everything == <<vars, chase, assistant, rollbacks, purchases, imports, case>>

LEMMA ImportsStay == ImportsFit /\ [MCNext]_Everything => ImportsFit'
<1>1. [MCNext]_Everything => Import!Next \/ UNCHANGED imports
  BY DEF MCNext, Everything
<1> QED BY <1>1, ImportStep

LEMMA MovesStay == IInv /\ [MCNext]_Everything => IInv'
<1>1. [MCNext]_Everything => [Next]_vars
  BY DEF MCNext, Everything
<1> QED BY <1>1, Inductively

\* The entries in the books add up to what the stock report works out, and movements
\* pair with what they answer (balances.ts:113-139, service.ts:516-608).  And for any
\* files of another program, requests at once, changes of a batch and failures: what
\* the business had is never switched off, an import that is taken out leaves nothing
\* behind unless a failed commit left it, and one that is committed stands whole until
\* it leaves whole (migration/src/service.ts:393, 488, duplicates.ts:12).
THEOREM StockAlwaysAddsUp == MCSpec => []StockAddsUp
<1>1. MCInit => IInv /\ ImportsFit
  BY Initially, ImportFirst DEF MCInit
<1>2. IInv /\ ImportsFit /\ [MCNext]_Everything => IInv' /\ ImportsFit'
  BY ImportsStay, MovesStay
<1>3. IInv /\ ImportsFit => StockAddsUp
  <2>1. \A t \in Transfers : Alone(t)
    BY TransfersAssumption DEF Alone
  <2>2. IInv => BooksMatchReport /\ MovementsPair
    BY <2>1, IsPaired DEF IInv
  <2> QED BY <2>2, ImportsKeepTheirWord DEF StockAddsUp
<1> QED BY <1>1, <1>2, <1>3, PTL DEF MCSpec, Everything

-----------------------------------------------------------------------------
(* The assistant                                                           *)

PlanRecords == [intent : {"CHASE_UNPAID", "CANCEL_INVOICE"}, state : Agent!States, steps : SUBSET Agent!Steps]

\* A plan has at most one report, made when its command came to its end.
Reported(p) == \E k \in RunKeys : report[<<p, k>>] # None
InReport(p, s) ==
    \E k \in RunKeys :
        report[<<p, k>>] # None /\ s \in DOMAIN report[<<p, k>>] /\ report[<<p, k>>][s] # "PREPARED"

\* What was run was agreed to, and is agreed to only once: until then nothing
\* was run; and as long as the approval stands, the list is the one agreed to.
PlanFits(p) ==
    /\ plan[p] \in PlanRecords \cup {None} /\ command[p] \in Agent!Statuses \cup {None}
    /\ command[p] # None => plan[p] \in PlanRecords
    /\ command[p] # None /\ plan[p].state = "APPROVED" => command[p] = "approved" /\ agreed[p] = plan[p].steps
    /\ ran[p] \subseteq agreed[p]
    /\ command[p] \notin {"approved", "finalised"} => ran[p] = {}
    /\ \A k \in RunKeys : report[<<p, k>>] # None =>
          /\ command[p] = "finalised"
          /\ \A l \in RunKeys : report[<<p, l>>] # None => k = l
    /\ rollbacks = 0 => \A s \in ran[p] : InReport(p, s)
    /\ p \in prepared => Reported(p)

AssistantTypes ==
    /\ due \in [Documents -> 0..MaxOwed] /\ rollbacks \in Nat
    /\ plan = [p \in Plans |-> plan[p]] /\ command = [p \in Plans |-> command[p]]
    /\ ran = [p \in Plans |-> ran[p]] /\ agreed = [p \in Plans |-> agreed[p]]
    /\ report = [pk \in Plans \X RunKeys |-> report[pk]]

AssistantFits ==
    IF case = "assistant" THEN AssistantTypes /\ \A p \in Plans : PlanFits(p)
    ELSE prepared = {} /\ \A p \in Plans : ran[p] = {} /\ \A k \in RunKeys : report[<<p, k>>] = None

\* A plan of which nothing changes but how often a unit of work has failed.
LEMMA PlanUntouched ==
    ASSUME NEW p \in Plans, PlanFits(p), rollbacks \in Nat, rollbacks' \in Nat,
           plan'[p] = plan[p], command'[p] = command[p], ran'[p] = ran[p], agreed'[p] = agreed[p],
           \A k \in RunKeys : report'[<<p, k>>] = report[<<p, k>>],
           (p \in prepared') = (p \in prepared), rollbacks' = 0 => rollbacks = 0
    PROVE  PlanFits(p)'
BY DEF PlanFits, Reported, InReport

LEMMA StepsAreTyped ==
    ASSUME AssistantTypes, NEW intent
    PROVE  Agent!Expand(intent) \in SUBSET Agent!Steps
<1>1. Agent!Cancellation \in Agent!Steps
  BY DEF Agent!Steps
<1>2. ASSUME NEW c \in Documents, due[c] > 0 PROVE [to |-> c, amount |-> due[c]] \in Agent!Steps
  BY <1>2, AgentAssumption DEF AssistantTypes, Agent!Steps
<1> QED BY <1>1, <1>2 DEF Agent!Expand

LEMMA AskedFor ==
    ASSUME AssistantTypes, \A q \in Plans : PlanFits(q), NEW p \in Plans, NEW intent \in {"CHASE_UNPAID", "CANCEL_INVOICE"},
           Agent!Ask(p, intent)
    PROVE  AssistantTypes' /\ \A q \in Plans : PlanFits(q)'
<1>1. plan' = [plan EXCEPT ![p] = [intent |-> intent, state |-> "PLANNED", steps |-> {}]] /\ plan[p] = None
      /\ UNCHANGED <<due, command, prepared, report, ran, agreed, rollbacks>>
  BY DEF Agent!Ask, Agent!books
<1>2. AssistantTypes'
  BY <1>1 DEF AssistantTypes
<1>3. ASSUME NEW q \in Plans, q # p PROVE PlanFits(q)'
  BY <1>1, <1>3, PlanUntouched DEF AssistantTypes
<1>4. PlanFits(p)'
  <2>1. plan'[p] = [intent |-> intent, state |-> "PLANNED", steps |-> {}]
    BY <1>1 DEF AssistantTypes
  <2>2. plan'[p] \in PlanRecords /\ plan'[p].state # "APPROVED"
    BY <2>1 DEF PlanRecords, Agent!States
  <2> QED BY <1>1, <2>2 DEF PlanFits, Reported, InReport
<1> QED BY <1>2, <1>3, <1>4

LEMMA Previewed ==
    ASSUME AssistantTypes, \A q \in Plans : PlanFits(q), NEW p \in Plans, Agent!Preview(p)
    PROVE  AssistantTypes' /\ \A q \in Plans : PlanFits(q)'
<1>1. plan' = [plan EXCEPT ![p] = [@ EXCEPT !.state = "PREVIEWED", !.steps = Agent!Expand(plan[p].intent)]]
      /\ UNCHANGED <<due, prepared, report, ran, agreed, rollbacks>> /\ plan[p] # None
  BY DEF Agent!Preview, Agent!books
<1>2. PICK now : command' = [command EXCEPT ![p] = now]
                 /\ (now \in {"draft", "submitted"} \/ now = command[p])
                 /\ now # None /\ (command[p] \notin {None, "draft"} => now = command[p])
  <2>1. PICK made : made = (IF command[p] = None THEN "draft" ELSE command[p])
    OBVIOUS
  <2>2. command' = [command EXCEPT ![p] = IF Agent!NeedsApproval(p)' /\ made = "draft" THEN "submitted" ELSE made]
    BY <2>1 DEF Agent!Preview
  <2>3. PICK now : command' = [command EXCEPT ![p] = now] /\ (now = made \/ (made = "draft" /\ now = "submitted"))
    <3>1. PICK b \in BOOLEAN : b = (Agent!NeedsApproval(p)' /\ made = "draft")
      OBVIOUS
    <3>2. PICK now : now = IF b THEN "submitted" ELSE made
      OBVIOUS
    <3>3. command' = [command EXCEPT ![p] = now]
      BY <2>2, <3>1, <3>2
    <3> QED BY <3>1, <3>2, <3>3
  <2>4. None \notin {"draft", "submitted"}
    BY AgentAssumption DEF Agent!Statuses
  <2>5. now = command[p] \/ now = "draft" \/ now = "submitted"
    BY <2>1, <2>3
  <2>6. now # None
    BY <2>1, <2>3, <2>4
  <2>7. command[p] \notin {None, "draft"} => now = command[p]
    BY <2>1, <2>3
  <2> QED BY <2>3, <2>5, <2>6, <2>7
<1>3. AssistantTypes'
  BY <1>1, <1>2 DEF AssistantTypes
<1>4. ASSUME NEW q \in Plans, q # p PROVE PlanFits(q)'
  BY <1>1, <1>2, <1>4, PlanUntouched DEF AssistantTypes
<1>5. PlanFits(p)'
  <2>0. PlanFits(p)
    OBVIOUS
  <2>1. PICK list : list = Agent!Expand(plan[p].intent)
    OBVIOUS
  <2>2. list \in SUBSET Agent!Steps
    BY <2>1, StepsAreTyped
  <2>3. plan[p] \in PlanRecords
    BY <1>1, <2>0 DEF PlanFits
  <2>4. plan'[p] = [plan[p] EXCEPT !.state = "PREVIEWED", !.steps = list]
    BY <1>1, <2>1 DEF AssistantTypes
  <2>5. plan'[p] \in PlanRecords /\ plan'[p].state # "APPROVED"
    BY <2>2, <2>3, <2>4 DEF PlanRecords, Agent!States
  <2>6. command'[p] = now
    BY <1>2 DEF AssistantTypes
  <2>7. now \in Agent!Statuses
    <3>1. command[p] \in Agent!Statuses \cup {None}
      BY <2>0 DEF PlanFits
    <3>2. now \in {"draft", "submitted"} \/ now = command[p]
      BY <1>2
    <3>3. now # None
      BY <1>2
    <3> QED BY <3>1, <3>2, <3>3 DEF Agent!Statuses
  <2>8. (command[p] \in {"approved", "finalised"} <=> now \in {"approved", "finalised"}) /\ (command[p] = "finalised" => now = "finalised")
    <3>1. None \notin {"approved", "finalised"}
      BY AgentAssumption DEF Agent!Statuses
    <3>2. (now \in {"draft", "submitted"} \/ now = command[p]) /\ (command[p] \notin {None, "draft"} => now = command[p])
      BY <1>2
    <3> QED BY <3>1, <3>2
  <2> QED BY <1>1, <2>0, <2>5, <2>6, <2>7, <2>8 DEF PlanFits, Reported, InReport
<1> QED BY <1>3, <1>4, <1>5

LEMMA Agreed ==
    ASSUME AssistantTypes, \A q \in Plans : PlanFits(q), NEW p \in Plans, NEW seen, Agent!Approve(p, seen)
    PROVE  AssistantTypes' /\ \A q \in Plans : PlanFits(q)'
<1>1. plan' = [plan EXCEPT ![p].state = "APPROVED"] /\ command' = [command EXCEPT ![p] = "approved"]
      /\ agreed' = [agreed EXCEPT ![p] = seen] /\ UNCHANGED <<due, prepared, report, ran, rollbacks>>
      /\ plan[p] # None /\ seen = plan[p].steps
  BY DEF Agent!Approve, Agent!books, Agent!SameList
<1>2. AssistantTypes'
  BY <1>1 DEF AssistantTypes
<1>3. ASSUME NEW q \in Plans, q # p PROVE PlanFits(q)'
  BY <1>1, <1>3, PlanUntouched DEF AssistantTypes
<1>4. PlanFits(p)'
  <2>0. PlanFits(p)
    OBVIOUS
  <2>1. command[p] \notin {"approved", "finalised"}
    BY DEF Agent!Approve, Agent!May
  <2>2. plan[p] \in PlanRecords /\ ran[p] = {} /\ \A k \in RunKeys : report[<<p, k>>] = None
    BY <1>1, <2>0, <2>1 DEF PlanFits
  <2>3. plan'[p] = [plan[p] EXCEPT !.state = "APPROVED"] /\ command'[p] = "approved" /\ agreed'[p] = seen
    BY <1>1 DEF AssistantTypes
  <2>4. plan'[p] \in PlanRecords /\ plan'[p].steps = seen
    BY <1>1, <2>2, <2>3 DEF PlanRecords, Agent!States
  <2>5. ~Reported(p)
    BY <2>2 DEF Reported
  <2> QED BY <1>1, <2>0, <2>2, <2>3, <2>4, <2>5 DEF PlanFits, Reported, InReport, Agent!Statuses
<1> QED BY <1>2, <1>3, <1>4

LEMMA Refused ==
    ASSUME AssistantTypes, \A q \in Plans : PlanFits(q), NEW p \in Plans, Agent!Reject(p)
    PROVE  AssistantTypes' /\ \A q \in Plans : PlanFits(q)'
<1>1. plan' = [plan EXCEPT ![p].state = "REJECTED"] /\ command' = [command EXCEPT ![p] = "rejected"]
      /\ UNCHANGED <<due, prepared, report, ran, agreed, rollbacks>> /\ command[p] # None
  BY DEF Agent!Reject, Agent!books
<1>2. AssistantTypes'
  BY <1>1 DEF AssistantTypes
<1>3. ASSUME NEW q \in Plans, q # p PROVE PlanFits(q)'
  BY <1>1, <1>3, PlanUntouched DEF AssistantTypes
<1>4. PlanFits(p)'
  <2>0. PlanFits(p)
    OBVIOUS
  <2>1. command[p] \notin {"approved", "finalised"}
    BY DEF Agent!Reject, Agent!May
  <2>2. plan[p] \in PlanRecords /\ ran[p] = {} /\ \A k \in RunKeys : report[<<p, k>>] = None
    BY <1>1, <2>0, <2>1 DEF PlanFits
  <2>3. plan'[p] = [plan[p] EXCEPT !.state = "REJECTED"] /\ command'[p] = "rejected"
    BY <1>1 DEF AssistantTypes
  <2>4. plan'[p] \in PlanRecords /\ plan'[p].state # "APPROVED"
    BY <2>2, <2>3 DEF PlanRecords, Agent!States
  <2> QED BY <1>1, <2>0, <2>2, <2>3, <2>4 DEF PlanFits, Reported, InReport, Agent!Statuses
<1> QED BY <1>2, <1>3, <1>4

\* What has an effect is what is on the list, which is still what would be done
\* now, and so what was agreed to.
LEMMA EffectsAgreed ==
    ASSUME AssistantTypes, NEW p \in Plans, PlanFits(p), NEW seen, Agent!MayRun(p, seen), command[p] # None,
           NEW s \in plan[p].steps, s # Agent!Cancellation
    PROVE  /\ [s EXCEPT !.amount = due[s.to]] = s
           /\ command[p] = "approved" /\ s \in agreed[p]
<1>1. plan[p] \in PlanRecords /\ (plan[p].state = "APPROVED" => command[p] = "approved" /\ agreed[p] = plan[p].steps)
  BY DEF PlanFits
<1>3. Agent!Expand(plan[p].intent) = plan[p].steps /\ plan[p].state = "APPROVED"
  BY DEF Agent!MayRun, Agent!NeedsApproval
<1>4. PICK c \in Documents : s = [to |-> c, amount |-> due[c]]
  BY <1>3 DEF Agent!Expand
<1> QED BY <1>1, <1>3, <1>4

Settles(p, k, outcome, effects) ==
    /\ Agent!Finishes(p)
    /\ due' = [c \in Documents |-> IF \E s \in effects : s.to = c THEN 0 ELSE due[c]]
    /\ plan' = [plan EXCEPT ![p].state = "EXECUTED"]
    /\ command' = [command EXCEPT ![p] = "finalised"]
    /\ prepared' = IF Agent!Cancellation \in plan[p].steps THEN prepared \cup {p} ELSE prepared
    /\ report' = [report EXCEPT ![<<p, k>>] = outcome]
    /\ UNCHANGED rollbacks
Undone ==
    /\ rollbacks < MaxRollbacks /\ rollbacks' = rollbacks + 1
    /\ UNCHANGED <<due, plan, command, prepared, report>>
Runs(p, k, outcome, effects) ==
    /\ ran' = [ran EXCEPT ![p] = @ \cup {[s EXCEPT !.amount = due[s.to]] : s \in effects}]
    /\ Settles(p, k, outcome, effects) \/ Undone

LEMMA Executed ==
    ASSUME AssistantTypes, \A q \in Plans : PlanFits(q), NEW p \in Plans, NEW seen, NEW k \in RunKeys, Agent!Execute(p, seen, k)
    PROVE  AssistantTypes' /\ \A q \in Plans : PlanFits(q)'
<1>0. PlanFits(p) /\ command[p] # None /\ Agent!MayRun(p, seen) /\ UNCHANGED <<maySend, agreed, changes>>
  BY DEF Agent!Execute
<1>1. PICK outcome \in Agent!Outcome(p), effects \in SUBSET (plan[p].steps \ {Agent!Cancellation}) : Runs(p, k, outcome, effects)
  <2> USE DEF Runs, Settles, Undone
  <2> QED BY Zenon DEF Agent!Execute
<1>r. Runs(p, k, outcome, effects)
  BY <1>1
<1>3. ASSUME NEW s \in effects
      PROVE  /\ s \in plan[p].steps /\ s # Agent!Cancellation
             /\ [s EXCEPT !.amount = due[s.to]] = s /\ command[p] = "approved" /\ s \in agreed[p]
  <2>1. s \in plan[p].steps /\ s # Agent!Cancellation
    BY <1>1
  <2> QED BY <1>0, <2>1, EffectsAgreed
<1>4. ran' = [ran EXCEPT ![p] = @ \cup effects]
  <2>1. {[s EXCEPT !.amount = due[s.to]] : s \in effects} = effects
    BY <1>3
  <2>2. ran' = [ran EXCEPT ![p] = @ \cup {[s EXCEPT !.amount = due[s.to]] : s \in effects}]
    BY <1>r DEF Runs
  <2> QED BY <2>1, <2>2
<1>5. ran'[p] = ran[p] \cup effects /\ \A q \in Plans \ {p} : ran'[q] = ran[q]
  BY <1>4 DEF AssistantTypes
<1>6. ran'[p] \subseteq agreed[p] /\ (effects # {} => command[p] = "approved")
  BY <1>0, <1>3, <1>5 DEF PlanFits
<1>7. plan[p] \in PlanRecords
  BY <1>0 DEF PlanFits
<1>a. CASE Settles(p, k, outcome, effects)
  <2>1. due' \in [Documents -> 0..MaxOwed]
    BY <1>a, AgentAssumption DEF Settles, AssistantTypes
  <2>2. AssistantTypes'
    BY <1>0, <1>4, <1>a, <2>1 DEF Settles, AssistantTypes
  <2>3. ASSUME NEW q \in Plans, q # p PROVE PlanFits(q)'
    <3>1. \A l \in RunKeys : report'[<<q, l>>] = report[<<q, l>>]
      BY <1>a, <2>3 DEF Settles, AssistantTypes
    <3>2. plan'[q] = plan[q] /\ command'[q] = command[q] /\ agreed'[q] = agreed[q] /\ (q \in prepared' <=> q \in prepared)
      BY <1>0, <1>a, <2>3 DEF Settles, AssistantTypes
    <3> QED BY <1>5, <1>a, <2>3, <3>1, <3>2, PlanUntouched DEF Settles, AssistantTypes
  <2>4. \A l \in RunKeys : report[<<p, l>>] = None
    BY <1>0, <1>a DEF Settles, PlanFits, Agent!Finishes, Agent!May
  <2>5. report'[<<p, k>>] = outcome /\ \A l \in RunKeys : l # k => report'[<<p, l>>] = None
    BY <1>a, <2>4 DEF Settles, AssistantTypes
  <2>6. outcome \in [plan[p].steps -> Agent!Outcomes] /\ outcome # None
    BY <1>7, AgentAssumption DEF Agent!Outcome, PlanRecords
  <2>7. rollbacks = 0 => \A s \in ran'[p] : s \in DOMAIN outcome /\ outcome[s] # "PREPARED"
    <3>1. rollbacks = 0 => ran[p] = {}
      BY <1>0, <2>4 DEF PlanFits, InReport
    <3>2. ASSUME NEW s \in effects PROVE s \in DOMAIN outcome /\ outcome[s] # "PREPARED"
      BY <1>1, <1>3, <2>6 DEF Agent!Outcome
    <3> QED BY <1>5, <3>1, <3>2
  <2>8. Reported(p)'
    BY <2>5, <2>6 DEF Reported
  <2>9. plan'[p] = [plan[p] EXCEPT !.state = "EXECUTED"] /\ command'[p] = "finalised"
    BY <1>a DEF Settles, AssistantTypes
  <2>10. plan'[p] \in PlanRecords /\ plan'[p].state # "APPROVED"
    BY <1>7, <2>9 DEF PlanRecords, Agent!States
  <2>12. (rollbacks = 0 => \A s \in ran[p] : InReport(p, s))'
    BY <1>a, <2>5, <2>6, <2>7 DEF InReport, Settles
  <2>11. PlanFits(p)'
    BY <1>0, <1>6, <2>5, <2>8, <2>9, <2>10, <2>12 DEF PlanFits, Agent!Statuses
  <2> QED BY <2>2, <2>3, <2>11
<1>b. CASE Undone
  <2>1. AssistantTypes'
    <3>1. UNCHANGED <<due, plan, command, report, agreed>> /\ rollbacks' = rollbacks + 1
      BY <1>0, <1>b DEF Undone
    <3>2. ran' = [q \in Plans |-> ran'[q]]
      BY <1>4 DEF AssistantTypes
    <3> QED BY <3>1, <3>2 DEF AssistantTypes
  <2>2. ASSUME NEW q \in Plans, q # p PROVE PlanFits(q)'
    BY <1>0, <1>5, <1>b, <2>2, PlanUntouched DEF Undone, AssistantTypes
  <2>3. rollbacks' # 0
    BY <1>b DEF Undone, AssistantTypes
  <2>4. PlanFits(p)'
    BY <1>0, <1>5, <1>6, <1>b, <2>3 DEF Undone, PlanFits, Reported, InReport
  <2> QED BY <2>1, <2>2, <2>4
<1> QED BY <1>r, <1>a, <1>b DEF Undone, Settles, Runs

LEMMA BooksChanged ==
    ASSUME AssistantTypes, \A q \in Plans : PlanFits(q), Agent!BooksChange
    PROVE  AssistantTypes' /\ \A q \in Plans : PlanFits(q)'
<1>1. UNCHANGED <<plan, command, prepared, report, ran, agreed, rollbacks>> /\ due' \in [Documents -> 0..MaxOwed]
  BY DEF Agent!BooksChange, AssistantTypes
<1>2. AssistantTypes'
  BY <1>1 DEF AssistantTypes
<1> QED BY <1>1, <1>2, PlanUntouched DEF AssistantTypes

LEMMA AssistantStep ==
    ASSUME AssistantTypes, \A q \in Plans : PlanFits(q), Agent!Next
    PROVE  AssistantTypes' /\ \A q \in Plans : PlanFits(q)'
BY AskedFor, Previewed, Agreed, Refused, Executed, BooksChanged DEF Agent!Next

LEMMA AssistantFirst == MCInit => AssistantFits
<1> SUFFICES ASSUME MCInit PROVE AssistantFits
  OBVIOUS
<1>1. rollbacks = 0
  BY DEF MCInit, Chase!Init
<1>2. AssistantTypes
  BY <1>1, AgentAssumption DEF MCInit, Agent!Init, AssistantTypes
<1>3. \A p \in Plans : PlanFits(p)
  BY <1>1 DEF MCInit, Agent!Init, PlanFits, Reported, InReport
<1>4. prepared = {} /\ \A p \in Plans : ran[p] = {} /\ \A k \in RunKeys : report[<<p, k>>] = None
  BY DEF MCInit, Agent!Init
<1> QED BY <1>2, <1>3, <1>4 DEF AssistantFits

LEMMA AssistantStays == AssistantFits /\ [MCNext]_<<vars, chase, assistant, rollbacks, purchases, imports, case>> => AssistantFits'
<1> SUFFICES ASSUME AssistantFits, [MCNext]_<<vars, chase, assistant, rollbacks, purchases, imports, case>>
             PROVE  AssistantFits'
  OBVIOUS
<1>1. case' = case
  BY DEF MCNext
<1>2. CASE case = "assistant"
  <2>1. AssistantTypes /\ \A p \in Plans : PlanFits(p)
    BY <1>2 DEF AssistantFits
  <2>2. Agent!Next \/ UNCHANGED <<assistant, rollbacks>>
    BY <1>2, ChasingAssumption DEF MCNext
  <2>3. AssistantTypes' /\ \A p \in Plans : PlanFits(p)'
    BY <2>1, <2>2, AssistantStep, PlanUntouched DEF assistant, AssistantTypes
  <2> QED BY <1>1, <1>2, <2>3 DEF AssistantFits
<1>3. CASE case # "assistant"
  BY <1>1, <1>3 DEF MCNext, AssistantFits, assistant
<1> QED BY <1>2, <1>3

LEMMA AssistantKeepsItsWord == AssistantFits => Agent!OnlyWhatWasAgreed /\ Agent!CarriedOutOnce
<1> SUFFICES ASSUME AssistantFits, NEW p \in Plans
             PROVE  /\ ran[p] \subseteq agreed[p]
                    /\ LET reports == {report[<<p, k>>] : k \in {l \in RunKeys : report[<<p, l>>] # None}}
                       IN /\ Cardinality({k \in RunKeys : report[<<p, k>>] # None}) <= 1
                          /\ rollbacks = 0 => \A s \in ran[p] : \E r \in reports : s \in DOMAIN r /\ r[s] # "PREPARED"
                          /\ p \in prepared => reports # {}
  BY DEF Agent!OnlyWhatWasAgreed, Agent!CarriedOutOnce, Agent!Cardinality, Cardinality, Agent!IsFiniteSet, IsFiniteSet
<1>1. \A k, l \in RunKeys : report[<<p, k>>] # None /\ report[<<p, l>>] # None => k = l
  BY DEF AssistantFits, PlanFits
<1>2. Cardinality({k \in RunKeys : report[<<p, k>>] # None}) <= 1
  <2>1. CASE {k \in RunKeys : report[<<p, k>>] # None} = {}
    <3>1. PICK S : S = {k \in RunKeys : report[<<p, k>>] # None}
      OBVIOUS
    <3>2. S = {}
      BY <2>1, <3>1
    <3>3. Cardinality(S) = 0
      BY <3>2, FS_EmptySet
    <3> QED BY <3>1, <3>3
  <2>2. ASSUME NEW k \in RunKeys, report[<<p, k>>] # None PROVE Cardinality({l \in RunKeys : report[<<p, l>>] # None}) <= 1
    <3>1. {l \in RunKeys : report[<<p, l>>] # None} = {k}
      BY <1>1, <2>2
    <3>2. PICK S : S = {l \in RunKeys : report[<<p, l>>] # None}
      OBVIOUS
    <3>3. S = {k}
      BY <3>1, <3>2
    <3>4. Cardinality(S) = 1
      BY <3>3, FS_Singleton
    <3> QED BY <3>2, <3>4
  <2> QED BY <2>1, <2>2
<1>3. rollbacks = 0 => \A s \in ran[p] : InReport(p, s)
  BY DEF AssistantFits, PlanFits
<1>4. p \in prepared => Reported(p)
  BY DEF AssistantFits, PlanFits
<1>5. ran[p] \subseteq agreed[p]
  BY DEF AssistantFits, PlanFits
<1> QED BY <1>2, <1>3, <1>4, <1>5 DEF Reported, InReport

-----------------------------------------------------------------------------
(* Chasing a customer                                                      *)

NoteStates == {None, "scheduled", "delivered", "failed"}
RowValues == [state : {"SENT", "FAILED"}, asOf : Int] \cup {None}

\* What a request has written and what has gone out, of a customer.
Messages(d) ==
    [rows : [Chase(d)!Keys -> RowValues], notes : [Chase(d)!Keys -> NoteStates], got : [Chase(d)!Keys -> Nat]]

\* After n lost requests: who was told more often than those explain was not told
\* before; and what is shown as sent was delivered.
Sound(d, s, n) ==
    /\ s \in Messages(d)
    /\ \A k \in Chase(d)!Keys :
         /\ s.got[k] <= n + (IF s.notes[k] = "delivered" THEN 1 ELSE 0)
         /\ s.notes[k] = "delivered" => s.got[k] >= 1
         /\ Chase(d)!SentAlready(s, k) => s.notes[k] = "delivered"

\* The messages shown as sent to the customer are of the rung their bill had reached
\* on the day, and the gap apart.
Spaced(d, s) ==
    /\ \A k \in Chase(d)!SentToCustomer(s) : k[2] = Chase(d)!RungOn(k[1], s.rows[k].asOf)
    /\ \A k, l \in Chase(d)!SentToCustomer(s) : k # l => s.rows[k].asOf - s.rows[l].asOf \notin (1 - d.gap)..(d.gap - 1)

\* The rung k may be sent on day t.
Ready(d, s, k, t) ==
    /\ k \in d.bills \X Chase(d)!Rungs
    /\ k[2] = Chase(d)!RungOn(k[1], t) /\ ~Chase(d)!TooSoon(s, t)

\* From s to o nothing was written but to k's row, and that of day t.
OnlyRow(d, s, o, k, t) ==
    \A l \in Chase(d)!Keys :
       /\ l # k => o.rows[l] = s.rows[l]
       /\ l = k => o.rows[l] = s.rows[l] \/ o.rows[l] \in [state : {"SENT", "FAILED"}, asOf : {t}]

\* From s to o nothing was written to a row of the customer but to k's, and that of day t.
Leaves(d, s, o, k, t) ==
    \A l \in d.bills \X Chase(d)!Rungs :
       /\ l # k => o.rows[l] = s.rows[l]
       /\ l = k => o.rows[l] = s.rows[l] \/ o.rows[l] \in [state : {"SENT", "FAILED"}, asOf : {t}]

\* Nobody hears less.
Heard(d, s, o) == \A k \in Chase(d)!Keys : s.got[k] <= o.got[k]

LEMMA KeysAre ==
    ASSUME NEW d, Chaseable(d)
    PROVE  /\ Chase(d)!Rungs = 1..Len(d.ladder) /\ Len(d.ladder) \in Nat
           /\ Chase(d)!Keys = d.bills \X (1..Len(d.ladder) \cup {Len(d.ladder) + 1})
           /\ IsFiniteSet(Chase(d)!Keys)
           /\ d.bills \X Chase(d)!Rungs \subseteq Chase(d)!Keys
<1>1. Len(d.ladder) \in Nat
  BY DEF Chaseable
<1>2. Chase(d)!Rungs = 1..Len(d.ladder)
  BY DEF Chase!Rungs
<1>3. Chase(d)!Keys = d.bills \X (1..Len(d.ladder) \cup {Len(d.ladder) + 1})
  BY <1>2 DEF Chase!Keys, Chase!Escalation
<1>4. IsFiniteSet(1..Len(d.ladder) \cup {Len(d.ladder) + 1})
  <2>1. 1..Len(d.ladder) \cup {Len(d.ladder) + 1} = 1..(Len(d.ladder) + 1)
    BY <1>1
  <2>2. IsFiniteSet(1..(Len(d.ladder) + 1))
    BY <1>1, FS_Interval
  <2> QED BY <2>1, <2>2
<1>5. IsFiniteSet(d.bills \X (1..Len(d.ladder) \cup {Len(d.ladder) + 1}))
  BY <1>4, FS_Product DEF Chaseable
<1> QED BY <1>1, <1>2, <1>3, <1>5

\* The ladder is climbed as the days go by.
LEMMA LadderClimbs ==
    ASSUME NEW d, Chaseable(d), NEW b \in d.bills, NEW t \in Int, NEW u \in Int, t <= u
    PROVE  /\ Chase(d)!RungOn(b, t) \in Nat /\ Chase(d)!RungOn(b, t) <= Chase(d)!RungOn(b, u)
           /\ Chase(d)!RungOn(b, t) <= Len(d.ladder)
<1>1. PICK R : R = 1..Len(d.ladder)
  OBVIOUS
<1>2. IsFiniteSet(R) /\ Cardinality(R) = Len(d.ladder)
  <2>1. Len(d.ladder) \in Nat
    BY KeysAre
  <2> QED BY <1>1, <2>1, FS_Interval
<1>3. PICK A : A = {r \in R : t - d.dueOn[b] >= d.ladder[r]}
  OBVIOUS
<1>4. PICK B : B = {r \in R : u - d.dueOn[b] >= d.ladder[r]}
  OBVIOUS
<1>5. d.dueOn[b] \in Int /\ \A r \in R : d.ladder[r] \in Int
  BY <1>1 DEF Chaseable
<1>6. A \subseteq B /\ B \subseteq R
  BY <1>3, <1>4, <1>5
<1>7. IsFiniteSet(B) /\ Cardinality(A) <= Cardinality(B)
  BY <1>2, <1>6, FS_Subset
<1>8. Cardinality(A) \in Nat /\ Cardinality(A) <= Cardinality(R)
  BY <1>2, <1>6, FS_Subset, FS_CardinalityType
<1>9. Chase(d)!RungOn(b, t) = Cardinality(A) /\ Chase(d)!RungOn(b, u) = Cardinality(B)
  BY <1>1, <1>3, <1>4 DEF Chase!RungOn, Chase!Rungs, Chase!Cardinality, Cardinality, Chase!IsFiniteSet, IsFiniteSet
<1> QED BY <1>2, <1>7, <1>8, <1>9

LEMMA SpacedInOrder ==
    ASSUME NEW d, Chaseable(d), NEW s \in Messages(d), Spaced(d, s),
           NEW k \in Chase(d)!SentToCustomer(s), NEW l \in Chase(d)!SentToCustomer(s)
    PROVE  /\ k # l => s.rows[k].asOf - s.rows[l].asOf \notin (1 - d.gap)..(d.gap - 1)
           /\ k[1] = l[1] /\ k[2] < l[2] => s.rows[k].asOf < s.rows[l].asOf
<1>1. ASSUME NEW m \in Chase(d)!SentToCustomer(s)
      PROVE  m \in d.bills \X Chase(d)!Rungs /\ s.rows[m].asOf \in Int /\ m[1] \in d.bills
  <2>1. m \in d.bills \X Chase(d)!Rungs /\ Chase(d)!SentAlready(s, m)
    BY DEF Chase!SentToCustomer
  <2>2. m \in Chase(d)!Keys
    BY <2>1, KeysAre
  <2>3. s.rows[m] \in RowValues /\ s.rows[m] # None
    BY <2>1, <2>2 DEF Messages, Chase!SentAlready
  <2>4. s.rows[m] \in [state : {"SENT", "FAILED"}, asOf : Int]
    BY <2>3 DEF RowValues
  <2> QED BY <2>1, <2>4
<1>2. ASSUME k[1] = l[1], k[2] < l[2], ~(s.rows[k].asOf < s.rows[l].asOf) PROVE FALSE
  <2>1. s.rows[l].asOf <= s.rows[k].asOf /\ s.rows[k].asOf \in Int /\ s.rows[l].asOf \in Int /\ k[1] \in d.bills
    BY <1>1, <1>2
  <2>2. Chase(d)!RungOn(k[1], s.rows[l].asOf) <= Chase(d)!RungOn(k[1], s.rows[k].asOf)
    BY <2>1, LadderClimbs
  <2>3. Chase(d)!RungOn(k[1], s.rows[l].asOf) \in Nat /\ Chase(d)!RungOn(k[1], s.rows[k].asOf) \in Nat
    BY <2>1, LadderClimbs
  <2>4. k[2] = Chase(d)!RungOn(k[1], s.rows[k].asOf) /\ l[2] = Chase(d)!RungOn(k[1], s.rows[l].asOf)
    BY <1>2 DEF Spaced
  <2> QED BY <1>2, <2>2, <2>3, <2>4
<1> QED BY <1>2 DEF Spaced

\* A message that may be sent keeps the gap and the order.
LEMMA SendingSpaces ==
    ASSUME NEW d, Chaseable(d), NEW s \in Messages(d), NEW o \in Messages(d), NEW k, NEW t \in Int,
           Spaced(d, s), k \in d.bills \X Chase(d)!Rungs => Ready(d, s, k, t), Leaves(d, s, o, k, t)
    PROVE  Spaced(d, o)
<1>0. d.gap \in Nat
  BY DEF Chaseable
<1>1. ASSUME NEW m \in Chase(d)!SentToCustomer(o)
      PROVE  /\ m \in d.bills \X Chase(d)!Rungs /\ o.rows[m].asOf \in Int
             /\ \/ m \in Chase(d)!SentToCustomer(s) /\ o.rows[m] = s.rows[m]
                \/ m = k /\ o.rows[m].asOf = t /\ Ready(d, s, k, t)
  <2>1. m \in d.bills \X Chase(d)!Rungs /\ Chase(d)!SentAlready(o, m)
    BY DEF Chase!SentToCustomer
  <2>2. m \in Chase(d)!Keys
    BY <2>1, KeysAre
  <2>3. o.rows[m] \in RowValues /\ o.rows[m] # None
    BY <2>1, <2>2 DEF Messages, Chase!SentAlready
  <2>4. o.rows[m] \in [state : {"SENT", "FAILED"}, asOf : Int]
    BY <2>3 DEF RowValues
  <2>5. CASE o.rows[m] = s.rows[m]
    <3>1. Chase(d)!SentAlready(s, m)
      BY <2>1, <2>5 DEF Chase!SentAlready
    <3> QED BY <2>1, <2>4, <2>5, <3>1 DEF Chase!SentToCustomer
  <2>6. CASE o.rows[m] # s.rows[m]
    <3>1. m = k /\ o.rows[m] \in [state : {"SENT", "FAILED"}, asOf : {t}]
      BY <2>1, <2>6 DEF Leaves
    <3> QED BY <2>1, <2>4, <3>1
  <2> QED BY <2>5, <2>6
<1>2. ASSUME NEW m \in Chase(d)!SentToCustomer(s), NEW u, s.rows[m].asOf = u, u \in Int, Ready(d, s, k, t) PROVE t - u >= d.gap
  BY <1>0, <1>2 DEF Ready, Chase!TooSoon
<1>3. ASSUME NEW m \in Chase(d)!SentToCustomer(o) PROVE m[2] = Chase(d)!RungOn(m[1], o.rows[m].asOf)
  BY <1>1 DEF Spaced, Ready
<1>4. ASSUME NEW m \in Chase(d)!SentToCustomer(o), NEW l \in Chase(d)!SentToCustomer(o), m # l
      PROVE  o.rows[m].asOf - o.rows[l].asOf \notin (1 - d.gap)..(d.gap - 1)
  <2>1. PICK u \in Int, v \in Int : u = o.rows[m].asOf /\ v = o.rows[l].asOf
    BY <1>1
  <2>2. CASE m \in Chase(d)!SentToCustomer(s) /\ o.rows[m] = s.rows[m] /\ l \in Chase(d)!SentToCustomer(s) /\ o.rows[l] = s.rows[l]
    BY <1>4, <2>2 DEF Spaced
  <2>3. CASE m \in Chase(d)!SentToCustomer(s) /\ o.rows[m] = s.rows[m] /\ l = k /\ o.rows[l].asOf = t /\ Ready(d, s, k, t)
    <3>1. t - u >= d.gap
      BY <1>2, <2>1, <2>3
    <3> QED BY <1>0, <2>1, <2>3, <3>1
  <2>4. CASE l \in Chase(d)!SentToCustomer(s) /\ o.rows[l] = s.rows[l] /\ m = k /\ o.rows[m].asOf = t /\ Ready(d, s, k, t)
    <3>1. t - v >= d.gap
      BY <1>2, <2>1, <2>4
    <3> QED BY <1>0, <2>1, <2>4, <3>1
  <2> QED BY <1>1, <1>4, <2>2, <2>3, <2>4
<1> QED BY <1>3, <1>4 DEF Spaced

LEMMA DeliveringIsSound ==
    ASSUME NEW d, Chaseable(d), NEW n \in Nat, NEW s, Sound(d, s, n), NEW o \in Chase(d)!Delivered(s)
    PROVE  Sound(d, o, n) /\ o.rows = s.rows /\ Heard(d, s, o)
<1> DEFINE queue == {k \in Chase(d)!Keys : s.notes[k] = "scheduled"}
           Met(taken, tried) == [s EXCEPT !.notes = [k \in Chase(d)!Keys |-> IF k \in taken THEN "delivered" ELSE IF k \in tried THEN "failed" ELSE @[k]],
                                          !.got = [k \in Chase(d)!Keys |-> IF k \in taken THEN @[k] + 1 ELSE @[k]]]
<1>1. o \in UNION {{Met(taken, tried) : taken \in SUBSET tried} : tried \in SUBSET queue}
  BY Zenon DEF Chase!Delivered
<1>2. PICK tried \in SUBSET queue : \E taken \in SUBSET tried : o = Met(taken, tried)
  <2> HIDE DEF Met, queue
  <2> QED BY <1>1
<1>3. PICK taken \in SUBSET tried : o = Met(taken, tried)
  BY <1>2
<1>4. PICK notes : notes = [k \in Chase(d)!Keys |-> IF k \in taken THEN "delivered" ELSE IF k \in tried THEN "failed" ELSE s.notes[k]]
  OBVIOUS
<1>5. PICK got : got = [k \in Chase(d)!Keys |-> IF k \in taken THEN s.got[k] + 1 ELSE s.got[k]]
  OBVIOUS
<1>6. s \in Messages(d)
  BY DEF Sound
<1>7. o = [rows |-> s.rows, notes |-> notes, got |-> got]
  BY <1>3, <1>4, <1>5, <1>6 DEF Messages
<1>8. notes \in [Chase(d)!Keys -> NoteStates]
  BY <1>4, <1>6 DEF Messages, NoteStates
<1>9. got \in [Chase(d)!Keys -> Nat]
  BY <1>5, <1>6 DEF Messages
<1>10. o \in Messages(d) /\ o.rows = s.rows /\ o.notes = notes /\ o.got = got
  BY <1>6, <1>7, <1>8, <1>9 DEF Messages
<1>11. ASSUME NEW k \in Chase(d)!Keys
       PROVE  /\ o.got[k] <= n + (IF o.notes[k] = "delivered" THEN 1 ELSE 0)
              /\ o.notes[k] = "delivered" => o.got[k] >= 1
              /\ Chase(d)!SentAlready(o, k) => o.notes[k] = "delivered"
              /\ s.got[k] <= o.got[k]
  <2>1. /\ s.got[k] <= n + (IF s.notes[k] = "delivered" THEN 1 ELSE 0)
        /\ s.notes[k] = "delivered" => s.got[k] >= 1
        /\ Chase(d)!SentAlready(s, k) => s.notes[k] = "delivered"
        /\ s.got[k] \in Nat
    BY <1>6 DEF Sound, Messages
  <2>2. (k \in taken => k \in tried) /\ (k \in tried => s.notes[k] = "scheduled")
    OBVIOUS
  <2>3. o.notes[k] = (IF k \in taken THEN "delivered" ELSE IF k \in tried THEN "failed" ELSE s.notes[k])
    BY <1>4, <1>10
  <2>4. o.got[k] = (IF k \in taken THEN s.got[k] + 1 ELSE s.got[k])
    BY <1>5, <1>10
  <2>5. Chase(d)!SentAlready(o, k) = Chase(d)!SentAlready(s, k)
    BY <1>10 DEF Chase!SentAlready
  <2> QED BY <2>1, <2>2, <2>3, <2>4, <2>5
<1> QED BY <1>10, <1>11 DEF Sound, Heard

LEMMA SchedulingIsSound ==
    ASSUME NEW d, Chaseable(d), NEW n \in Nat, NEW s, Sound(d, s, n), NEW k \in Chase(d)!Keys, NEW o,
           o = [s EXCEPT !.notes = Chase(d)!Scheduled(s.notes, k)]
    PROVE  Sound(d, o, n) /\ o.rows = s.rows /\ o.got = s.got
<1>1. PICK notes : notes = Chase(d)!Scheduled(s.notes, k)
  OBVIOUS
<1>2. s \in Messages(d)
  BY DEF Sound
<1>3. \A l \in Chase(d)!Keys : /\ notes[l] \in NoteStates
                               /\ (notes[l] = "delivered") = (s.notes[l] = "delivered")
  BY <1>1, <1>2 DEF Chase!Scheduled, Messages, NoteStates
<1>4. notes \in [Chase(d)!Keys -> NoteStates]
  BY <1>1, <1>2, <1>3 DEF Chase!Scheduled, Messages
<1>5. o = [rows |-> s.rows, notes |-> notes, got |-> s.got]
  BY <1>1, <1>2 DEF Messages
<1>6. o \in Messages(d) /\ o.rows = s.rows /\ o.notes = notes /\ o.got = s.got
  BY <1>2, <1>4, <1>5 DEF Messages
<1> QED BY <1>3, <1>6 DEF Sound, Chase!SentAlready

\* A row is written as sent only if the message was delivered.
LEMMA SettlingIsSound ==
    ASSUME NEW d, Chaseable(d), NEW n \in Nat, NEW s, Sound(d, s, n), NEW k \in Chase(d)!Keys, NEW t \in Int, NEW o,
           o = Chase(d)!Settled(s, k, t)
    PROVE  Sound(d, o, n) /\ o.got = s.got /\ OnlyRow(d, s, o, k, t)
<1>1. PICK row : row = [state |-> IF s.notes[k] = "delivered" THEN "SENT" ELSE "FAILED", asOf |-> t]
  OBVIOUS
<1>2. PICK rows : rows = [s.rows EXCEPT ![k] = row]
  OBVIOUS
<1>3. s \in Messages(d)
  BY DEF Sound
<1>4. o = [rows |-> rows, notes |-> s.notes, got |-> s.got]
  BY <1>1, <1>2, <1>3 DEF Messages, Chase!Settled
<1>5. row \in [state : {"SENT", "FAILED"}, asOf : {t}] /\ (row.state = "SENT") = (s.notes[k] = "delivered")
  BY <1>1
<1>6. row \in RowValues
  BY <1>1 DEF RowValues
<1>7. rows \in [Chase(d)!Keys -> RowValues] /\ rows[k] = row /\ \A l \in Chase(d)!Keys : l # k => rows[l] = s.rows[l]
  BY <1>2, <1>3, <1>6 DEF Messages
<1>8. o \in Messages(d) /\ o.rows = rows /\ o.notes = s.notes /\ o.got = s.got
  BY <1>3, <1>4, <1>7 DEF Messages
<1>9. OnlyRow(d, s, o, k, t)
  BY <1>5, <1>7, <1>8 DEF OnlyRow
<1>10. ASSUME NEW l \in Chase(d)!Keys PROVE Chase(d)!SentAlready(o, l) => o.notes[l] = "delivered"
  <2>1. CASE l = k
    BY <1>5, <1>7, <1>8, <2>1 DEF Chase!SentAlready
  <2>2. CASE l # k
    BY <1>7, <1>8, <2>2 DEF Chase!SentAlready, Sound
  <2> QED BY <2>1, <2>2
<1> QED BY <1>8, <1>9, <1>10 DEF Sound

LEMMA DispatchIsSound ==
    ASSUME NEW d, Chaseable(d), NEW n \in Nat, NEW s, Sound(d, s, n), NEW k \in Chase(d)!Keys, NEW t \in Int,
           NEW o \in Chase(d)!Dispatch(s, k, t)
    PROVE  Sound(d, o, n) /\ Heard(d, s, o) /\ OnlyRow(d, s, o, k, t)
<1>1. PICK asked : asked = [s EXCEPT !.notes = Chase(d)!Scheduled(s.notes, k)]
  OBVIOUS
<1>2. PICK went : o = Chase(d)!Settled(went, k, t) /\ (went = asked \/ went \in Chase(d)!Delivered(asked))
  BY <1>1 DEF Chase!Dispatch
<1>3. Sound(d, asked, n) /\ asked.rows = s.rows /\ asked.got = s.got
  BY <1>1, SchedulingIsSound
<1>4. Sound(d, went, n) /\ went.rows = s.rows /\ Heard(d, s, went)
  <2>1. CASE went = asked
    <3>1. \A l \in Chase(d)!Keys : s.got[l] \in Nat
      BY DEF Sound, Messages
    <3> QED BY <1>3, <2>1, <3>1 DEF Heard
  <2>2. CASE went \in Chase(d)!Delivered(asked)
    BY <1>3, <2>2, DeliveringIsSound DEF Heard
  <2> QED BY <1>2, <2>1, <2>2
<1>5. Sound(d, o, n) /\ o.got = went.got /\ OnlyRow(d, went, o, k, t)
  BY <1>2, <1>4, SettlingIsSound
<1> QED BY <1>4, <1>5 DEF Heard, OnlyRow

\* Whatever several reminders come to, one of which at most is to the customer.
LEMMA DispatchingAllIsSound ==
    ASSUME NEW d, Chaseable(d), NEW n \in Nat, NEW s, Sound(d, s, n), NEW t \in Int, NEW k,
           NEW keys \in SUBSET Chase(d)!Keys, \A l \in keys : l \in d.bills \X Chase(d)!Rungs => l = k,
           NEW o \in Chase(d)!DispatchAll(s, keys, t)
    PROVE  Sound(d, o, n) /\ Heard(d, s, o) /\ Leaves(d, s, o, k, t)
<1> DEFINE N == Cardinality(keys)
           X == {x \in Messages(d) : Sound(d, x, n) /\ Heard(d, s, x) /\ Leaves(d, s, x, k, t)}
           Send(x, i) == Chase(d)!Dispatch(x, Chase(d)!InTurn(keys)[i], t)
           Fits(f) == f = [i \in 0..N |-> IF i = 0 THEN {s} ELSE UNION {Send(x, i) : x \in f[i - 1]}]
           step == [i \in 1..N |-> [states \in SUBSET X |-> UNION {Send(x, i) : x \in states}]]
<1>1. IsFiniteSet(keys)
  BY KeysAre, FS_Subset
<1>2. N \in Nat
  BY <1>1, FS_CardinalityType
<1>3. Chase(d)!InTurn(keys) \in [1..N -> keys]
  <2>1. PICK turn \in [1..N -> keys] : \A x \in keys : \E i \in 1..N : turn[i] = x
    <3>1. ExistsBijection(1..N, keys)
      BY <1>1, <1>2, FS_CountingElements, FS_NatBijection
    <3> QED BY <3>1 DEF ExistsBijection, Bijection, Injection, Surjection
  <2>2. Chase(d)!InTurn(keys) = CHOOSE u \in [1..N -> keys] : \A x \in keys : \E i \in 1..N : u[i] = x
    BY DEF Chase!InTurn, Chase!Cardinality, Cardinality, Chase!IsFiniteSet, IsFiniteSet
  <2> HIDE DEF N
  <2> QED BY <2>1, <2>2
<1>4. s \in X
  <2>1. s \in Messages(d) /\ \A l \in Chase(d)!Keys : s.got[l] \in Nat
    BY DEF Sound, Messages
  <2> QED BY <2>1 DEF Heard, Leaves
<1>5. ASSUME NEW x \in X, NEW i \in 1..N, NEW y \in Send(x, i) PROVE y \in X
  <2>1. PICK l \in keys : l = Chase(d)!InTurn(keys)[i]
    BY <1>3
  <2>2. Sound(d, y, n) /\ Heard(d, x, y) /\ OnlyRow(d, x, y, l, t)
    BY <1>5, <2>1, DispatchIsSound
  <2>3. x \in Messages(d) /\ y \in Messages(d)
    BY <2>2 DEF Sound
  <2>4. Heard(d, s, y)
    <3>1. \A m \in Chase(d)!Keys : s.got[m] \in Nat /\ x.got[m] \in Nat /\ y.got[m] \in Nat
      BY <2>3 DEF Sound, Messages
    <3> QED BY <1>5, <2>2, <3>1 DEF Heard
  <2>5. Leaves(d, s, y, k, t)
    <3> SUFFICES ASSUME NEW m \in d.bills \X Chase(d)!Rungs
                 PROVE  /\ m # k => y.rows[m] = s.rows[m]
                        /\ m = k => y.rows[m] = s.rows[m] \/ y.rows[m] \in [state : {"SENT", "FAILED"}, asOf : {t}]
      BY DEF Leaves
    <3>1. m \in Chase(d)!Keys /\ (m # k => m # l)
      BY KeysAre
    <3>2. /\ m # k => x.rows[m] = s.rows[m]
          /\ m = k => x.rows[m] = s.rows[m] \/ x.rows[m] \in [state : {"SENT", "FAILED"}, asOf : {t}]
      BY <1>5 DEF Leaves
    <3>3. /\ m # l => y.rows[m] = x.rows[m]
          /\ m = l => y.rows[m] = x.rows[m] \/ y.rows[m] \in [state : {"SENT", "FAILED"}, asOf : {t}]
      BY <2>2, <3>1 DEF OnlyRow
    <3> QED BY <3>1, <3>2, <3>3
  <2> QED BY <2>2, <2>3, <2>4, <2>5
<1>6. PICK f : Recurs(f, N, {s}, step) /\ \A i \in 0..N : f[i] \in SUBSET X
  <2>1. {s} \in SUBSET X
    BY <1>4
  <2>2. ASSUME NEW i \in 1..N, NEW states \in SUBSET X PROVE step[i][states] \in SUBSET X
    <3>1. step[i][states] = UNION {Send(x, i) : x \in states}
      BY Zenon
    <3> HIDE DEF X, Send, step, N
    <3> QED BY <1>5, <2>2, <3>1
  <2> HIDE DEF X, step, N
  <2> QED BY <1>2, <2>1, <2>2, Recursion
<1>7. Fits(f)
  <2>1. f = [i \in 0..N |-> IF i = 0 THEN {s} ELSE step[i][f[i - 1]]]
    BY <1>6 DEF Recurs
  <2>2. ASSUME NEW i \in 0..N, i # 0 PROVE step[i][f[i - 1]] = UNION {Send(x, i) : x \in f[i - 1]}
    <3>1. i \in 1..N /\ i - 1 \in 0..N
      BY <1>2, <2>2
    <3>2. f[i - 1] \in SUBSET X
      BY <1>6, <3>1
    <3> HIDE DEF X, Send, N
    <3> QED BY <3>1, <3>2, Zenon
  <2> HIDE DEF step, X, Send, N
  <2>3. \A i \in 0..N : f[i] = IF i = 0 THEN {s} ELSE UNION {Send(x, i) : x \in f[i - 1]}
    BY <2>1, <2>2
  <2> QED BY <2>1, <2>3
<1>8. \A g : Fits(g) => \A i \in 0..N : g[i] \in SUBSET X
  <2> SUFFICES ASSUME NEW g, Fits(g) PROVE \A i \in 0..N : g[i] \in SUBSET X
    OBVIOUS
  <2> DEFINE Good == {i \in Nat : i \in 0..N => g[i] \in SUBSET X}
  <2>1. 0 \in Good
    BY <1>2, <1>4
  <2>2. ASSUME NEW i \in Nat, i \in Good PROVE i + 1 \in Good
    <3> SUFFICES ASSUME i + 1 \in 0..N PROVE g[i + 1] \in SUBSET X
      OBVIOUS
    <3>1. i \in 0..N /\ i + 1 \in 1..N /\ (i + 1) - 1 = i /\ i + 1 # 0
      BY <1>2
    <3>2. g[i] \in SUBSET X
      BY <2>2, <3>1
    <3>3. g[i + 1] = UNION {Send(x, i + 1) : x \in g[i]}
      <4> HIDE DEF Send, X, N
      <4> QED BY <3>1
    <3> HIDE DEF Send, X, N, Fits
    <3> QED BY <1>5, <3>1, <3>2, <3>3
  <2>3. \A i \in Nat : i \in Good
    <3> HIDE DEF Good
    <3> QED BY <2>1, <2>2, Induction
  <2> HIDE DEF X, Fits
  <2> QED BY <1>2, <2>3
<1>9. Chase(d)!DispatchAll(s, keys, t) = (CHOOSE g : Fits(g))[N]
  BY Zenon DEF Chase!DispatchAll, Chase!Cardinality, Cardinality, Chase!IsFiniteSet, IsFiniteSet
<1>10. o \in X
  <2>1. PICK g : g = CHOOSE h : Fits(h)
    OBVIOUS
  <2> HIDE DEF Fits, X, N
  <2>2. Fits(g)
    BY <1>7, <2>1
  <2>3. g[N] \in SUBSET X
    BY <1>2, <1>8, <2>2
  <2> QED BY <1>9, <2>1, <2>3
<1> QED BY <1>10

LEMMA PlannedIsReady ==
    ASSUME NEW d, Chaseable(d), NEW s, NEW t \in Int, NEW quiet, NEW keys \in Chase(d)!Plan(s, t, quiet)
    PROVE  /\ keys \subseteq Chase(d)!Keys
           /\ \A k \in keys : k \in d.bills \X Chase(d)!Rungs => Ready(d, s, k, t)
           /\ \A k, l \in keys : k \in d.bills \X Chase(d)!Rungs /\ l \in d.bills \X Chase(d)!Rungs => k = l
<1>0. Len(d.ladder) \in Nat /\ Chase(d)!Escalation = Len(d.ladder) + 1 /\ Chase(d)!Rungs = 1..Len(d.ladder)
      /\ Chase(d)!Keys = d.bills \X (1..Len(d.ladder) \cup {Len(d.ladder) + 1})
  BY KeysAre DEF Chase!Escalation
<1> DEFINE wanted == {Chase(d)!KeyFor(s, b, t, quiet) : b \in d.bills} \ {None}
           toCustomer == {k \in wanted : Chase(d)!IsToCustomer(k)}
           oldest == {k \in toCustomer : \A l \in toCustomer : d.dueOn[k[1]] <= d.dueOn[l[1]]}
<1>1. keys \in IF toCustomer = {} THEN {wanted} ELSE {(wanted \ toCustomer) \cup {k} : k \in oldest}
  BY Zenon DEF Chase!Plan
<1>2. ASSUME NEW b \in d.bills, NEW k, k = Chase(d)!KeyFor(s, b, t, quiet), k # None
      PROVE  \/ k = <<b, Chase(d)!Escalation>>
             \/ k = <<b, Chase(d)!RungOn(b, t)>> /\ Chase(d)!RungOn(b, t) # 0 /\ ~Chase(d)!TooSoon(s, t)
  BY <1>2 DEF Chase!KeyFor
<1>3. ASSUME NEW k \in wanted
      PROVE  /\ k \in Chase(d)!Keys
             /\ Chase(d)!IsToCustomer(k) => Ready(d, s, k, t)
             /\ k \in d.bills \X Chase(d)!Rungs => Chase(d)!IsToCustomer(k)
  <2>1. PICK b \in d.bills : k = Chase(d)!KeyFor(s, b, t, quiet) /\ k # None
    OBVIOUS
  <2>2. CASE k = <<b, Chase(d)!Escalation>>
    BY <1>0, <2>2 DEF Chase!IsToCustomer
  <2>3. CASE k = <<b, Chase(d)!RungOn(b, t)>> /\ Chase(d)!RungOn(b, t) # 0 /\ ~Chase(d)!TooSoon(s, t)
    <3>1. Chase(d)!RungOn(b, t) \in 1..Len(d.ladder)
      BY <1>0, <2>3, LadderClimbs
    <3> QED BY <1>0, <2>3, <3>1 DEF Ready, Chase!IsToCustomer
  <2> QED BY <1>2, <2>1, <2>2, <2>3
<1>4. keys \subseteq wanted /\ \A k, l \in keys : Chase(d)!IsToCustomer(k) /\ Chase(d)!IsToCustomer(l) => k = l
  <2>1. CASE toCustomer = {}
    BY <1>1, <2>1
  <2>2. CASE toCustomer # {}
    <3>1. PICK x \in oldest : keys = (wanted \ toCustomer) \cup {x}
      BY <1>1, <2>2
    <3> QED BY <3>1
  <2> QED BY <2>1, <2>2
<1> HIDE DEF wanted
<1> QED BY <1>3, <1>4

-----------------------------------------------------------------------------
\* What is shown of the customer in a state.
ChaseFits(d) == day \in Int /\ rollbacks \in Nat /\ Sound(d, Chase(d)!Now, rollbacks) /\ Spaced(d, Chase(d)!Now)

LEMMA NowIs == ASSUME NEW d PROVE /\ Chase(d)!Now = [rows |-> reminder, notes |-> note, got |-> received]
                                  /\ Chase(d)!Now' = [rows |-> reminder', notes |-> note', got |-> received']
BY DEF Chase!Now

\* A request that comes to a sound end keeps everything, saved or lost.
LEMMA EndsWell ==
    ASSUME NEW d, Chaseable(d), ChaseFits(d), NEW s, Sound(d, s, rollbacks), Spaced(d, s), Heard(d, Chase(d)!Now, s), Chase(d)!Ends(s)
    PROVE  ChaseFits(d)'
<1>1. /\ UNCHANGED day /\ received' = s.got
      /\ \/ reminder' = s.rows /\ note' = s.notes /\ UNCHANGED rollbacks
         \/ rollbacks' = rollbacks + 1 /\ UNCHANGED <<reminder, note>>
  BY Zenon DEF Chase!Ends, Chase!facts
<1>2. s \in Messages(d) /\ Chase(d)!Now \in Messages(d) /\ rollbacks \in Nat
  BY DEF Sound, ChaseFits
<1>3. CASE reminder' = s.rows /\ note' = s.notes /\ UNCHANGED rollbacks
  <2>1. s = [rows |-> reminder', notes |-> note', got |-> received']
    BY <1>1, <1>2, <1>3 DEF Messages
  <2>2. Chase(d)!Now' = s
    BY <2>1, NowIs
  <2>3. Sound(d, Chase(d)!Now, rollbacks)' /\ Spaced(d, Chase(d)!Now)'
    BY <1>3, <2>2 DEF Sound, Spaced, Chase!SentToCustomer, Chase!SentAlready, Chase!RungOn
  <2> QED BY <1>1, <1>2, <1>3, <2>3 DEF ChaseFits
<1>4. CASE rollbacks' = rollbacks + 1 /\ UNCHANGED <<reminder, note>>
  <2>1. Chase(d)!Now' = [rows |-> reminder, notes |-> note, got |-> s.got]
    BY <1>1, <1>4, NowIs
  <2>2. PICK o : o = [rows |-> reminder, notes |-> note, got |-> s.got]
    OBVIOUS
  <2>3. PICK w : w = [rows |-> reminder, notes |-> note, got |-> received] /\ w = Chase(d)!Now
    BY NowIs
  <2>4. o \in Messages(d) /\ o.rows = w.rows /\ o.notes = w.notes /\ o.got = s.got
    BY <1>2, <2>2, <2>3 DEF Messages
  <2>5. PICK n \in Nat : n = rollbacks
    BY <1>2
  <2>6. Sound(d, w, n) /\ Sound(d, s, n) /\ Spaced(d, w) /\ Heard(d, w, s)
    BY <2>3, <2>5 DEF ChaseFits
  <2>7. Sound(d, o, n + 1)
    <3>1. \A k \in Chase(d)!Keys : s.got[k] \in Nat /\ w.got[k] \in Nat
      BY <2>6 DEF Sound, Messages
    <3>2. \A k \in Chase(d)!Keys : Chase(d)!SentAlready(o, k) = Chase(d)!SentAlready(w, k)
      BY <2>4 DEF Chase!SentAlready
    <3> QED BY <2>4, <2>6, <3>1, <3>2 DEF Sound, Heard
  <2>8. Spaced(d, o)
    BY <2>4, <2>6 DEF Spaced, Chase!SentToCustomer, Chase!SentAlready
  <2>9. o = Chase(d)!Now' /\ rollbacks' = n + 1
    BY <1>4, <2>1, <2>2, <2>5
  <2>10. Sound(d, Chase(d)!Now, rollbacks)' /\ Spaced(d, Chase(d)!Now)'
    BY <2>7, <2>8, <2>9 DEF Sound, Spaced, Chase!SentToCustomer, Chase!SentAlready, Chase!RungOn
  <2> QED BY <1>1, <1>2, <1>4, <2>10 DEF ChaseFits
<1> QED BY <1>1, <1>3, <1>4

LEMMA IsTyped ==
    ASSUME NEW d, Chaseable(d), ChaseFits(d)
    PROVE  /\ Chase(d)!Now \in Messages(d)
           /\ reminder \in [Chase(d)!Keys -> RowValues] /\ note \in [Chase(d)!Keys -> NoteStates] /\ received \in [Chase(d)!Keys -> Nat]
BY NowIs DEF ChaseFits, Sound, Messages

\* One reminder, where the plan would send it.
LEMMA SendsWell ==
    ASSUME NEW d, Chaseable(d), ChaseFits(d), NEW s, Sound(d, s, rollbacks), Spaced(d, s),
           s.got = received, NEW t \in Int, NEW k \in Chase(d)!Keys, k \in d.bills \X Chase(d)!Rungs => Ready(d, s, k, t),
           NEW o \in Chase(d)!Dispatch(s, k, t), Chase(d)!Ends(o)
    PROVE  ChaseFits(d)'
<1>1. PICK n \in Nat : n = rollbacks
  BY DEF ChaseFits
<1>2. Sound(d, o, n) /\ Heard(d, s, o) /\ OnlyRow(d, s, o, k, t)
  BY <1>1, DispatchIsSound
<1>3. s \in Messages(d) /\ o \in Messages(d)
  BY <1>2 DEF Sound
<1>4. Leaves(d, s, o, k, t)
  BY <1>2, KeysAre DEF OnlyRow, Leaves
<1>5. Spaced(d, o)
  BY <1>3, <1>4, SendingSpaces
<1>6. Heard(d, Chase(d)!Now, o)
  BY <1>2, NowIs DEF Heard
<1> QED BY <1>1, <1>2, <1>5, <1>6, EndsWell

LEMMA OneIsSent ==
    ASSUME NEW d, Chaseable(d), ChaseFits(d), NEW b, Chase(d)!Send(b, day)
    PROVE  ChaseFits(d)'
<1>1. PICK quiet \in BOOLEAN : \E keys \in Chase(d)!Plan(Chase(d)!Now, day, quiet) :
        \E k \in {l \in keys : l[1] = b} : \E s \in Chase(d)!Dispatch(Chase(d)!Now, k, day) : Chase(d)!Ends(s)
  BY Zenon DEF Chase!Send
<1>2. PICK keys \in Chase(d)!Plan(Chase(d)!Now, day, quiet) :
        \E k \in {l \in keys : l[1] = b} : \E s \in Chase(d)!Dispatch(Chase(d)!Now, k, day) : Chase(d)!Ends(s)
  BY <1>1
<1>3. PICK k \in keys : \E s \in Chase(d)!Dispatch(Chase(d)!Now, k, day) : Chase(d)!Ends(s)
  BY <1>2
<1>4. PICK s \in Chase(d)!Dispatch(Chase(d)!Now, k, day) : Chase(d)!Ends(s)
  BY <1>3
<1>5. day \in Int /\ Sound(d, Chase(d)!Now, rollbacks) /\ Spaced(d, Chase(d)!Now) /\ Chase(d)!Now.got = received
  BY NowIs DEF ChaseFits
<1>6. k \in Chase(d)!Keys /\ (k \in d.bills \X Chase(d)!Rungs => Ready(d, Chase(d)!Now, k, day))
  BY <1>5, PlannedIsReady
<1> QED BY <1>4, <1>5, <1>6, SendsWell

LEMMA AllAreSent ==
    ASSUME NEW d, Chaseable(d), ChaseFits(d), NEW t \in Int, Chase(d)!SendPlanned(t)
    PROVE  ChaseFits(d)'
<1>1. PICK quiet \in BOOLEAN : \E keys \in Chase(d)!Plan(Chase(d)!Now, t, quiet) :
        \E s \in Chase(d)!DispatchAll(Chase(d)!Now, keys, t) : Chase(d)!Ends(s)
  BY Zenon DEF Chase!SendPlanned
<1>2. PICK keys \in Chase(d)!Plan(Chase(d)!Now, t, quiet) : \E s \in Chase(d)!DispatchAll(Chase(d)!Now, keys, t) : Chase(d)!Ends(s)
  BY <1>1
<1>3. PICK o \in Chase(d)!DispatchAll(Chase(d)!Now, keys, t) : Chase(d)!Ends(o)
  BY <1>2
<1>4. Sound(d, Chase(d)!Now, rollbacks) /\ Spaced(d, Chase(d)!Now)
  BY DEF ChaseFits
<1>5. /\ keys \subseteq Chase(d)!Keys
      /\ \A k \in keys : k \in d.bills \X Chase(d)!Rungs => Ready(d, Chase(d)!Now, k, t)
      /\ \A k, l \in keys : k \in d.bills \X Chase(d)!Rungs /\ l \in d.bills \X Chase(d)!Rungs => k = l
  BY PlannedIsReady
<1>6. PICK k : /\ \A l \in keys : l \in d.bills \X Chase(d)!Rungs => l = k
               /\ k \in d.bills \X Chase(d)!Rungs => Ready(d, Chase(d)!Now, k, t)
  <2>1. CASE \E k \in keys : k \in d.bills \X Chase(d)!Rungs
    BY <1>5, <2>1
  <2>2. CASE ~ \E k \in keys : k \in d.bills \X Chase(d)!Rungs
    <3>1. PICK k : k \notin d.bills \X Chase(d)!Rungs
      <4>1. 0 \notin Chase(d)!Rungs
        BY DEF Chase!Rungs
      <4>2. <<0, 0>> \notin d.bills \X Chase(d)!Rungs
        BY <4>1
      <4> QED BY <4>2
    <3> QED BY <2>2, <3>1
  <2> QED BY <2>1, <2>2
<1>7. PICK n \in Nat : n = rollbacks
  BY DEF ChaseFits
<1>8. Sound(d, o, n) /\ Heard(d, Chase(d)!Now, o) /\ Leaves(d, Chase(d)!Now, o, k, t)
  BY <1>3, <1>4, <1>5, <1>6, <1>7, DispatchingAllIsSound
<1>9. Chase(d)!Now \in Messages(d) /\ o \in Messages(d)
  BY <1>4, <1>8 DEF Sound
<1>10. Spaced(d, o)
  BY <1>4, <1>6, <1>8, <1>9, SendingSpaces
<1> QED BY <1>3, <1>7, <1>8, <1>10, EndsWell

LEMMA OneIsRetried ==
    ASSUME NEW d, Chaseable(d), ChaseFits(d), NEW k \in Chase(d)!Keys, Chase(d)!Retry(k, day)
    PROVE  ChaseFits(d)'
<1>1. reminder[k] # None /\ reminder[k].state = "FAILED"
  BY Zenon DEF Chase!Retry
<1>2. PICK quiet \in BOOLEAN : \E keys \in Chase(d)!Plan(Chase(d)!Now, day, quiet) : \E l \in {m \in keys : m[1] = k[1]} :
         (l # k => reminder[l] = None) /\ \E o \in Chase(d)!Dispatch([Chase(d)!Now EXCEPT !.rows[k] = None], l, day) : Chase(d)!Ends(o)
  BY Zenon DEF Chase!Retry
<1>3. PICK keys \in Chase(d)!Plan(Chase(d)!Now, day, quiet) : \E l \in {m \in keys : m[1] = k[1]} :
         (l # k => reminder[l] = None) /\ \E o \in Chase(d)!Dispatch([Chase(d)!Now EXCEPT !.rows[k] = None], l, day) : Chase(d)!Ends(o)
  BY <1>2
<1>4. PICK s : s = [Chase(d)!Now EXCEPT !.rows[k] = None]
  OBVIOUS
<1>5. PICK l \in keys : \E o \in Chase(d)!Dispatch(s, l, day) : Chase(d)!Ends(o)
  BY <1>3, <1>4
<1>6. PICK o \in Chase(d)!Dispatch(s, l, day) : Chase(d)!Ends(o)
  BY <1>5
<1>7. PICK w : w = Chase(d)!Now
  OBVIOUS
<1>8. day \in Int /\ Sound(d, w, rollbacks) /\ Spaced(d, w) /\ w \in Messages(d) /\ w.got = received /\ w.rows = reminder
  BY <1>7, NowIs, IsTyped DEF ChaseFits
<1>9. PICK rows : rows = [w.rows EXCEPT ![k] = None]
  OBVIOUS
<1>10. rows \in [Chase(d)!Keys -> RowValues] /\ rows[k] = None /\ \A m \in Chase(d)!Keys : m # k => rows[m] = w.rows[m]
  BY <1>8, <1>9 DEF Messages, RowValues
<1>11. s = [rows |-> rows, notes |-> w.notes, got |-> w.got]
  BY <1>4, <1>7, <1>8, <1>9 DEF Messages
<1>12. s \in Messages(d) /\ s.rows = rows /\ s.notes = w.notes /\ s.got = w.got
  BY <1>8, <1>10, <1>11 DEF Messages
<1>13. \A m \in Chase(d)!Keys : Chase(d)!SentAlready(s, m) = Chase(d)!SentAlready(w, m) /\ (Chase(d)!SentAlready(s, m) => s.rows[m] = w.rows[m])
  BY <1>1, <1>8, <1>10, <1>12 DEF Chase!SentAlready
<1>14. Chase(d)!SentToCustomer(s) = Chase(d)!SentToCustomer(w) /\ \A m \in Chase(d)!SentToCustomer(s) : s.rows[m] = w.rows[m]
  BY <1>13, KeysAre DEF Chase!SentToCustomer
<1>15. Sound(d, s, rollbacks)
  BY <1>8, <1>12, <1>13 DEF Sound
<1>16. Spaced(d, s)
  BY <1>8, <1>14 DEF Spaced
<1>17. l \in Chase(d)!Keys /\ (l \in d.bills \X Chase(d)!Rungs => Ready(d, w, l, day))
  BY <1>3, <1>7, <1>8, PlannedIsReady
<1>18. l \in d.bills \X Chase(d)!Rungs => Ready(d, s, l, day)
  BY <1>14, <1>17 DEF Ready, Chase!TooSoon
<1> QED BY <1>6, <1>8, <1>12, <1>15, <1>16, <1>17, <1>18, SendsWell

LEMMA QueuedAreDelivered ==
    ASSUME NEW d, Chaseable(d), ChaseFits(d), Chase(d)!DeliverDue
    PROVE  ChaseFits(d)'
<1>1. PICK s \in Chase(d)!Delivered(Chase(d)!Now) : Chase(d)!Ends(s)
  BY DEF Chase!DeliverDue
<1>2. PICK w : w = Chase(d)!Now
  OBVIOUS
<1>3. PICK n \in Nat : n = rollbacks
  BY DEF ChaseFits
<1>4. Sound(d, w, n) /\ Spaced(d, w)
  BY <1>2, <1>3 DEF ChaseFits
<1>5. Sound(d, s, n) /\ s.rows = w.rows /\ Heard(d, w, s)
  BY <1>1, <1>2, <1>4, DeliveringIsSound
<1>6. Spaced(d, s)
  BY <1>4, <1>5 DEF Spaced, Chase!SentToCustomer, Chase!SentAlready
<1> QED BY <1>1, <1>2, <1>3, <1>5, <1>6, EndsWell

\* What happens meanwhile writes nothing.
LEMMA NothingIsSent ==
    ASSUME NEW d, Chaseable(d), ChaseFits(d), day' \in Int, UNCHANGED <<reminder, note, received, rollbacks>>
    PROVE  ChaseFits(d)'
<1>1. Chase(d)!Now' = Chase(d)!Now
  BY NowIs
<1>2. Sound(d, Chase(d)!Now, rollbacks)' /\ Spaced(d, Chase(d)!Now)'
  BY <1>1 DEF ChaseFits, Sound, Spaced, Chase!SentToCustomer, Chase!SentAlready, Chase!RungOn
<1> QED BY <1>2 DEF ChaseFits

LEMMA ChaseStep ==
    ASSUME NEW d, Chaseable(d), ChaseFits(d), Chase(d)!Next
    PROVE  ChaseFits(d)'
<1>0. day \in Int
  BY DEF ChaseFits
<1>1. ASSUME NEW b, Chase(d)!Send(b, day) PROVE ChaseFits(d)'
  BY <1>1, OneIsSent
<1>2. ASSUME NEW t \in {day, day - 1} \cap Chase(d)!Days, Chase(d)!SendPlanned(t) PROVE ChaseFits(d)'
  BY <1>0, <1>2, AllAreSent
<1>3. ASSUME NEW k \in Chase(d)!Keys, Chase(d)!Retry(k, day) PROVE ChaseFits(d)'
  BY <1>3, OneIsRetried
<1>4. CASE Chase(d)!DeliverDue
  BY <1>4, QueuedAreDelivered
<1>5. ASSUME \/ \E b \in d.bills : Chase(d)!Pay(b) \/ Chase(d)!CancelPromise(b) \/ \E t \in Chase(d)!Days : Chase(d)!RecordPromise(b, t)
             \/ \E b \in d.bills \cup {None} : Chase(d)!RaiseDispute(b) \/ Chase(d)!ResolveDispute(b)
             \/ Chase(d)!OptOut \/ Chase(d)!ResumeReminders \/ Chase(d)!NextDay
      PROVE  ChaseFits(d)'
  <2>1. UNCHANGED <<reminder, note, received, rollbacks>> /\ (day' = day \/ day' = day + 1)
    BY <1>5 DEF Chase!Pay, Chase!CancelPromise, Chase!RecordPromise, Chase!RaiseDispute, Chase!ResolveDispute, Chase!OptOut,
                Chase!ResumeReminders, Chase!NextDay, Chase!Elsewhere
  <2> QED BY <1>0, <2>1, NothingIsSent
<1> QED BY <1>1, <1>2, <1>3, <1>4, <1>5 DEF Chase!Next

LEMMA ChaseFirst == ASSUME NEW d, Chaseable(d), Chase(d)!Init PROVE ChaseFits(d)
<1>1. PICK s : s = Chase(d)!Now
  OBVIOUS
<1>2. /\ s.rows = [k \in Chase(d)!Keys |-> None] /\ s.notes = [k \in Chase(d)!Keys |-> None]
      /\ s.got = [k \in Chase(d)!Keys |-> 0] /\ s = [rows |-> s.rows, notes |-> s.notes, got |-> s.got]
  BY <1>1, NowIs DEF Chase!Init
<1>3. s \in Messages(d)
  BY <1>2 DEF Messages, RowValues, NoteStates
<1>4. \A k \in Chase(d)!Keys : ~Chase(d)!SentAlready(s, k)
  BY <1>2 DEF Chase!SentAlready
<1>5. Sound(d, s, 0)
  BY <1>2, <1>3, <1>4, ChasingAssumption DEF Sound
<1>6. Spaced(d, s)
  BY <1>4, KeysAre DEF Spaced, Chase!SentToCustomer
<1> QED BY <1>1, <1>5, <1>6 DEF ChaseFits, Chase!Init

LEMMA ChasingIsFair ==
    ASSUME NEW d, Chaseable(d), ChaseFits(d)
    PROVE  Chase(d)!OncePerRung /\ Chase(d)!SentIsReceived /\ Chase(d)!NeverTooSoon
<1>1. PICK s : s = Chase(d)!Now
  OBVIOUS
<1>2. s.rows = reminder /\ s.notes = note /\ s.got = received
  BY <1>1, NowIs
<1>3. rollbacks \in Nat /\ Sound(d, s, rollbacks) /\ Spaced(d, s) /\ s \in Messages(d)
  BY <1>1, IsTyped DEF ChaseFits
<1>4. Chase(d)!OncePerRung
  <2> SUFFICES ASSUME NEW k \in Chase(d)!Keys PROVE received[k] <= 1 + rollbacks
    BY DEF Chase!OncePerRung
  <2>1. received[k] \in Nat /\ received[k] <= rollbacks + (IF note[k] = "delivered" THEN 1 ELSE 0)
    BY <1>2, <1>3 DEF Sound, Messages
  <2> QED BY <1>3, <2>1
<1>5. Chase(d)!SentIsReceived
  BY <1>1, <1>2, <1>3 DEF Sound, Chase!SentIsReceived
<1>6. Chase(d)!NeverTooSoon
  BY <1>1, <1>2, <1>3, SpacedInOrder DEF Chase!NeverTooSoon
<1> QED BY <1>4, <1>5, <1>6

ChasesFit == \A c \in DOMAIN Chased : c = case => ChaseFits(Chased[c])

LEMMA ChasesStay == ChasesFit /\ [MCNext]_<<vars, chase, assistant, rollbacks, purchases, imports, case>> => ChasesFit'
<1> SUFFICES ASSUME ChasesFit, [MCNext]_<<vars, chase, assistant, rollbacks, purchases, imports, case>>,
                    NEW c \in DOMAIN Chased, c = case'
             PROVE  ChaseFits(Chased[c])'
  BY DEF ChasesFit
<1>1. case = c
  BY DEF MCNext
<1>2. Chaseable(Chased[c]) /\ ChaseFits(Chased[c]) /\ c # "assistant"
  BY <1>1, ChasingAssumption DEF ChasesFit
<1>3. Chase(Chased[c])!Next \/ UNCHANGED <<chase, rollbacks>>
  BY <1>1, <1>2 DEF MCNext
<1>4. CASE Chase(Chased[c])!Next
  BY <1>2, <1>4, ChaseStep
<1>5. CASE UNCHANGED <<chase, rollbacks>>
  BY <1>2, <1>5, NothingIsSent DEF chase, ChaseFits
<1> QED BY <1>3, <1>4, <1>5

LEMMA ChasesFirst == MCInit => ChasesFit
BY ChaseFirst, ChasingAssumption DEF MCInit, ChasesFit

\* For any customers to chase, with any bills, ladders and gaps, however requests are
\* lost: a message of a bill and rung is received once, but for those that were lost;
\* what is shown as sent was received, and keeps the gap and the order of the rungs
\* (collections/service.ts:376, adapters.ts:103, plan.ts:206).  And for any plans,
\* keys and changes of the books, the assistant does only what a person saw and
\* agreed to, once (action-agent/service.ts:273-329).
THEOREM CustomersAreAlwaysSpared == MCSpec => []CustomersAreSpared
<1>1. MCInit => AssistantFits /\ ChasesFit
  BY AssistantFirst, ChasesFirst
<1>2. AssistantFits /\ ChasesFit /\ [MCNext]_Everything => AssistantFits' /\ ChasesFit'
  BY AssistantStays, ChasesStay DEF Everything
<1>3. AssistantFits /\ ChasesFit => CustomersAreSpared
  BY AssistantKeepsItsWord, ChasingIsFair, ChasingAssumption DEF CustomersAreSpared, ChasesFit
<1> QED BY <1>1, <1>2, <1>3, PTL DEF MCSpec, Everything
=============================================================================
