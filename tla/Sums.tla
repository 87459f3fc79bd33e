-------------------------------- MODULE Sums --------------------------------
(***************************************************************************)
(* What a sum over a finite set obeys, whatever order its fold takes the   *)
(* elements in: the modules sum what every bill holds, what every movement *)
(* brings, with MapThenSumSet.                                             *)
(*                                                                         *)
(* The provers cannot instantiate an induction theorem stated with an      *)
(* operator, so induction is stated here with a set of numbers.            *)
(***************************************************************************)
EXTENDS Integers, FiniteSets, FiniteSetsExt, FiniteSetTheorems, WellFoundedInduction, TLAPS

\* What f gives over S, added up.
SumOver(f, S) == MapThenSumSet(LAMBDA x : f[x], S)

Pick(s) == CHOOSE x \in s : TRUE

\* One step of the fold: an element is picked, the rest is looked up.
StepOf(f, it, s) == IF s = {} THEN 0 ELSE f[Pick(s)] + it[s \ {Pick(s)}]

Iterates(it, f, S) == it = [s \in SUBSET S |-> StepOf(f, it, s)]
Iteration(f, S) == CHOOSE it : Iterates(it, f, S)

\* f starts at base and takes a step to each next number up to n.
Recurs(f, n, base, step) == f = [i \in 0..n |-> IF i = 0 THEN base ELSE step[i][f[i - 1]]]

UpTo(n, S) == {s \in SUBSET S : Cardinality(s) <= n}

-----------------------------------------------------------------------------
\* A set of numbers that has 0 and with every number the next has them all.
LEMMA Induction ==
  ASSUME NEW Good, 0 \in Good, \A n \in Nat : n \in Good => n + 1 \in Good
  PROVE  \A n \in Nat : n \in Good
<1> DEFINE Bad == Nat \ Good
<1>1. SUFFICES ASSUME Bad # {} PROVE FALSE
  OBVIOUS
<1>2. PICK n \in Bad : \A m \in Bad : ~ (<<m, n>> \in OpToRel(<, Nat))
  <2>1. Bad \subseteq Nat
    OBVIOUS
  <2> HIDE DEF Bad
  <2> QED BY <1>1, <2>1, NatLessThanWellFounded, WFMin
<1>3. \A m \in Bad : ~(m < n)
  BY <1>2 DEF OpToRel
<1>4. n # 0 /\ n - 1 \in Nat
  OBVIOUS
<1>5. n - 1 \in Good
  BY <1>3, <1>4
<1> QED BY <1>4, <1>5

\* What is defined step by step from 0 is defined, where every step keeps to a set.
LEMMA Recursion ==
  ASSUME NEW n \in Nat, NEW S, NEW base \in S, NEW step, \A i \in 1..n : \A x \in S : step[i][x] \in S
  PROVE  \E f : Recurs(f, n, base, step) /\ \A i \in 0..n : f[i] \in S
<1> DEFINE Say(f, i) == IF i = 0 THEN base ELSE step[i][f[i - 1]]
           Fits(f, k) == f = [i \in 0..k |-> Say(f, i)] /\ \A i \in 0..k : f[i] \in S
           Good == {k \in Nat : k <= n => \E f : Fits(f, k)}
<1>1. 0 \in Good
  <2> DEFINE f == [i \in 0..0 |-> base]
  <2>1. \A i \in 0..0 : i = 0
    OBVIOUS
  <2>2. f = [i \in 0..0 |-> Say(f, i)]
    BY <2>1
  <2>3. Fits(f, 0)
    BY <2>1, <2>2
  <2> QED BY <2>3
<1>2. ASSUME NEW k \in Nat, k \in Good PROVE k + 1 \in Good
  <2> SUFFICES ASSUME k + 1 <= n PROVE \E f : Fits(f, k + 1)
    OBVIOUS
  <2>1. PICK f : Fits(f, k)
    BY <1>2
  <2> DEFINE more == [i \in 0..k + 1 |-> Say(f, i)]
  <2>2. \A i \in 0..k : i \in 0..k + 1 /\ more[i] = f[i]
    BY <2>1
  <2>3. \A i \in 0..k + 1 : i # 0 => i - 1 \in 0..k /\ i \in 1..n
    OBVIOUS
  <2>4. \A i \in 0..k + 1 : Say(f, i) = Say(more, i)
    <3> HIDE DEF more
    <3> QED BY <2>2, <2>3
  <2>5. more = [i \in 0..k + 1 |-> Say(more, i)]
    <3> DEFINE then == [i \in 0..k + 1 |-> Say(more, i)]
    <3> \A i \in 0..k + 1 : more[i] = then[i]
      BY <2>4, Zenon
    <3> QED BY Zenon
  <2>6. \A i \in 0..k + 1 : more[i] \in S
    <3> TAKE i \in 0..k + 1
    <3>1. i # 0 => f[i - 1] \in S
      BY <2>1, <2>3
    <3>2. Say(f, i) \in S
      BY <2>3, <3>1
    <3> QED BY <3>2
  <2>7. Fits(more, k + 1)
    BY <2>5, <2>6
  <2> HIDE DEF more, Fits
  <2> QED BY <2>7
<1>3. \A k \in Nat : k \in Good
  <2> HIDE DEF Good
  <2> QED BY <1>1, <1>2, Induction
<1>4. PICK f : Fits(f, n)
  BY <1>3
<1>5. Recurs(f, n, base, step) /\ \A i \in 0..n : f[i] \in S
  BY <1>4 DEF Recurs
<1> QED BY <1>5

\* A set less an element it has is one smaller, and a finite set is empty or has one.
LEMMA OneLess ==
  ASSUME NEW s, IsFiniteSet(s), NEW x \in s
  PROVE  IsFiniteSet(s \ {x}) /\ Cardinality(s \ {x}) = Cardinality(s) - 1 /\ Cardinality(s) \in Nat \ {0}
<1>1. Cardinality(s) \in Nat
  BY FS_CardinalityType
<1>2. IsFiniteSet(s \ {x}) /\ Cardinality(s \ {x}) = Cardinality(s) - 1
  BY FS_RemoveElement
<1>3. Cardinality(s \ {x}) \in Nat
  BY <1>2, FS_CardinalityType
<1> QED BY <1>1, <1>2, <1>3

LEMMA Picked == \A s : s # {} => Pick(s) \in s
  BY DEF Pick

\* The fold is defined: up to every size there is a function that obeys its equation.
LEMMA Folds ==
  ASSUME NEW f, NEW S, IsFiniteSet(S)
  PROVE  Iterates(Iteration(f, S), f, S)
<1> DEFINE Fits(it, n) == it = [s \in UpTo(n, S) |-> StepOf(f, it, s)]
           Good == {n \in Nat : \E it : Fits(it, n)}
<1>1. 0 \in Good
  <2>1. \A s \in UpTo(0, S) : s = {}
    <3> TAKE s \in UpTo(0, S)
    <3>1. IsFiniteSet(s) /\ Cardinality(s) <= 0
      BY FS_Subset DEF UpTo
    <3>2. Cardinality(s) \in Nat /\ (Cardinality(s) = 0 <=> s = {})
      BY <3>1, FS_CardinalityType, FS_EmptySet
    <3> QED BY <3>1, <3>2
  <2>2. Fits([s \in UpTo(0, S) |-> 0], 0)
    BY <2>1 DEF StepOf
  <2> QED BY <2>2
<1>2. ASSUME NEW n \in Nat, n \in Good PROVE n + 1 \in Good
  <2>1. PICK it : Fits(it, n)
    BY <1>2
  <2> DEFINE more == [s \in UpTo(n + 1, S) |-> StepOf(f, it, s)]
  <2>2. \A s \in UpTo(n, S) : s \in UpTo(n + 1, S) /\ more[s] = it[s]
    <3> TAKE s \in UpTo(n, S)
    <3>1. Cardinality(s) \in Nat /\ Cardinality(s) <= n
      BY FS_Subset, FS_CardinalityType DEF UpTo
    <3>2. s \in UpTo(n + 1, S)
      BY <3>1 DEF UpTo
    <3> QED BY <3>2, <2>1
  <2>3. \A s \in UpTo(n + 1, S) : s # {} => s \ {Pick(s)} \in UpTo(n, S)
    <3> TAKE s \in UpTo(n + 1, S)
    <3> HAVE s # {}
    <3>1. IsFiniteSet(s) /\ Pick(s) \in s /\ s \subseteq S
      BY FS_Subset, Picked DEF UpTo
    <3>2. Cardinality(s \ {Pick(s)}) = Cardinality(s) - 1 /\ Cardinality(s) \in Nat
      BY <3>1, OneLess
    <3>3. Cardinality(s) <= n + 1
      BY DEF UpTo
    <3> QED BY <3>1, <3>2, <3>3 DEF UpTo
  <2>4. \A s \in UpTo(n + 1, S) : StepOf(f, it, s) = StepOf(f, more, s)
    <3> HIDE DEF more
    <3> QED BY <2>2, <2>3 DEF StepOf
  <2>5. more = [s \in UpTo(n + 1, S) |-> StepOf(f, more, s)]
    <3> DEFINE then == [s \in UpTo(n + 1, S) |-> StepOf(f, more, s)]
    <3> \A s \in UpTo(n + 1, S) : more[s] = then[s]
      BY <2>4, Zenon
    <3> QED BY Zenon
  <2>6. Fits(more, n + 1)
    BY <2>5
  <2> HIDE DEF more, Fits
  <2> QED BY <2>6
<1>3. \A n \in Nat : n \in Good
  <2> HIDE DEF Good
  <2> QED BY <1>1, <1>2, Induction
<1>4. Cardinality(S) \in Nat
  BY FS_CardinalityType
<1>5. UpTo(Cardinality(S), S) = SUBSET S
  BY FS_Subset DEF UpTo
<1>6. PICK it : Fits(it, Cardinality(S))
  BY <1>3, <1>4
<1>7. Iterates(it, f, S)
  BY <1>5, <1>6 DEF Iterates
<1> QED BY <1>7 DEF Iteration

\* Every fold over a finite set is its first element's value and the fold of the rest.
LEMMA Unfold ==
  ASSUME NEW f, NEW S, IsFiniteSet(S)
  PROVE  /\ SumOver(f, S) = Iteration(f, S)[S]
         /\ \A s \in SUBSET S : Iteration(f, S)[s] = StepOf(f, Iteration(f, S), s)
<1>1. SumOver(f, S) = Iteration(f, S)[S]
  BY DEF SumOver, MapThenSumSet, MapThenFoldSet, Iteration, Iterates, StepOf, Pick
<1>2. Iterates(Iteration(f, S), f, S)
  BY Folds
<1>3. \A it : Iterates(it, f, S) => \A s \in SUBSET S : it[s] = StepOf(f, it, s)
  BY DEF Iterates
<1> QED BY <1>1, <1>2, <1>3

\* The fold's function gives every part its sum, whatever set it was defined for.
LEMMA SameFold ==
  ASSUME NEW f, NEW S, IsFiniteSet(S)
  PROVE  \A s \in SUBSET S : Iteration(f, S)[s] = SumOver(f, s)
<1> DEFINE Good == {n \in Nat : \A s, t \in SUBSET S :
                      s \subseteq t /\ Cardinality(s) = n => Iteration(f, S)[s] = Iteration(f, t)[s]}
<1>0. \A s \in SUBSET S : IsFiniteSet(s) /\ Cardinality(s) \in Nat
  BY FS_Subset, FS_CardinalityType
<1>1. 0 \in Good
  <2> SUFFICES ASSUME NEW s \in SUBSET S, NEW t \in SUBSET S, s \subseteq t, Cardinality(s) = 0
               PROVE  Iteration(f, S)[s] = Iteration(f, t)[s]
    OBVIOUS
  <2>1. s = {}
    BY <1>0, FS_EmptySet
  <2>2. Iteration(f, S)[s] = StepOf(f, Iteration(f, S), s)
    BY Unfold
  <2>3. Iteration(f, t)[s] = StepOf(f, Iteration(f, t), s)
    BY <1>0, Unfold
  <2> QED BY <2>1, <2>2, <2>3 DEF StepOf
<1>2. ASSUME NEW n \in Nat, n \in Good PROVE n + 1 \in Good
  <2> SUFFICES ASSUME NEW s \in SUBSET S, NEW t \in SUBSET S, s \subseteq t, Cardinality(s) = n + 1
               PROVE  Iteration(f, S)[s] = Iteration(f, t)[s]
    OBVIOUS
  <2>1. s # {} /\ Pick(s) \in s
    BY FS_EmptySet, Picked
  <2> DEFINE r == s \ {Pick(s)}
  <2>2. r \in SUBSET S /\ r \subseteq t
    OBVIOUS
  <2>6. Cardinality(r) = Cardinality(s) - 1
    BY <1>0, <2>1, OneLess
  <2>7. Cardinality(r) = n
    BY <2>6
  <2>3. Iteration(f, S)[r] = Iteration(f, t)[r]
    BY <1>2, <2>2, <2>7
  <2>4. Iteration(f, S)[s] = f[Pick(s)] + Iteration(f, S)[r]
    <3>1. Iteration(f, S)[s] = StepOf(f, Iteration(f, S), s)
      BY Unfold
    <3> QED BY <2>1, <3>1 DEF StepOf
  <2>5. Iteration(f, t)[s] = f[Pick(s)] + Iteration(f, t)[r]
    <3>1. Iteration(f, t)[s] = StepOf(f, Iteration(f, t), s)
      BY <1>0, Unfold
    <3> QED BY <2>1, <3>1 DEF StepOf
  <2> QED BY <2>3, <2>4, <2>5
<1>3. \A n \in Nat : n \in Good
  <2> HIDE DEF Good
  <2> QED BY <1>1, <1>2, Induction
<1> SUFFICES ASSUME NEW s \in SUBSET S PROVE Iteration(f, S)[s] = Iteration(f, s)[s]
  BY <1>0, Unfold
<1> QED BY <1>0, <1>3

-----------------------------------------------------------------------------
\* Nothing adds up to nothing.
LEMMA SumOfNone == ASSUME NEW f PROVE SumOver(f, {}) = 0
  BY FS_EmptySet, Unfold DEF StepOf

\* The element that is picked is one of the values added.
LEMMA SumPicked ==
  ASSUME NEW f, NEW S, IsFiniteSet(S), S # {}
  PROVE  Pick(S) \in S /\ SumOver(f, S) = f[Pick(S)] + SumOver(f, S \ {Pick(S)})
<1>1. Pick(S) \in S
  BY Picked
<1>2. Iteration(f, S)[S] = f[Pick(S)] + Iteration(f, S)[S \ {Pick(S)}]
  BY Unfold DEF StepOf
<1>3. Iteration(f, S)[S \ {Pick(S)}] = SumOver(f, S \ {Pick(S)})
  BY SameFold
<1> QED BY <1>1, <1>2, <1>3, Unfold

\* Whole numbers add up to a whole number.
LEMMA SumIsInt ==
  ASSUME NEW S, IsFiniteSet(S), NEW f, \A x \in S : f[x] \in Int
  PROVE  SumOver(f, S) \in Int
<1> DEFINE Good == {n \in Nat : \A s \in SUBSET S : Cardinality(s) = n => SumOver(f, s) \in Int}
<1>0. \A s \in SUBSET S : IsFiniteSet(s) /\ Cardinality(s) \in Nat
  BY FS_Subset, FS_CardinalityType
<1>1. 0 \in Good
  BY <1>0, FS_EmptySet, SumOfNone
<1>2. ASSUME NEW n \in Nat, n \in Good PROVE n + 1 \in Good
  <2> SUFFICES ASSUME NEW s \in SUBSET S, Cardinality(s) = n + 1 PROVE SumOver(f, s) \in Int
    OBVIOUS
  <2>1. s # {}
    BY FS_EmptySet
  <2>2. Pick(s) \in s /\ SumOver(f, s) = f[Pick(s)] + SumOver(f, s \ {Pick(s)})
    BY <1>0, <2>1, SumPicked
  <2>3. s \ {Pick(s)} \in SUBSET S /\ Cardinality(s \ {Pick(s)}) = n
    BY <1>0, <2>2, OneLess
  <2>4. SumOver(f, s \ {Pick(s)}) \in Int
    BY <1>2, <2>3
  <2> QED BY <2>2, <2>4
<1>3. \A n \in Nat : n \in Good
  <2> HIDE DEF Good
  <2> QED BY <1>1, <1>2, Induction
<1> QED BY <1>0, <1>3

\* Nothings add up to nothing.
LEMMA SumOfNothings ==
  ASSUME NEW S, IsFiniteSet(S), NEW f, \A x \in S : f[x] = 0
  PROVE  SumOver(f, S) = 0
<1> DEFINE Good == {n \in Nat : \A s \in SUBSET S : Cardinality(s) = n => SumOver(f, s) = 0}
<1>0. \A s \in SUBSET S : IsFiniteSet(s) /\ Cardinality(s) \in Nat
  BY FS_Subset, FS_CardinalityType
<1>1. 0 \in Good
  BY <1>0, FS_EmptySet, SumOfNone
<1>2. ASSUME NEW n \in Nat, n \in Good PROVE n + 1 \in Good
  <2> SUFFICES ASSUME NEW s \in SUBSET S, Cardinality(s) = n + 1 PROVE SumOver(f, s) = 0
    OBVIOUS
  <2>1. s # {}
    BY FS_EmptySet
  <2>2. Pick(s) \in s /\ SumOver(f, s) = f[Pick(s)] + SumOver(f, s \ {Pick(s)})
    BY <1>0, <2>1, SumPicked
  <2>3. s \ {Pick(s)} \in SUBSET S /\ Cardinality(s \ {Pick(s)}) = Cardinality(s) - 1
    BY <1>0, <2>2, OneLess
  <2>4. SumOver(f, s \ {Pick(s)}) = 0
    BY <1>2, <2>3
  <2> QED BY <2>2, <2>4
<1>3. \A n \in Nat : n \in Good
  <2> HIDE DEF Good
  <2> QED BY <1>1, <1>2, Induction
<1> QED BY <1>0, <1>3

\* Any element may be taken first: the order of the fold does not matter.
LEMMA SumSplit ==
  ASSUME NEW S, IsFiniteSet(S), NEW f, \A x \in S : f[x] \in Int, NEW x \in S
  PROVE  SumOver(f, S) = f[x] + SumOver(f, S \ {x})
<1> DEFINE Good == {n \in Nat : \A s \in SUBSET S : Cardinality(s) = n =>
                      \A y \in s : SumOver(f, s) = f[y] + SumOver(f, s \ {y})}
<1>0. \A s \in SUBSET S : IsFiniteSet(s) /\ Cardinality(s) \in Nat /\ SumOver(f, s) \in Int
  BY FS_Subset, FS_CardinalityType, SumIsInt
<1>1. 0 \in Good
  BY <1>0, FS_EmptySet
<1>2. ASSUME NEW n \in Nat, n \in Good PROVE n + 1 \in Good
  <2> SUFFICES ASSUME NEW s \in SUBSET S, Cardinality(s) = n + 1, NEW y \in s
               PROVE  SumOver(f, s) = f[y] + SumOver(f, s \ {y})
    OBVIOUS
  <2>1. PICK z \in s : SumOver(f, s) = f[z] + SumOver(f, s \ {z})
    BY <1>0, SumPicked
  <2>2. CASE z = y
    BY <2>1, <2>2
  <2>3. CASE z # y
    <3>1. s \ {z} \in SUBSET S /\ Cardinality(s \ {z}) = n /\ s \ {y} \in SUBSET S /\ Cardinality(s \ {y}) = n
      BY <1>0, OneLess
    <3>2. SumOver(f, s \ {z}) = f[y] + SumOver(f, (s \ {z}) \ {y})
      BY <1>2, <3>1, <2>3
    <3>3. SumOver(f, s \ {y}) = f[z] + SumOver(f, (s \ {y}) \ {z})
      BY <1>2, <3>1, <2>3
    <3>4. (s \ {z}) \ {y} = (s \ {y}) \ {z} /\ (s \ {y}) \ {z} \in SUBSET S
      OBVIOUS
    <3>5. SumOver(f, (s \ {y}) \ {z}) \in Int /\ f[y] \in Int /\ f[z] \in Int
      BY <1>0, <3>4
    <3>6. SumOver(f, (s \ {z}) \ {y}) = SumOver(f, (s \ {y}) \ {z})
      BY <3>4
    <3> HIDE DEF Good
    <3> QED BY <2>1, <3>2, <3>3, <3>5, <3>6
  <2> QED BY <2>2, <2>3
<1>3. \A n \in Nat : n \in Good
  <2> HIDE DEF Good
  <2> QED BY <1>1, <1>2, Induction
<1> QED BY <1>0, <1>3

\* Functions that agree on a set have the same sum over it.
LEMMA SumAgrees ==
  ASSUME NEW S, IsFiniteSet(S), NEW f, NEW g, \A x \in S : f[x] = g[x]
  PROVE  SumOver(f, S) = SumOver(g, S)
<1> DEFINE Good == {n \in Nat : \A s \in SUBSET S : Cardinality(s) = n => SumOver(f, s) = SumOver(g, s)}
<1>0. \A s \in SUBSET S : IsFiniteSet(s) /\ Cardinality(s) \in Nat
  BY FS_Subset, FS_CardinalityType
<1>1. 0 \in Good
  BY <1>0, FS_EmptySet, SumOfNone
<1>2. ASSUME NEW n \in Nat, n \in Good PROVE n + 1 \in Good
  <2> SUFFICES ASSUME NEW s \in SUBSET S, Cardinality(s) = n + 1 PROVE SumOver(f, s) = SumOver(g, s)
    OBVIOUS
  <2>1. s # {}
    BY FS_EmptySet
  <2>2. /\ Pick(s) \in s
        /\ SumOver(f, s) = f[Pick(s)] + SumOver(f, s \ {Pick(s)})
        /\ SumOver(g, s) = g[Pick(s)] + SumOver(g, s \ {Pick(s)})
    BY <1>0, <2>1, SumPicked
  <2>3. s \ {Pick(s)} \in SUBSET S /\ Cardinality(s \ {Pick(s)}) = n
    BY <1>0, <2>2, OneLess
  <2>4. SumOver(f, s \ {Pick(s)}) = SumOver(g, s \ {Pick(s)})
    BY <1>2, <2>3
  <2> QED BY <2>2, <2>4
<1>3. \A n \in Nat : n \in Good
  <2> HIDE DEF Good
  <2> QED BY <1>1, <1>2, Induction
<1> QED BY <1>0, <1>3

\* When one value changes, the sum changes by as much.
LEMMA SumChanges ==
  ASSUME NEW S, IsFiniteSet(S), NEW x \in S, NEW f, NEW g,
         \A y \in S : f[y] \in Int /\ g[y] \in Int,
         \A y \in S \ {x} : f[y] = g[y]
  PROVE  SumOver(g, S) = SumOver(f, S) - f[x] + g[x] /\ SumOver(f, S) \in Int
<1>1. SumOver(f, S) = f[x] + SumOver(f, S \ {x}) /\ SumOver(g, S) = g[x] + SumOver(g, S \ {x})
  BY SumSplit
<1>2. IsFiniteSet(S \ {x})
  BY FS_RemoveElement
<1>3. SumOver(f, S \ {x}) = SumOver(g, S \ {x})
  BY <1>2, SumAgrees
<1>4. SumOver(f, S) \in Int /\ SumOver(f, S \ {x}) \in Int
  BY <1>2, SumIsInt
<1> QED BY <1>1, <1>3, <1>4

\* What is nowhere negative does not add up to less than one of its values.
LEMMA SumBounds ==
  ASSUME NEW S, IsFiniteSet(S), NEW f, \A x \in S : f[x] \in Nat
  PROVE  SumOver(f, S) \in Nat /\ \A x \in S : f[x] <= SumOver(f, S)
<1> DEFINE Good == {n \in Nat : \A s \in SUBSET S : Cardinality(s) = n => SumOver(f, s) \in Nat}
<1>0. \A s \in SUBSET S : IsFiniteSet(s) /\ Cardinality(s) \in Nat
  BY FS_Subset, FS_CardinalityType
<1>1. 0 \in Good
  BY <1>0, FS_EmptySet, SumOfNone
<1>2. ASSUME NEW n \in Nat, n \in Good PROVE n + 1 \in Good
  <2> SUFFICES ASSUME NEW s \in SUBSET S, Cardinality(s) = n + 1 PROVE SumOver(f, s) \in Nat
    OBVIOUS
  <2>1. s # {}
    BY FS_EmptySet
  <2>2. Pick(s) \in s /\ SumOver(f, s) = f[Pick(s)] + SumOver(f, s \ {Pick(s)})
    BY <1>0, <2>1, SumPicked
  <2>3. s \ {Pick(s)} \in SUBSET S /\ Cardinality(s \ {Pick(s)}) = Cardinality(s) - 1
    BY <1>0, <2>2, OneLess
  <2>4. SumOver(f, s \ {Pick(s)}) \in Nat
    BY <1>2, <2>3
  <2> QED BY <2>2, <2>4
<1>3. \A n \in Nat : n \in Good
  <2> HIDE DEF Good
  <2> QED BY <1>1, <1>2, Induction
<1>4. \A s \in SUBSET S : SumOver(f, s) \in Nat
  BY <1>0, <1>3
<1>5. ASSUME NEW x \in S PROVE f[x] <= SumOver(f, S)
  <2>1. SumOver(f, S) = f[x] + SumOver(f, S \ {x})
    BY SumSplit
  <2>2. SumOver(f, S \ {x}) \in Nat
    BY <1>4
  <2> HIDE DEF Good
  <2> QED BY <2>1, <2>2
<1> QED BY <1>4, <1>5

\* Values that are added pairwise have the sum of the two sums.
LEMMA SumAdds ==
  ASSUME NEW S, IsFiniteSet(S), NEW f, NEW g, NEW h,
         \A x \in S : f[x] \in Int /\ g[x] \in Int /\ h[x] = f[x] + g[x]
  PROVE  SumOver(h, S) = SumOver(f, S) + SumOver(g, S)
<1> DEFINE Good == {n \in Nat : \A s \in SUBSET S : Cardinality(s) = n =>
                      SumOver(h, s) = SumOver(f, s) + SumOver(g, s)}
<1>0. \A s \in SUBSET S : /\ IsFiniteSet(s) /\ Cardinality(s) \in Nat
                          /\ SumOver(f, s) \in Int /\ SumOver(g, s) \in Int
  BY FS_Subset, FS_CardinalityType, SumIsInt
<1>1. 0 \in Good
  <2> SUFFICES ASSUME NEW s \in SUBSET S, Cardinality(s) = 0
               PROVE  SumOver(h, s) = SumOver(f, s) + SumOver(g, s)
    OBVIOUS
  <2>1. s = {}
    BY <1>0, FS_EmptySet
  <2> HIDE DEF Good
  <2> QED BY <2>1, SumOfNone
<1>2. ASSUME NEW n \in Nat, n \in Good PROVE n + 1 \in Good
  <2> SUFFICES ASSUME NEW s \in SUBSET S, Cardinality(s) = n + 1
               PROVE  SumOver(h, s) = SumOver(f, s) + SumOver(g, s)
    OBVIOUS
  <2>1. s # {}
    BY FS_EmptySet
  <2>2. /\ Pick(s) \in s
        /\ SumOver(f, s) = f[Pick(s)] + SumOver(f, s \ {Pick(s)})
        /\ SumOver(g, s) = g[Pick(s)] + SumOver(g, s \ {Pick(s)})
        /\ SumOver(h, s) = h[Pick(s)] + SumOver(h, s \ {Pick(s)})
    BY <1>0, <2>1, SumPicked
  <2>3. s \ {Pick(s)} \in SUBSET S /\ Cardinality(s \ {Pick(s)}) = Cardinality(s) - 1
    BY <1>0, <2>2, OneLess
  <2>4. SumOver(h, s \ {Pick(s)}) = SumOver(f, s \ {Pick(s)}) + SumOver(g, s \ {Pick(s)})
    BY <1>2, <2>3
  <2>5. SumOver(f, s \ {Pick(s)}) \in Int /\ SumOver(g, s \ {Pick(s)}) \in Int
    BY <1>0, <2>3
  <2>6. f[Pick(s)] \in Int /\ g[Pick(s)] \in Int /\ h[Pick(s)] = f[Pick(s)] + g[Pick(s)]
    BY <2>2
  <2> HIDE DEF Good
  <2> QED BY <2>2, <2>4, <2>5, <2>6
<1>3. \A n \in Nat : n \in Good
  <2> HIDE DEF Good
  <2> QED BY <1>1, <1>2, Induction
<1> QED BY <1>0, <1>3

\* Values of opposite sign have the opposite sum.
LEMMA SumNegates ==
  ASSUME NEW S, IsFiniteSet(S), NEW f, NEW g, \A x \in S : f[x] \in Int /\ g[x] = -f[x]
  PROVE  SumOver(g, S) = -SumOver(f, S) /\ SumOver(f, S) \in Int
<1> DEFINE z == [x \in S |-> 0]
<1>1. \A x \in S : g[x] \in Int /\ z[x] = f[x] + g[x]
  OBVIOUS
<1>2. SumOver(z, S) = 0
  BY SumOfNothings
<1>3. SumOver(z, S) = SumOver(f, S) + SumOver(g, S)
  <2> HIDE DEF z
  <2> QED BY <1>1, SumAdds
<1>4. SumOver(f, S) \in Int /\ SumOver(g, S) \in Int
  BY <1>1, SumIsInt
<1> HIDE DEF z
<1> QED BY <1>2, <1>3, <1>4

\* Where the values are nothing the elements may be left out.
LEMMA SumOfPart ==
  ASSUME NEW S, IsFiniteSet(S), NEW f, \A x \in S : f[x] \in Int,
         NEW T \in SUBSET S, \A x \in S \ T : f[x] = 0
  PROVE  SumOver(f, S) = SumOver(f, T)
<1> DEFINE Good == {n \in Nat : \A s \in SUBSET S : Cardinality(s) = n => SumOver(f, s) = SumOver(f, s \cap T)}
<1>0. \A s \in SUBSET S : /\ IsFiniteSet(s) /\ Cardinality(s) \in Nat /\ SumOver(f, s) \in Int
                          /\ s \cap T \in SUBSET S
  BY FS_Subset, FS_CardinalityType, SumIsInt
<1>1. 0 \in Good
  BY <1>0, FS_EmptySet
<1>2. ASSUME NEW n \in Nat, n \in Good PROVE n + 1 \in Good
  <2> SUFFICES ASSUME NEW s \in SUBSET S, Cardinality(s) = n + 1 PROVE SumOver(f, s) = SumOver(f, s \cap T)
    OBVIOUS
  <2>0. s # {}
    BY FS_EmptySet
  <2>1. PICK x \in s : SumOver(f, s) = f[x] + SumOver(f, s \ {x})
    BY <1>0, <2>0, SumPicked
  <2>2. s \ {x} \in SUBSET S /\ Cardinality(s \ {x}) = n
    BY <1>0, OneLess
  <2>3. SumOver(f, s \ {x}) = SumOver(f, (s \ {x}) \cap T)
    BY <1>2, <2>2
  <2>4. CASE x \in T
    <3>1. SumOver(f, s \cap T) = f[x] + SumOver(f, (s \cap T) \ {x})
      BY <1>0, <2>4, SumSplit
    <3>2. (s \cap T) \ {x} = (s \ {x}) \cap T
      OBVIOUS
    <3>3. SumOver(f, (s \cap T) \ {x}) = SumOver(f, (s \ {x}) \cap T)
      BY <3>2
    <3> HIDE DEF Good
    <3> QED BY <2>1, <2>3, <3>1, <3>3
  <2>5. CASE x \notin T
    <3>1. s \cap T = (s \ {x}) \cap T /\ f[x] = 0
      BY <2>5
    <3>3. SumOver(f, s \cap T) = SumOver(f, (s \ {x}) \cap T)
      BY <3>1
    <3>2. SumOver(f, s \ {x}) \in Int
      BY <1>0, <2>2
    <3> HIDE DEF Good
    <3> QED BY <2>1, <2>3, <3>1, <3>2, <3>3
  <2> QED BY <2>4, <2>5
<1>3. \A n \in Nat : n \in Good
  <2> HIDE DEF Good
  <2> QED BY <1>1, <1>2, Induction
<1>4. S \cap T = T
  OBVIOUS
<1>5. Cardinality(S) \in Good
  BY <1>0, <1>3
<1> QED BY <1>4, <1>5

\* A sum may be taken over other names for its elements.
LEMMA SumReindexed ==
  ASSUME NEW S, IsFiniteSet(S), NEW f, NEW g, NEW h,
         \A x \in S : f[x] \in Int /\ g[h[x]] = f[x],
         \A x, y \in S : h[x] = h[y] => x = y
  PROVE  SumOver(g, {h[x] : x \in S}) = SumOver(f, S)
<1> DEFINE Named(s) == {h[x] : x \in s}
           Good == {n \in Nat : \A s \in SUBSET S : Cardinality(s) = n =>
                      IsFiniteSet(Named(s)) /\ SumOver(g, Named(s)) = SumOver(f, s)}
<1>0. \A s \in SUBSET S : IsFiniteSet(s) /\ Cardinality(s) \in Nat
  BY FS_Subset, FS_CardinalityType
<1>1. 0 \in Good
  <2> SUFFICES ASSUME NEW s \in SUBSET S, Cardinality(s) = 0
               PROVE  IsFiniteSet(Named(s)) /\ SumOver(g, Named(s)) = SumOver(f, s)
    OBVIOUS
  <2>1. s = {} /\ Named(s) = {}
    BY <1>0, FS_EmptySet
  <2> QED BY <2>1, SumOfNone, FS_EmptySet
<1>2. ASSUME NEW n \in Nat, n \in Good PROVE n + 1 \in Good
  <2> SUFFICES ASSUME NEW s \in SUBSET S, Cardinality(s) = n + 1
               PROVE  IsFiniteSet(Named(s)) /\ SumOver(g, Named(s)) = SumOver(f, s)
    OBVIOUS
  <2>0. s # {}
    BY FS_EmptySet
  <2>1. PICK x \in s : SumOver(f, s) = f[x] + SumOver(f, s \ {x})
    BY <1>0, <2>0, SumPicked
  <2>2. s \ {x} \in SUBSET S /\ Cardinality(s \ {x}) = n
    BY <1>0, OneLess
  <2>3. IsFiniteSet(Named(s \ {x})) /\ SumOver(g, Named(s \ {x})) = SumOver(f, s \ {x})
    BY <1>2, <2>2
  <2>4. Named(s) \ {h[x]} = Named(s \ {x}) /\ h[x] \in Named(s)
    OBVIOUS
  <2>5. IsFiniteSet(Named(s))
    <3>1. Named(s) = Named(s \ {x}) \cup {h[x]}
      OBVIOUS
    <3> HIDE DEF Named, Good
    <3>2. IsFiniteSet(Named(s \ {x}) \cup {h[x]})
      BY <2>3, FS_AddElement
    <3> QED BY <3>1, <3>2
  <2>6. \A y \in Named(s) : g[y] \in Int
    OBVIOUS
  <2>7. SumOver(g, Named(s)) = g[h[x]] + SumOver(g, Named(s) \ {h[x]})
    <3> HIDE DEF Named, Good
    <3> QED BY <2>4, <2>5, <2>6, SumSplit
  <2>8. g[h[x]] = f[x]
    OBVIOUS
  <2> HIDE DEF Good
  <2> QED BY <2>1, <2>3, <2>4, <2>5, <2>7, <2>8
<1>3. \A n \in Nat : n \in Good
  <2> HIDE DEF Good
  <2> QED BY <1>1, <1>2, Induction
<1>4. Cardinality(S) \in Good
  BY <1>0, <1>3
<1> QED BY <1>4

\* A set in two parts has the sum of the parts.
LEMMA SumParts ==
  ASSUME NEW S, IsFiniteSet(S), NEW f, \A x \in S : f[x] \in Int, NEW T \in SUBSET S
  PROVE  SumOver(f, S) = SumOver(f, T) + SumOver(f, S \ T) /\ SumOver(f, T) \in Int /\ SumOver(f, S \ T) \in Int
<1> DEFINE g == [x \in S |-> IF x \in T THEN f[x] ELSE 0]
           h == [x \in S |-> IF x \in T THEN 0 ELSE f[x]]
<1>1. \A x \in S : g[x] \in Int /\ h[x] \in Int /\ f[x] = g[x] + h[x]
  OBVIOUS
<1>2. (\A x \in S \ T : g[x] = 0) /\ (\A x \in S \ (S \ T) : h[x] = 0)
  OBVIOUS
<1>3. (\A x \in T : f[x] = g[x]) /\ (\A x \in S \ T : f[x] = h[x])
  OBVIOUS
<1> HIDE DEF g, h
<1>4. IsFiniteSet(T) /\ IsFiniteSet(S \ T)
  BY FS_Subset
<1>5. SumOver(f, S) = SumOver(g, S) + SumOver(h, S)
  BY <1>1, SumAdds
<1>6. SumOver(g, S) = SumOver(g, T)
  BY <1>1, <1>2, SumOfPart
<1>7. SumOver(h, S) = SumOver(h, S \ T)
  BY <1>1, <1>2, SumOfPart
<1>8. SumOver(f, T) = SumOver(g, T) /\ SumOver(f, S \ T) = SumOver(h, S \ T)
  BY <1>3, <1>4, SumAgrees
<1>9. SumOver(f, T) \in Int /\ SumOver(f, S \ T) \in Int
  BY <1>4, SumIsInt
<1> QED BY <1>5, <1>6, <1>7, <1>8, <1>9

\* Numbers in rows and columns: the rows' sums and the columns' sums come to the same.
Table(f, S, T) == \A x \in S : \A y \in T : f[x][y] \in Int
Column(f, y, S) == [x \in S |-> f[x][y]]
RowSums(f, S, T) == [x \in S |-> SumOver(f[x], T)]
ColumnSums(f, S, T, s) == [y \in T |-> SumOver(Column(f, y, S), s)]

LEMMA SumsExchange ==
  ASSUME NEW S, IsFiniteSet(S), NEW T, IsFiniteSet(T), NEW f, Table(f, S, T)
  PROVE  SumOver(RowSums(f, S, T), S) = SumOver(ColumnSums(f, S, T, S), T)
<1> DEFINE Good == {n \in Nat : \A s \in SUBSET S : Cardinality(s) = n =>
                      SumOver(RowSums(f, S, T), s) = SumOver(ColumnSums(f, S, T, s), T)}
<1>0. \A s \in SUBSET S : IsFiniteSet(s) /\ Cardinality(s) \in Nat
  BY FS_Subset, FS_CardinalityType
<1>a. \A y \in T : \A x \in S : Column(f, y, S)[x] = f[x][y] /\ Column(f, y, S)[x] \in Int
  BY DEF Column, Table
<1>b. \A y \in T : \A s \in SUBSET S : ColumnSums(f, S, T, s)[y] = SumOver(Column(f, y, S), s) /\ ColumnSums(f, S, T, s)[y] \in Int
  <2> TAKE y \in T
  <2> TAKE s \in SUBSET S
  <2>1. \A x \in s : Column(f, y, S)[x] \in Int
    BY <1>a
  <2>2. SumOver(Column(f, y, S), s) \in Int
    BY <1>0, <2>1, SumIsInt
  <2> QED BY <2>2 DEF ColumnSums
<1>c. \A x \in S : RowSums(f, S, T)[x] = SumOver(f[x], T) /\ RowSums(f, S, T)[x] \in Int
  <2> TAKE x \in S
  <2>1. \A y \in T : f[x][y] \in Int
    BY DEF Table
  <2>2. SumOver(f[x], T) \in Int
    BY <2>1, SumIsInt
  <2> QED BY <2>2 DEF RowSums
<1>1. 0 \in Good
  <2> SUFFICES ASSUME NEW s \in SUBSET S, Cardinality(s) = 0
               PROVE  SumOver(RowSums(f, S, T), s) = SumOver(ColumnSums(f, S, T, s), T)
    OBVIOUS
  <2>1. s = {}
    BY <1>0, FS_EmptySet
  <2>2. \A y \in T : ColumnSums(f, S, T, s)[y] = 0
    BY <1>b, <2>1, SumOfNone
  <2>3. SumOver(ColumnSums(f, S, T, s), T) = 0
    BY <2>2, SumOfNothings
  <2> QED BY <2>1, <2>3, SumOfNone
<1>2. ASSUME NEW n \in Nat, n \in Good PROVE n + 1 \in Good
  <2> SUFFICES ASSUME NEW s \in SUBSET S, Cardinality(s) = n + 1
               PROVE  SumOver(RowSums(f, S, T), s) = SumOver(ColumnSums(f, S, T, s), T)
    OBVIOUS
  <2>0. s # {}
    <3> HIDE DEF Good
    <3>1. Cardinality({}) = 0
      BY FS_EmptySet, Zenon
    <3> QED BY <3>1
  <2>1. PICK x \in s : SumOver(RowSums(f, S, T), s) = RowSums(f, S, T)[x] + SumOver(RowSums(f, S, T), s \ {x})
    <3> HIDE DEF Good
    <3> QED BY <1>0, <2>0, SumPicked
  <2>2. s \ {x} \in SUBSET S /\ Cardinality(s \ {x}) = n /\ x \in S
    <3> HIDE DEF Good
    <3>1. Cardinality(s \ {x}) = Cardinality(s) - 1
      BY <1>0, OneLess, Zenon
    <3> QED BY <3>1
  <2>3. SumOver(RowSums(f, S, T), s \ {x}) = SumOver(ColumnSums(f, S, T, s \ {x}), T)
    BY <1>2, <2>2
  <2> HIDE DEF Good
  <2>4. ASSUME NEW y \in T
        PROVE  /\ f[x][y] \in Int /\ ColumnSums(f, S, T, s \ {x})[y] \in Int
               /\ ColumnSums(f, S, T, s)[y] = f[x][y] + ColumnSums(f, S, T, s \ {x})[y]
    <3>1. IsFiniteSet(s) /\ \A z \in s : Column(f, y, S)[z] \in Int
      BY <1>0, <1>a
    <3>2. SumOver(Column(f, y, S), s) = Column(f, y, S)[x] + SumOver(Column(f, y, S), s \ {x})
      BY <3>1, SumSplit
    <3> QED BY <1>a, <1>b, <2>2, <3>2
  <2>5. SumOver(ColumnSums(f, S, T, s), T) = SumOver(f[x], T) + SumOver(ColumnSums(f, S, T, s \ {x}), T)
    BY <2>4, SumAdds
  <2> QED BY <1>c, <2>1, <2>2, <2>3, <2>5
<1>3. \A n \in Nat : n \in Good
  <2> HIDE DEF Good
  <2> QED BY <1>1, <1>2, Induction
<1>4. Cardinality(S) \in Good
  BY <1>0, <1>3
<1> QED BY <1>4
=============================================================================
