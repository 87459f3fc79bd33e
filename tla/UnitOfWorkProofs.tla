-------------------------- MODULE UnitOfWorkProofs --------------------------
(***************************************************************************)
(* The company lock, the savepoints and the answers of a unit of work, for *)
(* any number of units, companies, connections, writes and nested units.   *)
(***************************************************************************)
EXTENDS UnitOfWork, FiniteSetTheorems, SequenceTheorems, TLAPS

UnderWay(u) == phase[u] \in {"open", "committing"}
Early(u) == phase[u] \in {"idle", "connecting", "locking"}
Unsaved(u) == Early(u) \/ UnderWay(u) \/ phase[u] = "rolledback"

\* What is committed of a unit's writes.
Kept(u) == (UNION {books[c] : c \in Companies}) \cap MadeBy(u)

\* What the savepoints of a stack hold together, the stack whose last one holds
\* X too, and that no two share a write.
Joined(s) == UNION {s[i] : i \in 1 .. Len(s)}
Grown(s, X) == Append(Front(s), Last(s) \cup X)
Disjoint(s) == \A i, j \in 1 .. Len(s) : i # j => s[i] \cap s[j] = {}

\* Who holds a company's lock is a unit of that company, at work, on a live
\* connection; and every such unit holds it.
LockOwned ==
  \A u \in Units, c \in Companies :
    lock[c] = u <=> UnderWay(u) /\ ~dead[u] /\ company[u] = c

\* A unit that has begun has its company, and only an ended one an answer.
UnitShape ==
  \A u \in Units :
    /\ phase[u] # "idle" => company[u] \in Companies
    /\ phase[u] # "told" => answer[u] = "none"
    /\ phase[u] = "idle" => ~dead[u]
    /\ parent[u] # None => u \in Beside

\* A unit's writes are its own and numbered in the order they were made.
WritesNumbered ==
  \A u \in Units :
    /\ IsFiniteSet(made[u])
    /\ made[u] = {<<u, i>> : i \in 1 .. Cardinality(made[u])}
    /\ undone[u] \subseteq made[u]
    /\ Early(u) => made[u] = {}

\* The open savepoints hold what the unit made and has not undone, each write
\* in one of them.
FramesAddUp ==
  \A u \in Units :
    UnderWay(u) =>
      /\ Len(frames[u]) >= 1
      /\ phase[u] = "committing" => Len(frames[u]) = 1
      /\ Disjoint(frames[u])
      /\ Joined(frames[u]) = made[u] \ undone[u]

\* The books have all of a committed unit and nothing of an unsaved one.
BooksFollow ==
  \A u \in Units :
    /\ Unsaved(u) => Kept(u) = {}
    /\ phase[u] = "committed" => Kept(u) = made[u] \ undone[u]

\* Each open connection is one unit's, so they can be counted.
HoldersFinite == IsFiniteSet(Holders)

\* The inductive invariant.  NobodySavesBetween needs LockOwned, because a
\* commit for the company is by the unit that holds its lock; ToldTheTruth
\* needs to know what the books have of a unit in every phase before it is
\* told, which needs what its savepoints hold.
IInv ==
  /\ TypeOK
  /\ LockOwned
  /\ UnitShape
  /\ WritesNumbered
  /\ FramesAddUp
  /\ BooksFollow
  /\ HoldersFinite
  /\ NobodySavesBetween
  /\ ToldTheTruth

-----------------------------------------------------------------------------
\* The stack of savepoints: what popping one and writing into the last do.
LEMMA FrontDrops ==
  ASSUME NEW S, NEW s \in Seq(SUBSET S), Len(s) >= 1
  PROVE  /\ Front(s) \in Seq(SUBSET S)
         /\ Len(Front(s)) = Len(s) - 1
         /\ \A i \in 1 .. Len(s) - 1 : Front(s)[i] = s[i]
         /\ Last(s) \subseteq Joined(s)
         /\ Last(s) \subseteq S
         /\ Disjoint(s) => Disjoint(Front(s)) /\ Joined(Front(s)) = Joined(s) \ Last(s)
  <1>0. Len(s) \in Nat /\ \A i \in 1 .. Len(s) : s[i] \in SUBSET S
    BY LenProperties, ElementOfSeq
  <1> DEFINE n == Len(s) - 1
             f == SubSeq(s, 1, n)
  <1>a. n \in Nat /\ n = Len(s) - 1 /\ Front(s) = f
    BY <1>0 DEF Front
  <1> HIDE DEF n
  <1>b. /\ f \in Seq(SUBSET S)
        /\ Len(f) = IF 1 <= n THEN n - 1 + 1 ELSE 0
        /\ \A i \in 1 .. n - 1 + 1 : f[i] = s[1 + i - 1]
    <2>1. 1 \in Int /\ n \in Int /\ \A i \in 1 .. n : s[i] \in SUBSET S
      BY <1>0, <1>a
    <2> QED BY <2>1, SubSeqProperties
  <1> HIDE DEF f
  <1>1. Front(s) \in Seq(SUBSET S) /\ Len(Front(s)) = Len(s) - 1
    BY <1>a, <1>b
  <1>2. \A i \in 1 .. Len(s) - 1 : Front(s)[i] = s[i]
    BY <1>a, <1>b
  <1>3. Last(s) \subseteq S /\ Last(s) \subseteq Joined(s)
    BY DEF Last, Joined
  <1>4. ASSUME Disjoint(s) PROVE Disjoint(Front(s))
    BY <1>1, <1>2, <1>4 DEF Disjoint
  <1>5. ASSUME Disjoint(s) PROVE Joined(Front(s)) = Joined(s) \ Last(s)
    <2>1. \A i \in 1 .. Len(s) - 1 : s[i] \cap s[Len(s)] = {}
      BY <1>5 DEF Disjoint
    <2>2. Joined(Front(s)) = UNION {s[i] : i \in 1 .. Len(s) - 1}
      BY <1>1, <1>2 DEF Joined
    <2>3. \A x : x \in Joined(s) <=> x \in s[Len(s)] \/ \E i \in 1 .. Len(s) - 1 : x \in s[i]
      BY DEF Joined
    <2> QED BY <2>1, <2>2, <2>3 DEF Last
  <1> QED BY <1>1, <1>2, <1>3, <1>4, <1>5

LEMMA LastGrows ==
  ASSUME NEW S, NEW s \in Seq(SUBSET S), Len(s) >= 1, NEW X \in SUBSET S
  PROVE  /\ Grown(s, X) \in Seq(SUBSET S)
         /\ Len(Grown(s, X)) = Len(s)
         /\ Joined(Grown(s, X)) = Joined(s) \cup X
         /\ Disjoint(s) /\ X \cap Joined(s) = {} => Disjoint(Grown(s, X))
  <1> DEFINE t == Grown(s, X)
  <1>0. /\ Len(s) \in Nat /\ Last(s) \cup X \in SUBSET S
        /\ Front(s) \in Seq(SUBSET S) /\ Len(Front(s)) = Len(s) - 1
        /\ \A i \in 1 .. Len(s) - 1 : Front(s)[i] = s[i]
    <2>1. Len(s) \in Nat BY LenProperties
    <2> QED BY <2>1, FrontDrops
  <1>1. t \in Seq(SUBSET S) /\ Len(t) = Len(s)
    BY <1>0 DEF Grown
  <1>2. \A i \in 1 .. Len(s) - 1 : t[i] = s[i]
    BY <1>0 DEF Grown
  <1>3. t[Len(s)] = s[Len(s)] \cup X
    BY <1>0 DEF Grown, Last
  <1>4. \A i \in 1 .. Len(s) : s[i] \subseteq Joined(s)
    BY DEF Joined
  <1>5. Joined(t) = Joined(s) \cup X
    <2>1. \A x : x \in Joined(s) <=> x \in s[Len(s)] \/ \E i \in 1 .. Len(s) - 1 : x \in s[i]
      BY DEF Joined
    <2>2. \A x : x \in Joined(t) <=> x \in t[Len(s)] \/ \E i \in 1 .. Len(s) - 1 : x \in t[i]
      BY <1>1 DEF Joined
    <2> QED BY <2>1, <2>2, <1>2, <1>3
  <1>6. ASSUME Disjoint(s), X \cap Joined(s) = {} PROVE Disjoint(t)
    <2> SUFFICES ASSUME NEW i \in 1 .. Len(s), NEW j \in 1 .. Len(s), i # j PROVE t[i] \cap t[j] = {}
      BY <1>1 DEF Disjoint
    <2>1. s[i] \cap s[j] = {} BY <1>6 DEF Disjoint
    <2>2. s[i] \cap X = {} /\ s[j] \cap X = {} BY <1>4, <1>6
    <2>3. \A k \in 1 .. Len(s) : t[k] = s[k] \/ (k = Len(s) /\ t[k] = s[k] \cup X)
      BY <1>0, <1>2, <1>3
    <2>4. i # Len(s) \/ j # Len(s) OBVIOUS
    <2> QED BY <2>1, <2>2, <2>3, <2>4
  <1> QED BY <1>1, <1>5, <1>6

LEMMA WriteGrows ==
  ASSUME NEW s \in Seq(SUBSET Writes), Len(s) >= 1, Disjoint(s), NEW w \in Writes, w \notin Joined(s)
  PROVE  /\ Grown(s, {w}) \in Seq(SUBSET Writes)
         /\ Len(Grown(s, {w})) = Len(s)
         /\ Joined(Grown(s, {w})) = Joined(s) \cup {w}
         /\ Disjoint(Grown(s, {w}))
  <1>1. {w} \in SUBSET Writes /\ {w} \cap Joined(s) = {} OBVIOUS
  <1>2. Grown(s, {w}) \in Seq(SUBSET Writes) BY <1>1, LastGrows
  <1>3. Joined(Grown(s, {w})) = Joined(s) \cup {w} /\ Len(Grown(s, {w})) = Len(s) BY <1>1, LastGrows
  <1>4. Disjoint(Grown(s, {w})) BY <1>1, LastGrows
  <1> QED BY <1>2, <1>3, <1>4

\* One step lets at most one unit take a connection.
LEMMA OneConnects ==
  ASSUME HoldersFinite, NEW u, Holders' \subseteq Holders \cup {u}
  PROVE  HoldersFinite'
  <1>1. IsFiniteSet(Holders \cup {u}) BY FS_AddElement DEF HoldersFinite
  <1> QED BY <1>1, FS_Subset DEF HoldersFinite

LEMMA InitIInv == Init => IInv
  <1> SUFFICES ASSUME Init PROVE IInv
    OBVIOUS
  <1> USE UnitOfWorkAssumption DEF Init
  <1>1. TypeOK BY DEF TypeOK, Phases, Answers
  <1>2. LockOwned BY DEF LockOwned, UnderWay
  <1>3. UnitShape BY DEF UnitShape
  <1>4. WritesNumbered
    <2>1. IsFiniteSet({}) /\ Cardinality({}) = 0 BY FS_EmptySet
    <2> QED BY <2>1 DEF WritesNumbered
  <1>5. FramesAddUp BY DEF FramesAddUp, UnderWay
  <1>6. BooksFollow BY DEF BooksFollow, Kept
  <1>7. HoldersFinite
    <2>1. Holders = {} BY DEF Holders, Holding
    <2> QED BY <2>1, FS_EmptySet DEF HoldersFinite
  <1>8. NobodySavesBetween BY DEF NobodySavesBetween
  <1>9. ToldTheTruth BY DEF ToldTheTruth
  <1> QED BY <1>1, <1>2, <1>3, <1>4, <1>5, <1>6, <1>7, <1>8, <1>9 DEF IInv

LEMMA NextIInv == IInv /\ [Next]_vars => IInv'
  <1> SUFFICES ASSUME IInv, [Next]_vars PROVE IInv'
    OBVIOUS
  <1> USE UnitOfWorkAssumption
  <1> USE DEF IInv
  <1>1. ASSUME NEW u \in Units, NEW c \in Companies, Start(u, c) PROVE IInv'
    <2> USE <1>1 DEF Start
    <2>1. TypeOK' BY DEF TypeOK, Phases, Answers
    <2>2. LockOwned' BY DEF LockOwned, UnderWay, TypeOK, UnitShape, Phases
    <2>3. UnitShape' BY DEF UnitShape, TypeOK, Running, Phases
    <2>4. WritesNumbered' BY DEF WritesNumbered, Early, TypeOK
    <2>5. FramesAddUp' BY DEF FramesAddUp, UnderWay, TypeOK
    <2>6. BooksFollow' BY DEF BooksFollow, Unsaved, Early, UnderWay, Kept, TypeOK
    <2>7. HoldersFinite'
      <3>1. Holders' \subseteq Holders \cup {u} BY DEF Holders, Holding, TypeOK
      <3> QED BY <3>1, OneConnects DEF HoldersFinite
    <2>8. NobodySavesBetween' BY DEF NobodySavesBetween, UnderWay, LockOwned, UnitShape, TypeOK
    <2>9. ToldTheTruth' BY DEF ToldTheTruth, BooksFollow, Unsaved, Early, UnderWay, Kept, UnitShape, TypeOK
    <2> QED BY <2>1, <2>2, <2>3, <2>4, <2>5, <2>6, <2>7, <2>8, <2>9
  <1>2. ASSUME NEW p \in Units, NEW u \in Units, NEW c \in Companies, StartBeside(p, u, c) PROVE IInv'
    <2> USE <1>2 DEF StartBeside
    <2>1. TypeOK' BY DEF TypeOK, Phases, Answers
    <2>2. LockOwned' BY DEF LockOwned, UnderWay, TypeOK, UnitShape, Phases
    <2>3. UnitShape' BY DEF UnitShape, TypeOK, Running, Phases
    <2>4. WritesNumbered' BY DEF WritesNumbered, Early, TypeOK
    <2>5. FramesAddUp' BY DEF FramesAddUp, UnderWay, TypeOK
    <2>6. BooksFollow' BY DEF BooksFollow, Unsaved, Early, UnderWay, Kept, TypeOK
    <2>7. HoldersFinite'
      <3>1. Holders' \subseteq Holders \cup {u} BY DEF Holders, Holding, TypeOK
      <3> QED BY <3>1, OneConnects DEF HoldersFinite
    <2>8. NobodySavesBetween' BY DEF NobodySavesBetween, UnderWay, LockOwned, UnitShape, TypeOK
    <2>9. ToldTheTruth' BY DEF ToldTheTruth, BooksFollow, Unsaved, Early, UnderWay, Kept, UnitShape, TypeOK
    <2> QED BY <2>1, <2>2, <2>3, <2>4, <2>5, <2>6, <2>7, <2>8, <2>9
  <1>3. ASSUME NEW u \in Units, Connect(u) PROVE IInv'
    <2> USE <1>3 DEF Connect
    <2>1. TypeOK' BY DEF TypeOK, Phases, Answers
    <2>2. LockOwned' BY DEF LockOwned, UnderWay, TypeOK, UnitShape, Phases
    <2>3. UnitShape' BY DEF UnitShape, TypeOK, Running, Phases
    <2>4. WritesNumbered' BY DEF WritesNumbered, Early, TypeOK
    <2>5. FramesAddUp' BY DEF FramesAddUp, UnderWay, TypeOK
    <2>6. BooksFollow' BY DEF BooksFollow, Unsaved, Early, UnderWay, Kept, TypeOK
    <2>7. HoldersFinite'
      <3>1. Holders' \subseteq Holders \cup {u} BY DEF Holders, Holding, TypeOK
      <3> QED BY <3>1, OneConnects DEF HoldersFinite
    <2>8. NobodySavesBetween' BY DEF NobodySavesBetween, UnderWay, LockOwned, UnitShape, TypeOK
    <2>9. ToldTheTruth' BY DEF ToldTheTruth, BooksFollow, Unsaved, Early, UnderWay, Kept, UnitShape, TypeOK
    <2> QED BY <2>1, <2>2, <2>3, <2>4, <2>5, <2>6, <2>7, <2>8, <2>9
  <1>4. ASSUME NEW u \in Units, ConnectTimeout(u) PROVE IInv'
    <2> USE <1>4 DEF ConnectTimeout, Tell
    <2>k. \A v \in Units : Kept(v)' = Kept(v) BY DEF Kept, MadeBy
    <2>1. TypeOK' BY DEF TypeOK, Phases, Answers
    <2>2. LockOwned' BY DEF LockOwned, UnderWay, TypeOK, UnitShape, Phases
    <2>3. UnitShape' BY DEF UnitShape, TypeOK, Running, Phases
    <2>4. WritesNumbered' BY DEF WritesNumbered, Early, TypeOK
    <2>5. FramesAddUp' BY DEF FramesAddUp, UnderWay, TypeOK
    <2>6. BooksFollow' BY DEF BooksFollow, Unsaved, Early, UnderWay, Kept, TypeOK
    <2>7. HoldersFinite'
      <3>1. Holders' \subseteq Holders \cup {u} BY DEF Holders, Holding, TypeOK
      <3> QED BY <3>1, OneConnects DEF HoldersFinite
    <2>8. NobodySavesBetween' BY DEF NobodySavesBetween, UnderWay, LockOwned, UnitShape, TypeOK
    <2>9. ToldTheTruth'
      <3>1. Kept(u) = {} BY DEF BooksFollow, Unsaved, Early
      <3> QED BY <2>k, <3>1 DEF ToldTheTruth, TypeOK, Kept
    <2> QED BY <2>1, <2>2, <2>3, <2>4, <2>5, <2>6, <2>7, <2>8, <2>9
  <1>5. ASSUME NEW u \in Units, TakeLock(u) PROVE IInv'
    <2> USE <1>5 DEF TakeLock
    <2>f. <<{}>> \in Seq(SUBSET Writes) /\ Len(<<{}>>) = 1 OBVIOUS
    <2>1. TypeOK' BY <2>f DEF TypeOK, Phases, UnitShape
    <2>2. LockOwned' BY DEF LockOwned, UnderWay, TypeOK, UnitShape, Phases
    <2>3. UnitShape' BY DEF UnitShape, TypeOK, Running, Phases
    <2>4. WritesNumbered' BY DEF WritesNumbered, Early, TypeOK
    <2>5. FramesAddUp'
      <3>1. Joined(<<{}>>) = {} /\ Disjoint(<<{}>>) BY DEF Joined, Disjoint
      <3>2. made[u] = {} BY DEF WritesNumbered, Early
      <3> QED BY <2>f, <3>1, <3>2 DEF FramesAddUp, UnderWay, TypeOK
    <2>6. BooksFollow' BY DEF BooksFollow, Unsaved, Early, UnderWay, Kept, TypeOK
    <2>7. HoldersFinite'
      <3>1. Holders' \subseteq Holders \cup {u} BY DEF Holders, Holding, TypeOK
      <3> QED BY <3>1, OneConnects DEF HoldersFinite
    <2>8. NobodySavesBetween' BY DEF NobodySavesBetween, UnderWay, LockOwned, UnitShape, TypeOK
    <2>9. ToldTheTruth' BY DEF ToldTheTruth, BooksFollow, Unsaved, Early, UnderWay, Kept, UnitShape, TypeOK
    <2> QED BY <2>1, <2>2, <2>3, <2>4, <2>5, <2>6, <2>7, <2>8, <2>9
  <1>6. ASSUME NEW u \in Units, LockTimeout(u) PROVE IInv'
    <2> USE <1>6 DEF LockTimeout, Tell
    <2>k. \A v \in Units : Kept(v)' = Kept(v) BY DEF Kept, MadeBy
    <2>1. TypeOK' BY DEF TypeOK, Phases, Answers
    <2>2. LockOwned' BY DEF LockOwned, UnderWay, TypeOK, UnitShape, Phases
    <2>3. UnitShape' BY DEF UnitShape, TypeOK, Running, Phases
    <2>4. WritesNumbered' BY DEF WritesNumbered, Early, TypeOK
    <2>5. FramesAddUp' BY DEF FramesAddUp, UnderWay, TypeOK
    <2>6. BooksFollow' BY DEF BooksFollow, Unsaved, Early, UnderWay, Kept, TypeOK
    <2>7. HoldersFinite'
      <3>1. Holders' \subseteq Holders \cup {u} BY DEF Holders, Holding, TypeOK
      <3> QED BY <3>1, OneConnects DEF HoldersFinite
    <2>8. NobodySavesBetween' BY DEF NobodySavesBetween, UnderWay, LockOwned, UnitShape, TypeOK
    <2>9. ToldTheTruth'
      <3>1. Kept(u) = {} BY DEF BooksFollow, Unsaved, Early
      <3> QED BY <2>k, <3>1 DEF ToldTheTruth, TypeOK, Kept
    <2> QED BY <2>1, <2>2, <2>3, <2>4, <2>5, <2>6, <2>7, <2>8, <2>9
  <1>7. ASSUME NEW u \in Units, Nest(u) PROVE IInv'
    <2> USE <1>7 DEF Nest, Usable, Running
    <2>f. Append(frames[u], {}) \in Seq(SUBSET Writes) /\ Len(Append(frames[u], {})) = Len(frames[u]) + 1
      BY DEF TypeOK
    <2>1. TypeOK' BY <2>f DEF TypeOK
    <2>2. LockOwned' BY DEF LockOwned, UnderWay, TypeOK, UnitShape, Phases
    <2>3. UnitShape' BY DEF UnitShape, TypeOK, Running, Phases
    <2>4. WritesNumbered' BY DEF WritesNumbered, Early, TypeOK
    <2>5. FramesAddUp'
      <3> DEFINE s == frames[u]
                 t == Append(s, {})
      <3>1. s \in Seq(SUBSET Writes) BY DEF TypeOK
      <3>2. (\A i \in 1 .. Len(s) : t[i] = s[i]) /\ t[Len(s) + 1] = {} BY <3>1
      <3>3. Joined(t) = Joined(s) BY <2>f, <3>1, <3>2 DEF Joined
      <3>4. Disjoint(s) => Disjoint(t) BY <2>f, <3>1, <3>2 DEF Disjoint
      <3>5. frames' = [frames EXCEPT ![u] = t] OBVIOUS
      <3> HIDE DEF t
      <3> QED BY <2>f, <3>1, <3>3, <3>4, <3>5 DEF FramesAddUp, UnderWay, TypeOK, t
    <2>6. BooksFollow' BY DEF BooksFollow, Unsaved, Early, UnderWay, Kept, TypeOK
    <2>7. HoldersFinite'
      <3>1. Holders' \subseteq Holders \cup {u} BY DEF Holders, Holding, TypeOK
      <3> QED BY <3>1, OneConnects DEF HoldersFinite
    <2>8. NobodySavesBetween' BY DEF NobodySavesBetween, UnderWay, LockOwned, UnitShape, TypeOK
    <2>9. ToldTheTruth' BY DEF ToldTheTruth, BooksFollow, Unsaved, Early, UnderWay, Kept, UnitShape, TypeOK
    <2> QED BY <2>1, <2>2, <2>3, <2>4, <2>5, <2>6, <2>7, <2>8, <2>9
  <1>8. ASSUME NEW u \in Units, Write(u) PROVE IInv'
    <2> USE <1>8 DEF Write, Usable, Running
    <2>0. PICK n, w, s, t : /\ n = Cardinality(made[u]) /\ w = <<u, n + 1>>
                            /\ s = frames[u] /\ t = Grown(s, {w})
      OBVIOUS
    <2>a. n \in Nat /\ w \in Writes /\ w \in MadeBy(u)
      BY <2>0, FS_CardinalityType DEF WritesNumbered, Writes, MadeBy
    <2>b. w \notin made[u] /\ w \notin undone[u]
      BY <2>0, <2>a DEF WritesNumbered
    <2>c. s \in Seq(SUBSET Writes) /\ Len(s) >= 1 /\ Disjoint(s) /\ Joined(s) = made[u] \ undone[u]
      BY <2>0 DEF TypeOK, FramesAddUp, UnderWay
    <2>d. t \in Seq(SUBSET Writes) /\ Len(t) = Len(s) /\ Joined(t) = Joined(s) \cup {w} /\ Disjoint(t)
      <3>1. w \notin Joined(s) BY <2>b, <2>c
      <3> HIDE <1>8
      <3>2. Grown(s, {w}) \in Seq(SUBSET Writes) /\ Len(Grown(s, {w})) = Len(s)
        BY <2>a, <2>c, <3>1, WriteGrows
      <3>3. Joined(Grown(s, {w})) = Joined(s) \cup {w} /\ Disjoint(Grown(s, {w}))
        BY <2>a, <2>c, <3>1, WriteGrows
      <3> QED BY <2>0, <3>2, <3>3
    <2>e. frames' = [frames EXCEPT ![u] = t] /\ made' = [made EXCEPT ![u] = @ \cup {w}]
      BY <2>0 DEF Grown
    <2>k. \A v \in Units : Kept(v)' = Kept(v) BY DEF Kept, MadeBy
    <2>1. TypeOK'
      <3> HIDE <1>8
      <3>1. frames' \in [Units -> Seq(SUBSET Writes)] BY <2>d, <2>e DEF TypeOK
      <3>2. made' \in [Units -> SUBSET Writes] BY <2>a, <2>e DEF TypeOK
      <3>3. \A v \in Units : Len(frames'[v]) = Len(frames[v]) BY <2>0, <2>d, <2>e DEF TypeOK
      <3> QED BY <1>8, <3>1, <3>2, <3>3 DEF TypeOK
    <2>2. LockOwned' BY DEF LockOwned, UnderWay, TypeOK, UnitShape, Phases
    <2>3. UnitShape' BY DEF UnitShape, TypeOK, Running, Phases
    <2>4. WritesNumbered'
      <3>1. IsFiniteSet(made[u] \cup {w}) /\ Cardinality(made[u] \cup {w}) = n + 1
        BY <2>0, <2>b, FS_AddElement DEF WritesNumbered
      <3>2. made[u] = {<<u, i>> : i \in 1 .. n} BY <2>0 DEF WritesNumbered
      <3>3. made[u] \cup {w} = {<<u, i>> : i \in 1 .. n + 1}
        <4> HIDE <1>8
        <4>1. \A i : i \in 1 .. n + 1 <=> i \in 1 .. n \/ i = n + 1 BY <2>a
        <4> QED BY <2>0, <3>2, <4>1
      <3>4. made'[u] = made[u] \cup {w} /\ \A v \in Units : v # u => made'[v] = made[v]
        BY <2>e DEF TypeOK
      <3>5. phase' = phase /\ undone' = undone /\ ~Early(u) BY DEF Early
      <3>6. undone[u] \subseteq made[u] BY DEF WritesNumbered
      <3> HIDE <1>8
      <3>7. ASSUME NEW v \in Units PROVE
              /\ IsFiniteSet(made'[v]) /\ made'[v] = {<<v, i>> : i \in 1 .. Cardinality(made'[v])}
              /\ undone'[v] \subseteq made'[v] /\ (Early(v)' => made'[v] = {})
        <4>1. CASE v = u BY <3>1, <3>3, <3>4, <3>5, <3>6, <4>1 DEF Early
        <4>2. CASE v # u BY <3>4, <3>5, <4>2 DEF Early, WritesNumbered
        <4> QED BY <4>1, <4>2
      <3>8. \A v \in Units :
              /\ IsFiniteSet(made'[v]) /\ made'[v] = {<<v, i>> : i \in 1 .. Cardinality(made'[v])}
              /\ undone'[v] \subseteq made'[v] /\ (Early(v)' => made'[v] = {})
        BY <3>7
      <3> QED BY <3>8 DEF WritesNumbered
    <2>5. FramesAddUp'
      <3>1. /\ \A v \in Units : v # u => frames'[v] = frames[v] /\ made'[v] = made[v]
            /\ frames'[u] = t /\ made'[u] = made[u] \cup {w}
        BY <2>e DEF TypeOK
      <3>2. phase' = phase /\ undone' = undone /\ phase[u] = "open" OBVIOUS
      <3> HIDE <1>8
      <3>3. Joined(t) = made'[u] \ undone'[u] BY <2>b, <2>c, <2>d, <3>1, <3>2
      <3> QED BY <2>c, <2>d, <3>1, <3>2, <3>3 DEF FramesAddUp, UnderWay
    <2>6. BooksFollow' BY <2>e, <2>k DEF BooksFollow, Unsaved, Early, UnderWay, TypeOK
    <2>7. HoldersFinite'
      <3>1. Holders' \subseteq Holders \cup {u} BY DEF Holders, Holding, TypeOK
      <3> QED BY <3>1, OneConnects DEF HoldersFinite
    <2>8. NobodySavesBetween' BY DEF NobodySavesBetween, UnderWay, LockOwned, UnitShape, TypeOK
    <2>9. ToldTheTruth'
      <3>1. answer[u] = "none" /\ answer' = answer /\ dead' = dead /\ undone' = undone BY DEF UnitShape
      <3>2. \A v \in Units : v # u => made'[v] = made[v] BY <2>e DEF TypeOK
      <3> HIDE <1>8
      <3> QED BY <2>k, <3>1, <3>2 DEF ToldTheTruth, Kept
    <2> QED BY <2>1, <2>2, <2>3, <2>4, <2>5, <2>6, <2>7, <2>8, <2>9
  <1>9. ASSUME NEW u \in Units, StatementFails(u) PROVE IInv'
    <2> USE <1>9 DEF StatementFails
    <2>1. TypeOK' BY DEF TypeOK, Phases, Answers
    <2>2. LockOwned' BY DEF LockOwned, UnderWay, TypeOK, UnitShape, Phases
    <2>3. UnitShape' BY DEF UnitShape, TypeOK, Running, Phases
    <2>4. WritesNumbered' BY DEF WritesNumbered, Early, TypeOK
    <2>5. FramesAddUp' BY DEF FramesAddUp, UnderWay, TypeOK
    <2>6. BooksFollow' BY DEF BooksFollow, Unsaved, Early, UnderWay, Kept, TypeOK
    <2>7. HoldersFinite'
      <3>1. Holders' \subseteq Holders \cup {u} BY DEF Holders, Holding, TypeOK
      <3> QED BY <3>1, OneConnects DEF HoldersFinite
    <2>8. NobodySavesBetween' BY DEF NobodySavesBetween, UnderWay, LockOwned, UnitShape, TypeOK
    <2>9. ToldTheTruth' BY DEF ToldTheTruth, BooksFollow, Unsaved, Early, UnderWay, Kept, UnitShape, TypeOK
    <2> QED BY <2>1, <2>2, <2>3, <2>4, <2>5, <2>6, <2>7, <2>8, <2>9
  <1>10. ASSUME NEW u \in Units, FrameReturns(u) PROVE IInv'
    <2> USE <1>10 DEF FrameReturns, Usable, Running
    <2>0. PICK s, f, t : s = frames[u] /\ f = Front(s) /\ t = Grown(f, Last(s))
      OBVIOUS
    <2>a. s \in Seq(SUBSET Writes) /\ Len(s) > 1 /\ Len(s) >= 1 /\ Disjoint(s) /\ Joined(s) = made[u] \ undone[u]
      BY <2>0 DEF TypeOK, FramesAddUp, UnderWay
    <2>b. /\ f \in Seq(SUBSET Writes) /\ Len(f) = Len(s) - 1 /\ Disjoint(f) /\ Joined(f) = Joined(s) \ Last(s)
          /\ Last(s) \in SUBSET Writes /\ Last(s) \subseteq Joined(s)
      BY <2>0, <2>a, FrontDrops
    <2>c. t \in Seq(SUBSET Writes) /\ Len(t) = Len(s) - 1 /\ Joined(t) = Joined(s) /\ Disjoint(t)
      <3>1. Len(f) >= 1 /\ Last(s) \cap Joined(f) = {} BY <2>a, <2>b
      <3>2. Len(t) = Len(f) /\ t \in Seq(SUBSET Writes) /\ Joined(t) = Joined(f) \cup Last(s) /\ Disjoint(t)
        <4> HIDE <1>10
        <4>1. Len(Grown(f, Last(s))) = Len(f) BY <2>b, <3>1, LastGrows
        <4>2. Grown(f, Last(s)) \in Seq(SUBSET Writes) BY <2>b, <3>1, LastGrows
        <4>3. Joined(Grown(f, Last(s))) = Joined(f) \cup Last(s)
          <5>1. f \in Seq(SUBSET Writes) /\ Len(f) >= 1 /\ Last(s) \in SUBSET Writes BY <2>b, <3>1
          <5> QED BY <5>1, LastGrows
        <4>4. Disjoint(Grown(f, Last(s))) BY <2>b, <3>1, LastGrows
        <4> QED BY <2>0, <4>1, <4>2, <4>3, <4>4
      <3> QED BY <2>b, <3>2
    <2>d. frames' = [frames EXCEPT ![u] = t]
      BY <2>0 DEF Grown
    <2>1. TypeOK'
      <3>1. frames' \in [Units -> Seq(SUBSET Writes)]
        <4> HIDE <1>10
        <4> QED BY <2>c, <2>d DEF TypeOK
      <3>2. \A v \in Units : Len(frames'[v]) <= Len(frames[v])
        <4> HIDE <1>10
        <4> QED BY <2>0, <2>a, <2>c, <2>d DEF TypeOK
      <3>3. \A v \in Units : Len(frames'[v]) \in Nat /\ Len(frames[v]) \in Nat
        BY <3>1, LenProperties DEF TypeOK
      <3> QED BY <3>1, <3>2, <3>3 DEF TypeOK
    <2>2. LockOwned' BY DEF LockOwned, UnderWay, TypeOK, UnitShape, Phases
    <2>3. UnitShape' BY DEF UnitShape, TypeOK, Running, Phases
    <2>4. WritesNumbered' BY DEF WritesNumbered, Early, TypeOK
    <2>5. FramesAddUp'
      <3>1. (\A v \in Units : v # u => frames'[v] = frames[v]) /\ frames'[u] = t
        BY <2>d DEF TypeOK
      <3>2. phase' = phase /\ made' = made /\ undone' = undone /\ phase[u] = "open" OBVIOUS
      <3> HIDE <1>10
      <3> QED BY <2>0, <2>a, <2>c, <3>1, <3>2 DEF FramesAddUp, UnderWay
    <2>6. BooksFollow' BY DEF BooksFollow, Unsaved, Early, UnderWay, Kept, TypeOK
    <2>7. HoldersFinite'
      <3>1. Holders' \subseteq Holders \cup {u} BY DEF Holders, Holding, TypeOK
      <3> QED BY <3>1, OneConnects DEF HoldersFinite
    <2>8. NobodySavesBetween' BY DEF NobodySavesBetween, UnderWay, LockOwned, UnitShape, TypeOK
    <2>9. ToldTheTruth' BY DEF ToldTheTruth, BooksFollow, Unsaved, Early, UnderWay, Kept, UnitShape, TypeOK
    <2> QED BY <2>1, <2>2, <2>3, <2>4, <2>5, <2>6, <2>7, <2>8, <2>9
  <1>11. ASSUME NEW u \in Units, FrameFails(u) PROVE IInv'
    <2> USE <1>11 DEF FrameFails, Running
    <2> DEFINE s == frames[u]
    <2>a. s \in Seq(SUBSET Writes) /\ Len(s) > 1 /\ Len(s) >= 1 /\ Disjoint(s) /\ Joined(s) = made[u] \ undone[u]
      BY DEF TypeOK, FramesAddUp, UnderWay
    <2>b. /\ Front(s) \in Seq(SUBSET Writes) /\ Len(Front(s)) = Len(s) - 1
          /\ Disjoint(Front(s)) /\ Joined(Front(s)) = Joined(s) \ Last(s)
          /\ Last(s) \subseteq Writes /\ Last(s) \subseteq Joined(s)
      <3> HIDE <1>11
      <3> HIDE DEF s
      <3> QED BY <2>a, FrontDrops
    <2>1. TypeOK' BY <2>a, <2>b DEF TypeOK
    <2>2. LockOwned' BY DEF LockOwned, UnderWay
    <2>3. UnitShape' BY DEF UnitShape, TypeOK, Running, Phases
    <2>4. WritesNumbered' BY <2>a, <2>b DEF WritesNumbered, Early, TypeOK
    <2>5. FramesAddUp' BY <2>a, <2>b DEF FramesAddUp, UnderWay, TypeOK
    <2>6. BooksFollow' BY DEF BooksFollow, Unsaved, Early, UnderWay, Kept, TypeOK
    <2>7. HoldersFinite'
      <3>1. Holders' \subseteq Holders \cup {u} BY DEF Holders, Holding, TypeOK
      <3> QED BY <3>1, OneConnects DEF HoldersFinite
    <2>8. NobodySavesBetween' BY DEF NobodySavesBetween, UnderWay, LockOwned, UnitShape, TypeOK
    <2>9. ToldTheTruth' BY DEF ToldTheTruth, BooksFollow, Unsaved, Early, UnderWay, Kept, UnitShape, TypeOK
    <2> QED BY <2>1, <2>2, <2>3, <2>4, <2>5, <2>6, <2>7, <2>8, <2>9
  <1>12. ASSUME NEW u \in Units, WorkReturns(u) PROVE IInv'
    <2> USE <1>12 DEF WorkReturns, Running
    <2>1. TypeOK' BY DEF TypeOK, Phases, Answers
    <2>2. LockOwned' BY DEF LockOwned, UnderWay, TypeOK, UnitShape, Phases
    <2>3. UnitShape' BY DEF UnitShape, TypeOK, Running, Phases
    <2>4. WritesNumbered' BY DEF WritesNumbered, Early, TypeOK
    <2>5. FramesAddUp' BY DEF FramesAddUp, UnderWay, TypeOK
    <2>6. BooksFollow' BY DEF BooksFollow, Unsaved, Early, UnderWay, Kept, TypeOK
    <2>7. HoldersFinite'
      <3>1. Holders' \subseteq Holders \cup {u} BY DEF Holders, Holding, TypeOK
      <3> QED BY <3>1, OneConnects DEF HoldersFinite
    <2>8. NobodySavesBetween' BY DEF NobodySavesBetween, UnderWay, LockOwned, UnitShape, TypeOK
    <2>9. ToldTheTruth' BY DEF ToldTheTruth, BooksFollow, Unsaved, Early, UnderWay, Kept, UnitShape, TypeOK
    <2> QED BY <2>1, <2>2, <2>3, <2>4, <2>5, <2>6, <2>7, <2>8, <2>9
  <1>13. ASSUME NEW u \in Units, WorkThrows(u) PROVE IInv'
    <2> USE <1>13 DEF WorkThrows, Running, Tell, LockAfter
    <2>1. TypeOK' BY DEF TypeOK, Phases, Answers
    <2>2. LockOwned' BY DEF LockOwned, UnderWay, TypeOK, UnitShape, Phases
    <2>3. UnitShape' BY DEF UnitShape, TypeOK, Running, Phases
    <2>4. WritesNumbered' BY DEF WritesNumbered, Early, TypeOK
    <2>5. FramesAddUp' BY DEF FramesAddUp, UnderWay, TypeOK
    <2>6. BooksFollow' BY DEF BooksFollow, Unsaved, Early, UnderWay, Kept, TypeOK
    <2>7. HoldersFinite'
      <3>1. Holders' \subseteq Holders \cup {u} BY DEF Holders, Holding, TypeOK
      <3> QED BY <3>1, OneConnects DEF HoldersFinite
    <2>8. NobodySavesBetween' BY DEF NobodySavesBetween, UnderWay, LockOwned, UnitShape, TypeOK
    <2>9. ToldTheTruth' BY DEF ToldTheTruth, BooksFollow, Unsaved, Early, UnderWay, Kept, UnitShape, TypeOK
    <2> QED BY <2>1, <2>2, <2>3, <2>4, <2>5, <2>6, <2>7, <2>8, <2>9
  <1>14. ASSUME NEW u \in Units, ServerCommits(u) PROVE IInv'
    <2> USE <1>14 DEF ServerCommits, LockAfter
    <2>a. Len(frames[u]) = 1 /\ Last(frames[u]) = made[u] \ undone[u] /\ made[u] \subseteq MadeBy(u)
      <3>1. frames[u] \in Seq(SUBSET Writes) /\ Len(frames[u]) = 1 /\ Joined(frames[u]) = made[u] \ undone[u]
        BY DEF FramesAddUp, UnderWay, TypeOK
      <3>2. Joined(frames[u]) = Last(frames[u]) BY <3>1 DEF Joined, Last
      <3> QED BY <3>1, <3>2 DEF WritesNumbered, TypeOK, MadeBy
    <2>b. company[u] \in Companies /\ Kept(u) = {}
      BY DEF UnitShape, BooksFollow, Unsaved, UnderWay
    <2>k. \A v \in Units : Kept(v)' = IF v = u /\ ~aborted[u] THEN made[u] \ undone[u] ELSE Kept(v)
      <3>1. CASE aborted[u] BY <3>1 DEF Kept, MadeBy
      <3>2. CASE ~aborted[u]
        <4> DEFINE new == made[u] \ undone[u]
        <4>1. \A c \in Companies : books'[c] = IF c = company[u] THEN books[c] \cup new ELSE books[c]
          BY <2>a, <3>2 DEF TypeOK
        <4> HIDE DEF new
        <4>2. UNION {books'[c] : c \in Companies} = (UNION {books[c] : c \in Companies}) \cup new
          <5>1. \A x : x \in UNION {books'[c] : c \in Companies} <=> \E c \in Companies : x \in books'[c]
            OBVIOUS
          <5>2. \A x : x \in UNION {books[c] : c \in Companies} <=> \E c \in Companies : x \in books[c]
            OBVIOUS
          <5>3. \A x : (\E c \in Companies : x \in books'[c]) <=> (\E c \in Companies : x \in books[c]) \/ x \in new
            <6> HIDE <1>14
            <6> QED BY <2>b, <4>1
          <5> QED BY <5>1, <5>2, <5>3
        <4>3. \A v \in Units : v # u => MadeBy(v) \cap new = {}
          BY <2>a DEF MadeBy, new
        <4>4. new \subseteq MadeBy(u) BY <2>a DEF new
        <4>5. \A v \in Units : Kept(v)' = Kept(v) \cup (new \cap MadeBy(v))
          <5>1. \A v \in Units : MadeBy(v)' = MadeBy(v) BY DEF MadeBy
          <5> QED BY <4>2, <5>1 DEF Kept
        <4> QED BY <2>b, <3>2, <4>3, <4>4, <4>5 DEF new
      <3> QED BY <3>1, <3>2
    <2>1. TypeOK'
      <3>1. books' \in [Companies -> SUBSET Writes]
        <4>1. Last(frames[u]) \subseteq Writes BY <2>a DEF TypeOK
        <4> QED BY <2>b, <4>1 DEF TypeOK
      <3>2. lock' \in [Companies -> Units \cup {None}] BY DEF TypeOK
      <3>3. phase' \in [Units -> Phases] BY DEF TypeOK, Phases
      <3> QED BY <3>1, <3>2, <3>3 DEF TypeOK
    <2>2. LockOwned' BY DEF LockOwned, UnderWay, TypeOK, UnitShape, Phases
    <2>3. UnitShape' BY DEF UnitShape, TypeOK, Running, Phases
    <2>4. WritesNumbered' BY DEF WritesNumbered, Early, TypeOK
    <2>5. FramesAddUp' BY DEF FramesAddUp, UnderWay, TypeOK
    <2>6. BooksFollow' BY <2>k DEF BooksFollow, Unsaved, Early, UnderWay, TypeOK
    <2>7. HoldersFinite'
      <3>1. Holders' \subseteq Holders \cup {u} BY DEF Holders, Holding, TypeOK
      <3> QED BY <3>1, OneConnects DEF HoldersFinite
    <2>8. NobodySavesBetween' BY DEF NobodySavesBetween, UnderWay, LockOwned, UnitShape, TypeOK
    <2>9. ToldTheTruth' BY <2>k DEF ToldTheTruth, UnitShape, TypeOK, Kept
    <2> QED BY <2>1, <2>2, <2>3, <2>4, <2>5, <2>6, <2>7, <2>8, <2>9
  <1>15. ASSUME NEW u \in Units, Answered(u) PROVE IInv'
    <2> USE <1>15 DEF Answered, Tell
    <2>k. \A v \in Units : Kept(v)' = Kept(v) BY DEF Kept, MadeBy
    <2>1. TypeOK' BY DEF TypeOK, Phases, Answers
    <2>2. LockOwned' BY DEF LockOwned, UnderWay, TypeOK, UnitShape, Phases
    <2>3. UnitShape' BY DEF UnitShape, TypeOK, Running, Phases
    <2>4. WritesNumbered' BY DEF WritesNumbered, Early, TypeOK
    <2>5. FramesAddUp' BY DEF FramesAddUp, UnderWay, TypeOK
    <2>6. BooksFollow' BY DEF BooksFollow, Unsaved, Early, UnderWay, Kept, TypeOK
    <2>7. HoldersFinite'
      <3>1. Holders' \subseteq Holders \cup {u} BY DEF Holders, Holding, TypeOK
      <3> QED BY <3>1, OneConnects DEF HoldersFinite
    <2>8. NobodySavesBetween' BY DEF NobodySavesBetween, UnderWay, LockOwned, UnitShape, TypeOK
    <2>9. ToldTheTruth'
      <3> USE DEF TypeOK
      <3>1. phase[u] = "committed" => Kept(u) = made[u] \ undone[u] BY DEF BooksFollow
      <3>2. phase[u] # "committed" => Kept(u) = {}
        BY DEF BooksFollow, Unsaved, Early, UnderWay, Holding
      <3>3. answer'[u] = (IF phase[u] = "committed" /\ ~dead[u] THEN "saved" ELSE "error")
        OBVIOUS
      <3>4. \A v \in Units : v # u => answer'[v] = answer[v] OBVIOUS
      <3> QED BY <2>k, <3>1, <3>2, <3>3, <3>4 DEF ToldTheTruth, Kept
    <2> QED BY <2>1, <2>2, <2>3, <2>4, <2>5, <2>6, <2>7, <2>8, <2>9
  <1>16. ASSUME NEW u \in Units, ConnectionEnds(u) PROVE IInv'
    <2> USE <1>16 DEF ConnectionEnds, LockAfter
    <2>1. TypeOK' BY DEF TypeOK, Phases, Answers
    <2>2. LockOwned' BY DEF LockOwned, UnderWay, TypeOK, UnitShape, Phases
    <2>3. UnitShape' BY DEF UnitShape, TypeOK, Holding
    <2>4. WritesNumbered' BY DEF WritesNumbered, Early, TypeOK
    <2>5. FramesAddUp' BY DEF FramesAddUp, UnderWay, TypeOK
    <2>6. BooksFollow' BY DEF BooksFollow, Unsaved, Early, UnderWay, Kept, TypeOK
    <2>7. HoldersFinite'
      <3>1. Holders' \subseteq Holders \cup {u} BY DEF Holders, Holding, TypeOK
      <3> QED BY <3>1, OneConnects DEF HoldersFinite
    <2>8. NobodySavesBetween' BY DEF NobodySavesBetween, UnderWay, LockOwned, UnitShape, TypeOK
    <2>9. ToldTheTruth' BY DEF ToldTheTruth, BooksFollow, Unsaved, Early, UnderWay, Kept, UnitShape, TypeOK
    <2> QED BY <2>1, <2>2, <2>3, <2>4, <2>5, <2>6, <2>7, <2>8, <2>9
  <1>17. ASSUME UNCHANGED vars PROVE IInv'
    <2> USE <1>17 DEF vars
    <2>1. TypeOK' BY DEF TypeOK, Phases, Answers
    <2>2. LockOwned' BY DEF LockOwned, UnderWay, TypeOK, UnitShape, Phases
    <2>3. UnitShape' BY DEF UnitShape, TypeOK, Running, Phases
    <2>4. WritesNumbered' BY DEF WritesNumbered, Early, TypeOK
    <2>5. FramesAddUp' BY DEF FramesAddUp, UnderWay, TypeOK
    <2>6. BooksFollow' BY DEF BooksFollow, Unsaved, Early, UnderWay, Kept, TypeOK
    <2>7. HoldersFinite'
      <3>1. Holders' \subseteq Holders BY DEF Holders, Holding, TypeOK
      <3> QED BY <3>1, OneConnects DEF HoldersFinite
    <2>8. NobodySavesBetween' BY DEF NobodySavesBetween, UnderWay, LockOwned, UnitShape, TypeOK
    <2>9. ToldTheTruth' BY DEF ToldTheTruth, BooksFollow, Unsaved, Early, UnderWay, Kept, UnitShape, TypeOK
    <2> QED BY <2>1, <2>2, <2>3, <2>4, <2>5, <2>6, <2>7, <2>8, <2>9
  <1> QED BY <1>1, <1>2, <1>3, <1>4, <1>5, <1>6, <1>7, <1>8, <1>9, <1>10, <1>11, <1>12, <1>13, <1>14, <1>15, <1>16, <1>17 DEF Next, Step, Stop

LEMMA Invariance == Spec => []IInv
  BY InitIInv, NextIInv, PTL DEF Spec

-----------------------------------------------------------------------------
\* Every unit, lock and book has its type, and each open savepoint a number of
\* its own (`open.savepoints`).
THEOREM TypeCorrect == Spec => []TypeOK
  <1>1. IInv => TypeOK BY DEF IInv
  <1> QED BY <1>1, Invariance, PTL

\* What a unit read of its company when its work began is still so when it
\* saves: pg_advisory_xact_lock in `run`, for any number of units.
THEOREM NobodyBetween == Spec => []NobodySavesBetween
  <1>1. IInv => NobodySavesBetween BY DEF IInv
  <1> QED BY <1>1, Invariance, PTL

\* "Saved", "busy" and an error mean what they say, whatever the savepoints
\* did and whenever a connection ended.
THEOREM AnswersAreTrue == Spec => []ToldTheTruth
  <1>1. IInv => ToldTheTruth BY DEF IInv
  <1> QED BY <1>1, Invariance, PTL

\* Where no request opens a unit from inside another, someone can always move
\* without a timer, however small the pool.
THEOREM NotDeadlocked == ASSUME Beside = {} PROVE Spec => []NeverAllWaiting
  <1>1. ASSUME IInv PROVE NeverAllWaiting
    <2> SUFFICES ASSUME NEW u \in Units, phase[u] \notin {"idle", "told"}
                 PROVE  \E w \in Units : CanMove(w)
      BY DEF NeverAllWaiting
    <2> USE UnitOfWorkAssumption
    <2> USE DEF IInv
    <2>1. \A w \in Units : phase[w] = "open" => CanMove(w)
      BY <1>1 DEF CanMove, Running, Blocked, UnitShape
    <2>2. \A w \in Units : phase[w] \in {"committing", "committed", "rolledback"} => CanMove(w)
      BY DEF CanMove
    <2>3. ASSUME NEW w \in Units, phase[w] = "locking" PROVE \E x \in Units : CanMove(x)
      <3>1. CASE dead[w] \/ lock[company[w]] = None
        BY <2>3, <3>1 DEF CanMove
      <3>2. CASE ~dead[w] /\ lock[company[w]] # None
        <4>1. company[w] \in Companies BY <1>1, <2>3 DEF UnitShape
        <4>2. lock[company[w]] \in Units BY <1>1, <3>2, <4>1 DEF TypeOK
        <4>3. UnderWay(lock[company[w]]) BY <1>1, <4>1, <4>2 DEF LockOwned
        <4> QED BY <4>2, <4>3, <2>1, <2>2 DEF UnderWay
      <3> QED BY <3>1, <3>2
    <2>4. ASSUME phase[u] = "connecting", ~Room PROVE \E x \in Units : CanMove(x)
      <3>1. Holders # {}
        <4>1. Cardinality({}) = 0 BY FS_EmptySet
        <4> QED BY <2>4, <4>1 DEF Room
      <3>2. PICK h \in Units : phase[h] \in Holding BY <3>1 DEF Holders
      <3> QED BY <3>2, <2>1, <2>2, <2>3 DEF Holding
    <2>5. ASSUME phase[u] = "connecting", Room PROVE CanMove(u)
      BY <2>5 DEF CanMove
    <2>6. phase[u] \in Phases BY <1>1 DEF TypeOK
    <2> QED BY <2>1, <2>2, <2>3, <2>4, <2>5, <2>6 DEF Phases
  <1> QED BY <1>1, Invariance, PTL
=============================================================================
