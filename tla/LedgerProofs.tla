---------------------------- MODULE LedgerProofs ----------------------------
(***************************************************************************)
(* The books, for any number of callers, keys, months, entries and deaths: *)
(* one entry, one number and at most one audit event for each key, and     *)
(* balances that show what stands.  And, over the instances of MCLedger,   *)
(* that money is spent once and shown as it is, that the lines of a bank   *)
(* come once and are matched once, and that history stands.                *)
(***************************************************************************)
EXTENDS MCLedger, Sums, SequenceTheorems

Entry ==
  [type : Types, number : Nat, month : Months, key : AllKeys,
   lines : Seq([account : STRING, debit : Nat, credit : Nat]),
   state : {"FINAL", "REVERSED"}, reversedBy : Nat, reverses : Nat]

Tasks ==
  {Idle} \cup [kind : {"amend"}, key : Keys, month : Months, lines : Entries, override : BOOLEAN]
         \cup [kind : {"period"}, month : Months, state : States]

\* An entry is undone by a later one, which mirrors it.
RefsFit ==
  \A i \in Ids :
    /\ books[i].reversedBy \in 0..Len(books)
    /\ books[i].reverses \in 0..Len(books)
    /\ books[i].reversedBy # 0 =>
         books[i].reversedBy > i /\ books[books[i].reversedBy].lines = Mirror(books[i].lines)

AllBalance == \A i \in Ids : Balanced(books[i].lines)

\* What a caller has still to audit is its own, and nobody has audited it.
AuditsFit ==
  /\ Len(books) <= MaxVouchers
  /\ \A c \in Callers : toAudit[c] <= Len(books) /\ (toAudit[c] # 0 => audits[toAudit[c]] = 0)
  /\ \A c, d \in Callers : toAudit[c] = toAudit[d] /\ toAudit[c] # 0 => c = d
  /\ \A i \in 1..MaxVouchers : audits[i] <= 1 /\ (i > Len(books) => audits[i] = 0)

IInv ==
  /\ TypeOK
  /\ task \in [Callers -> Tasks]
  /\ RefsFit
  /\ ReversalsPair
  /\ AllBalance
  /\ OneEntryPerKey
  /\ NumbersRun
  /\ AuditsFit

-----------------------------------------------------------------------------
(* What the operators of the books give *)

Lines == Seq([account : STRING, debit : Nat, credit : Nat])

LEMMA TotalIs == \A f : Total(f) = SumOver(f, DOMAIN f)
  BY DEF Total, SumOver

LEMMA FiniteRange == \A n \in Nat : IsFiniteSet(1..n)
  BY FS_Interval

LEMMA LinesAre ==
  ASSUME NEW lines \in Lines
  PROVE  /\ Len(lines) \in Nat /\ DOMAIN lines = 1..Len(lines)
         /\ \A n \in DOMAIN lines : /\ lines[n] \in [account : STRING, debit : Nat, credit : Nat]
                                    /\ lines[n].debit \in Nat /\ lines[n].credit \in Nat
<1>1. Len(lines) \in Nat /\ DOMAIN lines = 1..Len(lines)
  BY LenProperties DEF Lines
<1>2. \A n \in 1..Len(lines) : lines[n] \in [account : STRING, debit : Nat, credit : Nat]
  BY ElementOfSeq DEF Lines
<1> QED BY <1>1, <1>2

\* Lines with every field in its range are a list of lines.
LEMMA ListOfLines ==
  ASSUME NEW n \in Nat, NEW f, f = [i \in 1..n |-> f[i]],
         \A i \in 1..n : f[i] \in [account : STRING, debit : Nat, credit : Nat]
  PROVE  f \in Lines
<1>1. f \in [1..n -> [account : STRING, debit : Nat, credit : Nat]]
  OBVIOUS
<1> QED BY <1>1, SeqDef DEF Lines

\* The mirror of a list of lines is one, and it balances when they do.
LEMMA MirrorOf ==
  ASSUME NEW lines \in Lines
  PROVE  /\ Mirror(lines) \in Lines
         /\ DOMAIN Mirror(lines) = DOMAIN lines
         /\ \A n \in DOMAIN lines : /\ Mirror(lines)[n].account = lines[n].account
                                    /\ Mirror(lines)[n].debit = lines[n].credit
                                    /\ Mirror(lines)[n].credit = lines[n].debit
         /\ Balanced(lines) => Balanced(Mirror(lines))
<1> DEFINE m == Mirror(lines)
<1>1. DOMAIN m = DOMAIN lines
  BY DEF Mirror
<1>2. \A n \in DOMAIN lines : m[n] = [lines[n] EXCEPT !.debit = lines[n].credit, !.credit = lines[n].debit]
  BY DEF Mirror
<1>3. \A n \in DOMAIN lines : /\ m[n] \in [account : STRING, debit : Nat, credit : Nat]
                              /\ m[n].account = lines[n].account
                              /\ m[n].debit = lines[n].credit
                              /\ m[n].credit = lines[n].debit
  <2> TAKE n \in DOMAIN lines
  <2>1. /\ lines[n] \in [account : STRING, debit : Nat, credit : Nat]
        /\ lines[n].debit \in Nat /\ lines[n].credit \in Nat
    BY LinesAre
  <2>2. m[n] = [lines[n] EXCEPT !.debit = lines[n].credit, !.credit = lines[n].debit]
    BY <1>2
  <2> HIDE DEF m
  <2> QED BY <2>1, <2>2
<1>4. m = [i \in 1..Len(lines) |-> m[i]]
  BY <1>1, LinesAre DEF Mirror
<1>5. m \in Lines
  <2> HIDE DEF m
  <2> QED BY <1>1, <1>3, <1>4, LinesAre, ListOfLines
<1>6. Debits(m) = Credits(lines) /\ Credits(m) = Debits(lines)
  <2>1. [i \in DOMAIN m |-> m[i].debit] = [i \in DOMAIN lines |-> lines[i].credit]
    <3> HIDE DEF m
    <3> QED BY <1>1, <1>3
  <2>2. [i \in DOMAIN m |-> m[i].credit] = [i \in DOMAIN lines |-> lines[i].debit]
    <3> HIDE DEF m
    <3> QED BY <1>1, <1>3
  <2> HIDE DEF m
  <2> QED BY <2>1, <2>2 DEF Debits, Credits
<1>7. Balanced(lines) => Balanced(m)
  BY <1>6 DEF Balanced
<1> QED BY <1>1, <1>3, <1>5, <1>7

\* What lines the provers accept are: those of a valid entry.
LEMMA ValidLines ==
  ASSUME NEW lines \in Seq([account : STRING, debit : Int, credit : Int]), Valid(lines)
  PROVE  lines \in Lines /\ Balanced(lines)
<1>1. Len(lines) \in Nat /\ DOMAIN lines = 1..Len(lines) /\ lines = [i \in 1..Len(lines) |-> lines[i]]
  BY LenProperties
<1>2. \A i \in 1..Len(lines) : lines[i] \in [account : STRING, debit : Int, credit : Int]
  BY ElementOfSeq
<1>3. \A i \in 1..Len(lines) : lines[i].debit >= 0 /\ lines[i].credit >= 0
  BY <1>1 DEF Valid
<1>4. \A i \in 1..Len(lines) : lines[i] \in [account : STRING, debit : Nat, credit : Nat]
  BY <1>2, <1>3
<1>5. lines \in Lines
  BY <1>1, <1>4, ListOfLines
<1> QED BY <1>5 DEF Valid

-----------------------------------------------------------------------------
(* The books show what stands: it follows from how entries undo each other *)

EntriesFit == books \in Seq(Entry)

LEMMA EntriesAre ==
  ASSUME EntriesFit
  PROVE  /\ Len(books) \in Nat /\ DOMAIN books = Ids /\ IsFiniteSet(Ids)
         /\ \A i \in Ids : books[i] \in Entry /\ books[i].lines \in Lines
<1>1. Len(books) \in Nat /\ DOMAIN books = 1..Len(books)
  BY LenProperties DEF EntriesFit
<1>2. \A i \in 1..Len(books) : books[i] \in Entry
  BY ElementOfSeq DEF EntriesFit
<1> QED BY <1>1, <1>2, FiniteRange DEF Ids, Entry, Lines

\* What entry i adds to account a, line by line
LineNets(i, a) ==
  [n \in DOMAIN books[i].lines |->
     IF books[i].lines[n].account = a THEN books[i].lines[n].debit - books[i].lines[n].credit ELSE 0]

LEMMA NetIs ==
  ASSUME EntriesFit, NEW i \in Ids, NEW a
  PROVE  /\ Net(i, a) = SumOver(LineNets(i, a), DOMAIN books[i].lines)
         /\ Net(i, a) \in Int
         /\ \A n \in DOMAIN books[i].lines : LineNets(i, a)[n] \in Int
         /\ IsFiniteSet(DOMAIN books[i].lines)
<1>1. Net(i, a) = Total(LineNets(i, a))
  BY DEF Net, LineNets
<1>2. DOMAIN LineNets(i, a) = DOMAIN books[i].lines
  BY DEF LineNets
<1>3. books[i].lines \in Lines
  BY EntriesAre
<1>4. IsFiniteSet(DOMAIN books[i].lines)
  BY <1>3, LinesAre, FiniteRange
<1>5. \A n \in DOMAIN books[i].lines : LineNets(i, a)[n] \in Int
  BY <1>3, LinesAre DEF LineNets
<1> QED BY <1>1, <1>2, <1>4, <1>5, TotalIs, SumIsInt

\* The mirror of an entry takes away what the entry added.
LEMMA MirrorTakesAway ==
  ASSUME EntriesFit, NEW i \in Ids, NEW j \in Ids, books[j].lines = Mirror(books[i].lines), NEW a
  PROVE  Net(j, a) = -Net(i, a)
<1>1. books[i].lines \in Lines
  BY EntriesAre
<1>2. /\ DOMAIN books[j].lines = DOMAIN books[i].lines
      /\ \A n \in DOMAIN books[i].lines : /\ books[j].lines[n].account = books[i].lines[n].account
                                          /\ books[j].lines[n].debit = books[i].lines[n].credit
                                          /\ books[j].lines[n].credit = books[i].lines[n].debit
  BY <1>1, MirrorOf
<1>3. \A n \in DOMAIN books[i].lines : LineNets(j, a)[n] = -LineNets(i, a)[n]
  BY <1>1, <1>2, LinesAre DEF LineNets
<1> QED BY <1>2, <1>3, NetIs, SumNegates

\* From the last entry back, every entry knows whether it stands.
LEMMA StandsIs ==
  ASSUME EntriesFit, RefsFit
  PROVE  \A i \in Ids : Stands[i] = (books[i].reversedBy = 0 \/ ~Stands[books[i].reversedBy])
<1> DEFINE Last(n) == {i \in Ids : i > Len(books) - n}
           Say(f, i) == books[i].reversedBy = 0 \/ ~f[books[i].reversedBy]
           Fits(f, n) == f = [i \in Last(n) |-> Say(f, i)]
           Good == {n \in Nat : \E f : Fits(f, n)}
<1>0. Len(books) \in Nat
  BY EntriesAre
<1>1. 0 \in Good
  <2>1. Last(0) = {}
    BY <1>0 DEF Ids
  <2>2. Fits([i \in Last(0) |-> TRUE], 0)
    BY <2>1
  <2> QED BY <2>2
<1>2. ASSUME NEW n \in Nat, n \in Good PROVE n + 1 \in Good
  <2>1. PICK f : Fits(f, n)
    BY <1>2
  <2> DEFINE more == [i \in Last(n + 1) |-> Say(f, i)]
  <2>2. \A i \in Last(n) : i \in Last(n + 1) /\ more[i] = f[i]
    <3> TAKE i \in Last(n)
    <3>1. i \in Last(n + 1)
      BY <1>0 DEF Ids
    <3> QED BY <3>1, <2>1
  <2>3. \A i \in Last(n + 1) : books[i].reversedBy # 0 => books[i].reversedBy \in Last(n)
    BY <1>0 DEF Ids, RefsFit
  <2>4. \A i \in Last(n + 1) : Say(f, i) = Say(more, i)
    <3> HIDE DEF more
    <3> QED BY <2>2, <2>3
  <2>5. more = [i \in Last(n + 1) |-> Say(more, i)]
    <3> DEFINE then == [i \in Last(n + 1) |-> Say(more, i)]
    <3> \A i \in Last(n + 1) : more[i] = then[i]
      BY <2>4, Zenon
    <3> QED BY Zenon
  <2>6. Fits(more, n + 1)
    BY <2>5
  <2> HIDE DEF more, Fits
  <2> QED BY <2>6
<1>3. \A n \in Nat : n \in Good
  <2> HIDE DEF Good
  <2> QED BY <1>1, <1>2, Induction
<1>4. PICK f : Fits(f, Len(books))
  BY <1>0, <1>3
<1>5. Last(Len(books)) = Ids
  BY <1>0 DEF Ids
<1>6. f = [i \in Ids |-> Say(f, i)]
  BY <1>4, <1>5
<1>7. Stands = [i \in Ids |-> Say(Stands, i)]
  BY <1>6 DEF Stands
<1> QED BY <1>7

-----------------------------------------------------------------------------
LEMMA ShownWhatStands ==
  ASSUME EntriesFit, RefsFit, ReversalsPair, NEW a
  PROVE  BalanceOf(Ids, a) = BalanceOf({i \in Ids : books[i].reverses = 0 /\ Stands[i]}, a)
<1> DEFINE N == [i \in Ids |-> Net(i, a)]
           C == [i \in Ids |-> IF Stands[i] THEN Net(i, a) ELSE 0]
           back == [i \in Ids |-> books[i].reversedBy]
           D == [i \in Ids |-> IF back[i] # 0 THEN C[back[i]] ELSE 0]
           U == {i \in Ids : back[i] # 0}
           V == {i \in Ids : books[i].reverses # 0}
           W == {i \in Ids : books[i].reverses = 0 /\ Stands[i]}
<1>0. IsFiniteSet(Ids)
  BY EntriesAre
<1>1. \A i \in Ids : N[i] \in Int /\ C[i] \in Int
  BY NetIs
<1>2. \A i \in U : back[i] \in Ids
  BY EntriesAre DEF RefsFit, Ids
<1>3. \A i \in Ids : D[i] \in Int
  BY <1>1, <1>2
<1>4. \A i \in Ids : C[i] = N[i] + D[i]
  <2> TAKE i \in Ids
  <2>1. CASE back[i] = 0
    <3>1. Stands[i] = TRUE
      BY <2>1, StandsIs
    <3> QED BY <2>1, <3>1, <1>1
  <2>2. CASE back[i] # 0
    <3>1. back[i] \in Ids /\ Stands[i] = ~Stands[back[i]]
      BY <2>2, <1>2, StandsIs
    <3>2. Net(back[i], a) = -Net(i, a)
      <4>1. books[back[i]].lines = Mirror(books[i].lines)
        BY <2>2 DEF RefsFit
      <4> QED BY <3>1, <4>1, MirrorTakesAway
    <3>3. Net(i, a) \in Int
      BY NetIs
    <3>4. D[i] = (IF Stands[back[i]] THEN Net(back[i], a) ELSE 0) /\ N[i] = Net(i, a)
      BY <2>2, <3>1
    <3>5. C[i] = IF Stands[back[i]] THEN 0 ELSE Net(i, a)
      BY <3>1
    <3> HIDE DEF N, C, D, back
    <3>6. CASE Stands[back[i]]
      BY <3>2, <3>3, <3>4, <3>5, <3>6
    <3>7. CASE ~Stands[back[i]]
      BY <3>3, <3>4, <3>5, <3>7
    <3> QED BY <3>6, <3>7
  <2> QED BY <2>1, <2>2
<1>5. V = {back[i] : i \in U}
  <2>1. \A i \in U : back[i] \in V
    BY <1>2 DEF ReversalsPair, Ids
  <2>2. \A j \in V : \E i \in U : j = back[i]
    <3> TAKE j \in V
    <3>1. books[j].reverses \in Ids
      BY EntriesAre DEF RefsFit, Ids
    <3>2. books[books[j].reverses].reversedBy = j /\ j # 0
      BY <3>1 DEF ReversalsPair, Ids
    <3>3. books[j].reverses \in U /\ j = back[books[j].reverses]
      BY <3>1, <3>2
    <3> QED BY <3>3
  <2> QED BY <2>1, <2>2
<1>6. \A i, j \in U : back[i] = back[j] => i = j
  BY <1>2 DEF ReversalsPair
<1>7. \A i \in U : D[i] = C[back[i]]
  OBVIOUS
<1>8. \A i \in Ids \ U : D[i] = 0
  OBVIOUS
<1>9. (\A i \in (Ids \ V) \ W : C[i] = 0) /\ (\A i \in W : C[i] = N[i]) /\ W \subseteq Ids \ V /\ U \subseteq Ids /\ V \subseteq Ids
  OBVIOUS
<1>10. BalanceOf(Ids, a) = SumOver(N, Ids) /\ BalanceOf(W, a) = SumOver(N, W)
  <2>1. BalanceOf(Ids, a) = SumOver(N, Ids)
    BY TotalIs DEF BalanceOf
  <2> DEFINE M == [i \in W |-> Net(i, a)]
  <2>2. BalanceOf(W, a) = SumOver(M, W)
    BY TotalIs DEF BalanceOf
  <2>3. \A i \in W : M[i] = N[i]
    OBVIOUS
  <2>4. IsFiniteSet(W)
    BY <1>0, <1>9, FS_Subset
  <2>5. SumOver(M, W) = SumOver(N, W)
    <3> HIDE DEF M, N, W
    <3> QED BY <2>3, <2>4, SumAgrees
  <2> QED BY <2>1, <2>2, <2>5
<1> HIDE DEF N, C, D, U, V, W, back
<1>11. SumOver(C, Ids) = SumOver(N, Ids) + SumOver(D, Ids)
  BY <1>0, <1>1, <1>3, <1>4, SumAdds
<1>12. SumOver(D, Ids) = SumOver(D, U)
  BY <1>0, <1>3, <1>8, <1>9, SumOfPart
<1>13. SumOver(C, V) = SumOver(D, U)
  <2>1. IsFiniteSet(U)
    BY <1>0, <1>9, FS_Subset
  <2>2. \A i \in U : D[i] \in Int /\ C[back[i]] = D[i]
    BY <1>3, <1>7, <1>9
  <2>3. SumOver(C, {back[i] : i \in U}) = SumOver(D, U)
    BY <2>1, <2>2, <1>6, SumReindexed
  <2> QED BY <2>3, <1>5
<1>14. SumOver(C, Ids) = SumOver(C, V) + SumOver(C, Ids \ V) /\ SumOver(C, V) \in Int /\ SumOver(C, Ids \ V) \in Int
  BY <1>0, <1>1, <1>9, SumParts
<1>15. SumOver(C, Ids \ V) = SumOver(C, W)
  <2>1. IsFiniteSet(Ids \ V)
    BY <1>0, FS_Subset
  <2> QED BY <2>1, <1>1, <1>9, SumOfPart
<1>16. SumOver(C, W) = SumOver(N, W)
  <2>1. IsFiniteSet(W)
    BY <1>0, <1>9, FS_Subset
  <2> QED BY <2>1, <1>9, SumAgrees
<1>17. SumOver(N, Ids) \in Int
  BY <1>0, <1>1, SumIsInt
<1>18. SumOver(C, Ids) = SumOver(N, Ids) + SumOver(C, V)
  BY <1>11, <1>12, <1>13
<1>19. SumOver(C, Ids) = SumOver(C, V) + SumOver(N, W) /\ SumOver(N, W) \in Int
  BY <1>14, <1>15, <1>16
<1>20. SumOver(N, Ids) = SumOver(N, W)
  <2>1. SumOver(N, Ids) + SumOver(C, V) = SumOver(C, V) + SumOver(N, W)
    BY <1>18, <1>19
  <2>2. \A n, v, w \in Int : n + v = v + w => n = w
    OBVIOUS
  <2>3. SumOver(N, Ids) \in Int /\ SumOver(C, V) \in Int /\ SumOver(N, W) \in Int
    BY <1>14, <1>17, <1>19
  <2> QED BY <2>1, <2>2, <2>3
<1>21. BalanceOf(Ids, a) = BalanceOf(W, a)
  BY <1>10, <1>20
<1> QED BY <1>21 DEF W

-----------------------------------------------------------------------------
(* What a posting does to the tables, whichever command makes it *)

\* Entry v is new, follows the numbers of its type, and undoes at most one entry
\* that nothing has undone.
IsNext(v) ==
  /\ v.number = sequence[v.type] + 1
  /\ v.state = "FINAL" /\ v.reversedBy = 0
  /\ remembered[v.key] = 0
  /\ period[v.month] # "HARD_LOCKED"
  /\ Balanced(v.lines)
  /\ v.reverses # 0 => /\ v.reverses \in Ids
                       /\ books[v.reverses].reversedBy = 0
                       /\ v.lines = Mirror(books[v.reverses].lines)

Marked(v, i) ==
  IF i = v.reverses THEN [books[i] EXCEPT !.state = "REVERSED", !.reversedBy = Len(books) + 1] ELSE books[i]

Grown(v) ==
  /\ Len(books) < MaxVouchers
  /\ books' \in Seq(Entry)
  /\ Len(books') = Len(books) + 1
  /\ books'[Len(books) + 1] = v
  /\ \A i \in Ids : books'[i] = Marked(v, i)
  /\ remembered' = [remembered EXCEPT ![v.key] = Len(books) + 1]
  /\ sequence' = [sequence EXCEPT ![v.type] = v.number]
  /\ period' = Ensured(v.month)

Inserts(v) == v \in Entry /\ IsNext(v) /\ Grown(v)

LEMMA Appended ==
  ASSUME NEW marked \in Seq(Entry), Len(marked) = Len(books), NEW v \in Entry, Insert(v, marked),
         \A i \in 1..Len(books) : marked[i] = Marked(v, i)
  PROVE  Grown(v)
<1>1. books' = Append(marked, v)
  BY DEF Insert
<1>2. /\ Append(marked, v) \in Seq(Entry)
      /\ Len(Append(marked, v)) = Len(marked) + 1
      /\ \A i \in 1..Len(marked) : Append(marked, v)[i] = marked[i]
      /\ Append(marked, v)[Len(marked) + 1] = v
  BY AppendProperties
<1>3. /\ Len(books) < MaxVouchers
      /\ remembered' = [remembered EXCEPT ![v.key] = Len(books) + 1]
      /\ sequence' = [sequence EXCEPT ![v.type] = v.number]
      /\ period' = Ensured(v.month)
  BY DEF Insert
<1> QED BY <1>1, <1>2, <1>3 DEF Grown, Ids

\* An entry made from valid parts is an entry.
LEMMA VoucherIs ==
  ASSUME sequence \in [Types -> Nat],
         NEW type \in Types, NEW month \in Months, NEW lines \in Lines, NEW key \in AllKeys, NEW n \in Nat
  PROVE  LET v == Voucher(type, month, lines, key, n) IN
         /\ v \in Entry
         /\ v.type = type /\ v.month = month /\ v.lines = lines /\ v.key = key /\ v.reverses = n
         /\ v.number = sequence[type] + 1 /\ v.state = "FINAL" /\ v.reversedBy = 0
<1> DEFINE number == sequence[type] + 1
<1>1. number \in Nat
  BY DEF Types
<1> HIDE DEF number
<1>2. Voucher(type, month, lines, key, n) =
        [type |-> type, number |-> number, month |-> month, lines |-> lines,
         key |-> key, state |-> "FINAL", reversedBy |-> 0, reverses |-> n]
  BY DEF Voucher, number
<1> DEFINE v == Voucher(type, month, lines, key, n)
<1>3. v \in Entry /\ v.number = number
  BY <1>1, <1>2 DEF Entry, Lines
<1>4. v.type = type /\ v.month = month /\ v.lines = lines /\ v.key = key /\ v.reverses = n
  BY <1>2
<1>5. v.state = "FINAL" /\ v.reversedBy = 0
  BY <1>2
<1> QED BY <1>3, <1>4, <1>5 DEF number

LEMMA PostInserts ==
  ASSUME EntriesFit, sequence \in [Types -> Nat],
         NEW key \in AllKeys, NEW month \in Months, NEW lines \in Entries, NEW override,
         Post(key, month, lines, override)
  PROVE  \E v : Inserts(v)
<1> DEFINE v == Voucher("JOURNAL", month, lines, key, 0)
<1>1. lines \in Lines /\ Balanced(lines)
  BY LedgerAssumption, ValidLines DEF Post
<1>2. /\ v \in Entry
      /\ v.type = "JOURNAL" /\ v.month = month /\ v.lines = lines /\ v.key = key /\ v.reverses = 0
      /\ v.number = sequence["JOURNAL"] + 1 /\ v.state = "FINAL" /\ v.reversedBy = 0
  <2>1. "JOURNAL" \in Types /\ 0 \in Nat
    BY DEF Types
  <2> QED BY <1>1, <2>1, VoucherIs
<1>3. Insert(v, books) /\ remembered[key] = 0 /\ CanPost(month, override)
  BY DEF Post
<1> HIDE DEF v
<1>4. Grown(v)
  <2>1. \A i \in 1..Len(books) : books[i] = Marked(v, i)
    BY <1>2, EntriesAre DEF Marked
  <2> QED BY <1>2, <1>3, <2>1, Appended DEF EntriesFit
<1>5. IsNext(v)
  BY <1>1, <1>2, <1>3 DEF IsNext, CanPost
<1> QED BY <1>2, <1>4, <1>5 DEF Inserts

LEMMA UndoInserts ==
  ASSUME EntriesFit, AllBalance, sequence \in [Types -> Nat],
         NEW key \in AllKeys, NEW id \in Ids, NEW month \in Months, NEW override,
         Undo(key, id, month, override)
  PROVE  \E v : Inserts(v)
<1> DEFINE lines == Mirror(books[id].lines)
           v == Voucher("REVERSAL", month, lines, key, id)
           e == [books[id] EXCEPT !.state = "REVERSED", !.reversedBy = Len(books) + 1]
           marked == [books EXCEPT ![id] = e]
<1>0. Len(books) \in Nat /\ id \in Nat /\ id # 0 /\ books[id] \in Entry /\ books[id].lines \in Lines /\ id \in 1..Len(books)
  BY EntriesAre DEF Ids
<1>1. lines \in Lines /\ Balanced(lines)
  BY <1>0, MirrorOf DEF AllBalance
<1> HIDE DEF lines
<1>2. /\ v \in Entry
      /\ v.type = "REVERSAL" /\ v.month = month /\ v.lines = lines /\ v.key = key /\ v.reverses = id
      /\ v.number = sequence["REVERSAL"] + 1 /\ v.state = "FINAL" /\ v.reversedBy = 0
  <2>1. "REVERSAL" \in Types
    BY DEF Types
  <2> QED BY <1>0, <1>1, <2>1, VoucherIs
<1>3. /\ Insert(v, [books EXCEPT ![id].state = "REVERSED", ![id].reversedBy = Len(books) + 1])
      /\ remembered[key] = 0 /\ books[id].reversedBy = 0 /\ CanPost(month, override)
  BY DEF Undo, lines
<1> HIDE DEF v
<1>4. e \in Entry
  <2> DEFINE n == Len(books) + 1
  <2>1. n \in Nat
    BY <1>0
  <2> HIDE DEF n
  <2>2. [books[id] EXCEPT !.state = "REVERSED", !.reversedBy = n] \in Entry
    BY <1>0, <2>1 DEF Entry
  <2> QED BY <2>2 DEF n
<1>5. [books EXCEPT ![id].state = "REVERSED", ![id].reversedBy = Len(books) + 1] = marked
  BY <1>0, EntriesAre
<1>6. Insert(v, marked)
  BY <1>3, <1>5
<1>7. /\ marked \in Seq(Entry) /\ Len(marked) = Len(books)
      /\ \A i \in 1..Len(books) : marked[i] = IF i = id THEN e ELSE books[i]
  <2> HIDE DEF e
  <2> QED BY <1>0, <1>4, ExceptSeq DEF EntriesFit
<1>8. \A i \in 1..Len(books) : marked[i] = Marked(v, i)
  BY <1>2, <1>7 DEF Marked
<1> HIDE DEF marked
<1>9. Grown(v)
  BY <1>2, <1>6, <1>7, <1>8, Appended
<1>10. IsNext(v)
  BY <1>1, <1>2, <1>3 DEF IsNext, CanPost, lines
<1> QED BY <1>2, <1>9, <1>10 DEF Inserts

\* What the entries are after a posting, field by field.
LEMMA AfterInsert ==
  ASSUME EntriesFit, NEW v, Inserts(v)
  PROVE  LET n == Len(books) + 1 IN
         /\ Len(books) \in Nat /\ Ids' = Ids \cup {n} /\ n \notin Ids /\ n # 0
         /\ \A i \in Ids : /\ i # 0 /\ i < n
                           /\ books'[i].type = books[i].type /\ books'[i].number = books[i].number
                           /\ books'[i].key = books[i].key /\ books'[i].lines = books[i].lines
                           /\ books'[i].reverses = books[i].reverses
                           /\ books'[i].state = IF i = v.reverses THEN "REVERSED" ELSE books[i].state
                           /\ books'[i].reversedBy = IF i = v.reverses THEN n ELSE books[i].reversedBy
         /\ books'[n] = v
<1> DEFINE n == Len(books) + 1
<1>1. Len(books) \in Nat /\ Ids' = Ids \cup {n} /\ n \notin Ids /\ n # 0
  BY EntriesAre DEF Ids, Inserts, Grown
<1>2. books'[n] = v
  BY DEF Inserts, Grown
<1>3. ASSUME NEW i \in Ids
      PROVE  /\ i # 0 /\ i < n
             /\ books'[i].type = books[i].type /\ books'[i].number = books[i].number
             /\ books'[i].key = books[i].key /\ books'[i].lines = books[i].lines
             /\ books'[i].reverses = books[i].reverses
             /\ books'[i].state = IF i = v.reverses THEN "REVERSED" ELSE books[i].state
             /\ books'[i].reversedBy = IF i = v.reverses THEN n ELSE books[i].reversedBy
  <2>1. i # 0 /\ i < n
    BY <1>1 DEF Ids
  <2>2. books[i] \in Entry
    BY EntriesAre
  <2>3. books'[i] = Marked(v, i)
    BY DEF Inserts, Grown
  <2>4. books'[i] = IF i = v.reverses THEN [books[i] EXCEPT !.state = "REVERSED", !.reversedBy = n] ELSE books[i]
    BY <2>3 DEF Marked
  <2> HIDE DEF n
  <2>5. CASE i = v.reverses
    BY <2>1, <2>2, <2>4, <2>5 DEF Entry
  <2>6. CASE i # v.reverses
    BY <2>1, <2>2, <2>4, <2>6 DEF Entry
  <2> QED BY <2>5, <2>6
<1> HIDE DEF n
<1> QED BY <1>1, <1>2, <1>3 DEF n

-----------------------------------------------------------------------------
(* A posting preserves each part of the invariant *)

\* The tables' types, as far as a posting touches them
TablesFit ==
  /\ EntriesFit
  /\ remembered \in [AllKeys -> Nat]
  /\ sequence \in [Types -> Nat]
  /\ period \in [Months -> States]

LEMMA InsertKeepsTypes ==
  ASSUME TablesFit, NEW v, Inserts(v)
  PROVE  TablesFit'
<1> DEFINE n == Len(books) + 1
<1>1. n \in Nat
  BY EntriesAre DEF TablesFit
<1>2. v.number \in Nat /\ v.key \in AllKeys /\ v.type \in Types /\ v.month \in Months
  BY DEF Inserts, Entry
<1>3. EntriesFit'
  BY DEF Inserts, Grown, EntriesFit
<1>4. remembered' = [remembered EXCEPT ![v.key] = n] /\ sequence' = [sequence EXCEPT ![v.type] = v.number]
  BY DEF Inserts, Grown
<1>5. period' \in [Months -> States]
  BY <1>2 DEF Inserts, Grown, Ensured, States, TablesFit
<1> HIDE DEF n
<1> QED BY <1>1, <1>2, <1>3, <1>4, <1>5 DEF TablesFit

LEMMA InsertKeepsRefs ==
  ASSUME TablesFit, RefsFit, ReversalsPair, AllBalance, NEW v, Inserts(v)
  PROVE  RefsFit' /\ ReversalsPair' /\ AllBalance'
<1> DEFINE n == Len(books) + 1
<1>0. EntriesFit
  BY DEF TablesFit
<1>1. /\ Len(books) \in Nat /\ Ids' = Ids \cup {n} /\ n \notin Ids /\ n # 0 /\ Ids = 1..Len(books)
      /\ Len(books') = n
  BY <1>0, AfterInsert DEF Ids, Inserts, Grown
<1>2. \A i \in Ids : /\ i # 0 /\ i < n
                     /\ books'[i].lines = books[i].lines
                     /\ books'[i].reverses = books[i].reverses
                     /\ books'[i].state = IF i = v.reverses THEN "REVERSED" ELSE books[i].state
                     /\ books'[i].reversedBy = IF i = v.reverses THEN n ELSE books[i].reversedBy
  BY <1>0, AfterInsert
<1>3. books'[n] = v
  BY <1>0, AfterInsert
<1>4. /\ v.state = "FINAL" /\ v.reversedBy = 0 /\ Balanced(v.lines) /\ v.reverses \in Nat
      /\ v.reverses # 0 => /\ v.reverses \in Ids
                           /\ books[v.reverses].reversedBy = 0
                           /\ v.lines = Mirror(books[v.reverses].lines)
  BY DEF Inserts, IsNext, Entry
<1>5. \A i \in Ids : /\ books[i].reversedBy \in 0..Len(books) /\ books[i].reverses \in 0..Len(books)
                     /\ books[i].reversedBy # 0 =>
                          books[i].reversedBy > i /\ books[books[i].reversedBy].lines = Mirror(books[i].lines)
  BY DEF RefsFit
<1>6. \A i, j \in Ids : /\ books[i].reversedBy = j <=> books[j].reverses = i
                        /\ books[i].state = "REVERSED" <=> books[i].reversedBy # 0
  BY DEF ReversalsPair
<1> HIDE DEF n
<1>7. RefsFit'
  <2> SUFFICES ASSUME NEW i \in Ids'
               PROVE  /\ books'[i].reversedBy \in 0..n /\ books'[i].reverses \in 0..n
                      /\ books'[i].reversedBy # 0 =>
                           books'[i].reversedBy > i /\ books'[books'[i].reversedBy].lines = Mirror(books'[i].lines)
    BY <1>1 DEF RefsFit, Mirror
  <2>0. n = Len(books) + 1
    BY DEF n
  <2>1. CASE i = n
    <3>1. v.reverses \in 0..n
      BY <1>1, <1>4, <2>0
    <3>2. 0 \in 0..n
      BY <1>1, <2>0
    <3> QED BY <1>3, <1>4, <2>1, <3>1, <3>2
  <2>2. CASE i \in Ids /\ i = v.reverses
    <3>1. books'[i].reversedBy = n /\ n > i /\ n \in 0..n /\ books'[i].reverses \in 0..n
      BY <1>1, <1>2, <1>5, <2>0, <2>2
    <3>2. books'[n].lines = Mirror(books'[i].lines)
      BY <1>2, <1>3, <1>4, <2>2
    <3> QED BY <3>1, <3>2
  <2>3. CASE i \in Ids /\ i # v.reverses
    <3>1. books'[i].reversedBy = books[i].reversedBy /\ books'[i].lines = books[i].lines
      BY <1>2, <2>3
    <3>2. books[i].reversedBy \in 0..n /\ books'[i].reverses \in 0..n
      BY <1>1, <1>2, <1>5, <2>0, <2>3
    <3>3. ASSUME books[i].reversedBy # 0
          PROVE  books[i].reversedBy > i /\ books'[books[i].reversedBy].lines = Mirror(books[i].lines)
      <4>1. books[i].reversedBy \in Ids
        BY <1>1, <1>5, <2>3, <3>3
      <4> QED BY <1>2, <1>5, <2>3, <3>3, <4>1
    <3> QED BY <3>1, <3>2, <3>3
  <2> QED BY <1>1, <2>1, <2>2, <2>3
<1>8. ReversalsPair'
  <2> SUFFICES ASSUME NEW i \in Ids', NEW j \in Ids'
               PROVE  /\ books'[i].reversedBy = j <=> books'[j].reverses = i
                      /\ books'[i].state = "REVERSED" <=> books'[i].reversedBy # 0
    BY DEF ReversalsPair
  <2>0. n = Len(books) + 1
    BY DEF n
  <2>1. books'[i].state = "REVERSED" <=> books'[i].reversedBy # 0
    <3>1. CASE i = n
      BY <1>3, <1>4, <3>1
    <3>2. CASE i \in Ids
      BY <1>1, <1>2, <1>6, <3>2
    <3> QED BY <1>1, <3>1, <3>2
  <2>2. CASE i = n /\ j = n
    BY <1>1, <1>3, <1>4, <2>2
  <2>3. CASE i = n /\ j \in Ids
    <3>1. books'[i].reversedBy = 0 /\ j # 0
      BY <1>2, <1>3, <1>4, <2>3
    <3>2. books'[j].reverses # n
      BY <1>1, <1>2, <1>5, <2>0, <2>3
    <3> QED BY <2>1, <2>3, <3>1, <3>2
  <2>4. CASE i \in Ids /\ j = n
    <3>1. books[i].reversedBy # n
      BY <1>1, <1>5, <2>0, <2>4
    <3> QED BY <1>2, <1>3, <2>1, <2>4, <3>1
  <2>5. CASE i \in Ids /\ j \in Ids
    <3>1. books'[j].reverses = books[j].reverses
      BY <1>2, <2>5
    <3>2. CASE i = v.reverses
      <4>1. books[i].reversedBy = 0 /\ books'[i].reversedBy = n /\ j # n /\ j # 0
        BY <1>1, <1>2, <1>4, <2>5, <3>2
      <4> QED BY <1>6, <2>1, <2>5, <3>1, <4>1
    <3>3. CASE i # v.reverses
      BY <1>2, <1>6, <2>1, <2>5, <3>1, <3>3
    <3> QED BY <3>2, <3>3
  <2> QED BY <1>1, <2>2, <2>3, <2>4, <2>5
<1>9. AllBalance'
  <2> SUFFICES ASSUME NEW i \in Ids' PROVE Balanced(books'[i].lines)
    BY DEF AllBalance, Balanced, Debits, Credits
  <2>1. CASE i = n
    BY <1>3, <1>4, <2>1
  <2>2. CASE i \in Ids
    BY <1>2, <2>2 DEF AllBalance
  <2> QED BY <1>1, <2>1, <2>2
<1> QED BY <1>7, <1>8, <1>9

LEMMA InsertKeepsKeys ==
  ASSUME TablesFit, OneEntryPerKey, NEW v, Inserts(v)
  PROVE  OneEntryPerKey'
<1> DEFINE n == Len(books) + 1
<1>0. EntriesFit
  BY DEF TablesFit
<1>1. /\ Len(books) \in Nat /\ Ids' = Ids \cup {n} /\ n \notin Ids /\ n # 0
      /\ \A i \in Ids : i # 0 /\ books'[i].key = books[i].key /\ books[i].key \in AllKeys
      /\ books'[n] = v /\ v.key \in AllKeys /\ remembered[v.key] = 0
  BY <1>0, AfterInsert, EntriesAre DEF Inserts, IsNext, Entry
<1>2. remembered' = [remembered EXCEPT ![v.key] = n]
  BY DEF Inserts, Grown
<1>3. \A k \in AllKeys : remembered'[k] = IF k = v.key THEN n ELSE remembered[k]
  BY <1>2 DEF TablesFit
<1>4. \A i \in Ids : remembered[books[i].key] = i
  BY DEF OneEntryPerKey
<1>5. \A i \in Ids : books[i].key # v.key
  BY <1>1, <1>4
<1>6. \A i, j \in Ids : books[i].key = books[j].key => i = j
  BY DEF OneEntryPerKey
<1>7. \A k \in AllKeys : remembered[k] # 0 => remembered[k] \in Ids /\ books[remembered[k]].key = k
  BY DEF OneEntryPerKey
<1> HIDE DEF n
<1>8. \A i, j \in Ids' : books'[i].key = books'[j].key => i = j
  BY <1>1, <1>5, <1>6
<1>9. \A k \in AllKeys : remembered'[k] # 0 => remembered'[k] \in Ids' /\ books'[remembered'[k]].key = k
  BY <1>1, <1>3, <1>7
<1>10. \A i \in Ids' : remembered'[books'[i].key] = i
  BY <1>1, <1>3, <1>4, <1>5
<1> QED BY <1>8, <1>9, <1>10 DEF OneEntryPerKey

LEMMA InsertKeepsNumbers ==
  ASSUME TablesFit, NumbersRun, NEW v, Inserts(v)
  PROVE  NumbersRun'
<1> DEFINE n == Len(books) + 1
           Mine(t) == {i \in Ids : books[i].type = t}
<1>0. EntriesFit
  BY DEF TablesFit
<1>1. /\ Len(books) \in Nat /\ Ids' = Ids \cup {n} /\ n \notin Ids
      /\ \A i \in Ids : i < n /\ books'[i].type = books[i].type /\ books'[i].number = books[i].number
      /\ books'[n] = v
  BY <1>0, AfterInsert
<1>2. v.type \in Types /\ v.number = sequence[v.type] + 1 /\ sequence[v.type] \in Nat
  BY DEF Inserts, IsNext, Entry, TablesFit
<1>3. sequence' = [sequence EXCEPT ![v.type] = v.number]
  BY DEF Inserts, Grown
<1>4. \A t \in Types : sequence'[t] = IF t = v.type THEN v.number ELSE sequence[t]
  BY <1>3 DEF TablesFit
<1>5. \A t \in Types : /\ {books[i].number : i \in Mine(t)} = 1..sequence[t]
                       /\ \A i, j \in Mine(t) : i < j => books[i].number < books[j].number
  BY DEF NumbersRun
<1>6. \A i \in Ids : i \in Int
  BY DEF Ids
<1> SUFFICES ASSUME NEW t \in Types
             PROVE  LET mine == {i \in Ids' : books'[i].type = t} IN
                    /\ {books'[i].number : i \in mine} = 1..sequence'[t]
                    /\ \A i, j \in mine : i < j => books'[i].number < books'[j].number
  BY DEF NumbersRun
<1> DEFINE mine == {i \in Ids' : books'[i].type = t}
<1>n. n = Len(books) + 1
  OBVIOUS
<1> HIDE DEF n
<1>7. CASE t # v.type
  <2>1. mine = Mine(t)
    BY <1>1, <1>7
  <2>2. \A i \in Mine(t) : books'[i].number = books[i].number
    BY <1>1
  <2>3. sequence'[t] = sequence[t]
    BY <1>4, <1>7
  <2> HIDE DEF mine, Mine
  <2>4. {books'[i].number : i \in mine} = {books[i].number : i \in Mine(t)}
    BY <2>1, <2>2
  <2>5. \A i, j \in mine : i < j => books'[i].number < books'[j].number
    BY <1>5, <2>1, <2>2
  <2> QED BY <1>5, <2>3, <2>4, <2>5 DEF mine
<1>8. CASE t = v.type
  <2>1. mine = Mine(t) \cup {n}
    BY <1>1, <1>8
  <2>2. \A i \in Mine(t) : books'[i].number = books[i].number /\ i < n /\ i \in Int
    BY <1>1, <1>6
  <2>3. sequence'[t] = sequence[t] + 1 /\ sequence[t] \in Nat /\ books'[n].number = sequence[t] + 1
    BY <1>1, <1>2, <1>4, <1>8
  <2>4. \A i \in Mine(t) : books[i].number \in 1..sequence[t]
    BY <1>5
  <2>5. n \in Int
    BY <1>1, <1>n
  <2> HIDE DEF mine, Mine
  <2>6. {books'[i].number : i \in mine} = {books[i].number : i \in Mine(t)} \cup {sequence[t] + 1}
    BY <2>1, <2>2, <2>3
  <2>7. 1..sequence'[t] = (1..sequence[t]) \cup {sequence[t] + 1}
    BY <2>3
  <2>8. \A i, j \in mine : i < j => books'[i].number < books'[j].number
    <3> SUFFICES ASSUME NEW i \in mine, NEW j \in mine, i < j PROVE books'[i].number < books'[j].number
      OBVIOUS
    <3>1. CASE j = n
      <4>1. i \in Mine(t)
        BY <2>1, <2>5, <3>1
      <4> QED BY <2>2, <2>3, <2>4, <3>1, <4>1
    <3>2. CASE j \in Mine(t)
      <4>1. i \in Mine(t)
        BY <2>1, <2>2, <2>5, <3>2
      <4> QED BY <1>5, <2>2, <3>2, <4>1
    <3> QED BY <2>1, <3>1, <3>2
  <2> QED BY <1>5, <2>6, <2>7, <2>8 DEF mine
<1> QED BY <1>7, <1>8

-----------------------------------------------------------------------------
(* The invariant *)

\* The types of what is not in the tables
OthersFit ==
  /\ task \in [Callers -> Tasks]
  /\ toAudit \in [Callers -> Nat]
  /\ audits \in [1..MaxVouchers -> Nat]
  /\ crashes \in Nat

LEMMA TypesFit == ASSUME IInv PROVE TablesFit /\ OthersFit
  BY DEF IInv, TypeOK, TablesFit, EntriesFit, Entry, OthersFit

LEMMA FitTypes == ASSUME TablesFit, OthersFit PROVE TypeOK
<1>1. \A c \in Callers : task[c].kind \in {"idle", "amend", "period"}
  BY DEF OthersFit, Tasks, Idle
<1> QED BY <1>1 DEF TypeOK, TablesFit, EntriesFit, Entry, OthersFit

LEMMA FitTypesNext == ASSUME TablesFit', OthersFit' PROVE TypeOK'
<1>1. \A c \in Callers : task'[c].kind \in {"idle", "amend", "period"}
  BY DEF OthersFit, Tasks, Idle
<1> QED BY <1>1 DEF TypeOK, TablesFit, EntriesFit, Entry, OthersFit

LEMMA Initially == Init => IInv
<1> SUFFICES ASSUME Init PROVE IInv
  OBVIOUS
<1>1. books = <<>> /\ Len(books) = 0 /\ Ids = {} /\ books \in Seq(Entry)
  BY EmptySeq DEF Init, Ids
<1>2. TablesFit
  BY <1>1 DEF Init, TablesFit, EntriesFit, States
<1>3. OthersFit
  BY DEF Init, OthersFit, Tasks
<1>4. TypeOK
  BY <1>2, <1>3, FitTypes
<1>5. RefsFit /\ ReversalsPair /\ AllBalance
  BY <1>1 DEF RefsFit, ReversalsPair, AllBalance
<1>6. OneEntryPerKey
  BY <1>1 DEF OneEntryPerKey, Init
<1>7. NumbersRun
  <2> SUFFICES ASSUME NEW t \in Types
               PROVE  LET mine == {i \in Ids : books[i].type = t} IN
                      /\ {books[i].number : i \in mine} = 1..sequence[t]
                      /\ \A i, j \in mine : i < j => books[i].number < books[j].number
    BY DEF NumbersRun
  <2>1. sequence[t] = 0
    BY DEF Init
  <2> QED BY <1>1, <2>1
<1>8. AuditsFit
  BY <1>1, LedgerAssumption DEF AuditsFit, Init
<1> QED BY <1>3, <1>4, <1>5, <1>6, <1>7, <1>8 DEF IInv, OthersFit

\* The invariant goes on where the vouchers stay as they are.
LEMMA BooksStay ==
  ASSUME IInv, UNCHANGED <<books, remembered, sequence>>, period' \in [Months -> States],
         OthersFit', AuditsFit'
  PROVE  IInv'
<1>1. TablesFit'
  BY TypesFit DEF TablesFit, EntriesFit
<1>2. TypeOK'
  BY <1>1, FitTypesNext
<1>3. RefsFit'
  BY DEF IInv, RefsFit, Ids, Mirror
<1>4. ReversalsPair'
  BY DEF IInv, ReversalsPair, Ids
<1>5. AllBalance'
  BY DEF IInv, AllBalance, Ids, Balanced, Debits, Credits
<1>6. OneEntryPerKey'
  BY DEF IInv, OneEntryPerKey, Ids
<1>7. NumbersRun'
  BY DEF IInv, NumbersRun, Ids
<1> QED BY <1>2, <1>3, <1>4, <1>5, <1>6, <1>7 DEF IInv, OthersFit

\* What has just been posted is the caller's own to audit.
LEMMA AuditsAfterPosting ==
  ASSUME IInv, NEW c \in Callers, toAudit[c] = 0, Committed(c), NEW v, Inserts(v), UNCHANGED audits
  PROVE  AuditsFit' /\ toAudit' \in [Callers -> Nat]
<1> DEFINE n == Len(books) + 1
<1>1. Len(books) \in Nat /\ Len(books') = n /\ n \in Nat /\ n # 0 /\ n <= MaxVouchers /\ MaxVouchers \in Nat
  BY TypesFit, EntriesAre, LedgerAssumption DEF TablesFit, Inserts, Grown
<1>2. toAudit \in [Callers -> Nat] /\ audits \in [1..MaxVouchers -> Nat]
  BY TypesFit DEF OthersFit
<1>3. /\ Len(books) <= MaxVouchers
      /\ \A d \in Callers : toAudit[d] <= Len(books) /\ (toAudit[d] # 0 => audits[toAudit[d]] = 0)
      /\ \A d, e \in Callers : toAudit[d] = toAudit[e] /\ toAudit[d] # 0 => d = e
      /\ \A i \in 1..MaxVouchers : audits[i] <= 1 /\ (i > Len(books) => audits[i] = 0)
  BY DEF IInv, AuditsFit
<1>4. n \in 1..MaxVouchers /\ n > Len(books)
  BY <1>1
<1>5. toAudit' = [toAudit EXCEPT ![c] = n]
  BY DEF Committed
<1>6. toAudit' \in [Callers -> Nat] /\ \A d \in Callers : toAudit'[d] = IF d = c THEN n ELSE toAudit[d]
  BY <1>1, <1>2, <1>5
<1>7. audits[n] = 0
  BY <1>3, <1>4
<1> HIDE DEF n
<1>8. \A d \in Callers : toAudit[d] \in Nat /\ toAudit[d] # n /\ toAudit[d] <= n
  BY <1>1, <1>2, <1>3, <1>4
<1>9. \A d \in Callers : toAudit'[d] <= n /\ (toAudit'[d] # 0 => audits[toAudit'[d]] = 0)
  BY <1>1, <1>3, <1>6, <1>7, <1>8
<1>10. \A d, e \in Callers : toAudit'[d] = toAudit'[e] /\ toAudit'[d] # 0 => d = e
  BY <1>3, <1>6, <1>8
<1>11. \A i \in 1..MaxVouchers : audits[i] <= 1 /\ (i > n => audits[i] = 0)
  BY <1>1, <1>3, <1>4
<1> QED BY <1>1, <1>6, <1>9, <1>10, <1>11 DEF AuditsFit

\* The invariant goes on after a posting.
LEMMA Booked ==
  ASSUME IInv, NEW c \in Callers, toAudit[c] = 0, Committed(c), \E v : Inserts(v),
         UNCHANGED <<audits, crashes>>, task' \in [Callers -> Tasks]
  PROVE  IInv'
<1>1. PICK v : Inserts(v)
  OBVIOUS
<1>2. TablesFit'
  BY <1>1, TypesFit, InsertKeepsTypes
<1>3. AuditsFit' /\ toAudit' \in [Callers -> Nat]
  BY <1>1, AuditsAfterPosting
<1>4. OthersFit'
  BY <1>3, TypesFit DEF OthersFit
<1>5. TypeOK'
  BY <1>2, <1>4, FitTypesNext
<1>6. RefsFit' /\ ReversalsPair' /\ AllBalance'
  BY <1>1, TypesFit, InsertKeepsRefs DEF IInv
<1>7. OneEntryPerKey'
  BY <1>1, TypesFit, InsertKeepsKeys DEF IInv
<1>8. NumbersRun'
  BY <1>1, TypesFit, InsertKeepsNumbers DEF IInv
<1> QED BY <1>3, <1>5, <1>6, <1>7, <1>8 DEF IInv

-----------------------------------------------------------------------------
(* The steps *)

LEMMA KeysAre ==
  \A k \in Keys : <<k, "direct">> \in AllKeys /\ Reversal(k) \in AllKeys /\ Replacement(k) \in AllKeys
  BY DEF AllKeys

\* A step posts an entry for a caller that has nothing to audit, or leaves the
\* vouchers alone.
Posts(c) ==
  /\ toAudit[c] = 0 /\ Committed(c) /\ \E v : Inserts(v)
  /\ UNCHANGED <<audits, crashes>> /\ task' \in [Callers -> Tasks]
Leaves ==
  /\ UNCHANGED <<books, remembered, sequence>>
  /\ period' \in [Months -> States]
  /\ OthersFit' /\ AuditsFit'

LEMMA Standing == ASSUME IInv PROVE AuditsFit /\ OthersFit /\ period \in [Months -> States]
  BY TypesFit DEF IInv, TablesFit

\* A step that touches neither tables nor audits
LEMMA OnlyTask ==
  ASSUME IInv, UNCHANGED <<books, remembered, sequence, toAudit, audits, crashes>>,
         period' \in [Months -> States], task' \in [Callers -> Tasks]
  PROVE  Leaves
<1>1. AuditsFit'
  BY Standing DEF AuditsFit
<1>2. OthersFit'
  BY Standing DEF OthersFit
<1> QED BY <1>1, <1>2 DEF Leaves

LEMMA PostStep ==
  ASSUME IInv, NEW c \in Callers, NEW k \in Keys, NEW m \in Months, NEW e \in Entries, NEW o,
         PostVoucher(c, k, m, e, o)
  PROVE  Posts(c)
<1>1. \E v : Inserts(v)
  BY TypesFit, KeysAre, PostInserts DEF PostVoucher, TablesFit
<1> QED BY <1>1, Standing DEF PostVoucher, Posts, Free, OthersFit

LEMMA ReverseStep ==
  ASSUME IInv, NEW c \in Callers, NEW k \in Keys, NEW i \in Ids, NEW m \in Months, NEW o,
         ReverseVoucher(c, k, i, m, o)
  PROVE  Posts(c)
<1>1. \E v : Inserts(v)
  BY TypesFit, KeysAre, UndoInserts DEF ReverseVoucher, TablesFit, IInv
<1> QED BY <1>1, Standing DEF ReverseVoucher, Posts, Free, OthersFit

LEMMA AmendReverseStep ==
  ASSUME IInv, NEW c \in Callers, NEW k \in Keys, NEW i \in Ids, NEW m \in Months, NEW n \in Months,
         NEW e \in Entries, NEW o \in BOOLEAN, AmendReverse(c, k, i, m, n, e, o)
  PROVE  Posts(c) \/ Leaves
<1>1. task' \in [Callers -> Tasks]
  <2>1. Amending(k, n, e, o) \in Tasks
    BY DEF Amending, Tasks
  <2> QED BY <2>1, Standing DEF AmendReverse, OthersFit
<1>2. CASE remembered[Reversal(k)] = 0
  <2>1. Undo(Reversal(k), i, m, o) /\ Committed(c) /\ toAudit[c] = 0 /\ UNCHANGED <<audits, crashes>>
    BY <1>2 DEF AmendReverse, Free
  <2>2. \E v : Inserts(v)
    BY <2>1, TypesFit, KeysAre, UndoInserts DEF TablesFit, IInv
  <2> QED BY <1>1, <2>1, <2>2 DEF Posts
<1>3. CASE remembered[Reversal(k)] # 0
  <2>1. UNCHANGED <<tables, toAudit>> /\ UNCHANGED <<audits, crashes>>
    BY <1>3 DEF AmendReverse
  <2> QED BY <1>1, <2>1, Standing, OnlyTask DEF tables
<1> QED BY <1>2, <1>3

LEMMA AmendReplaceStep ==
  ASSUME IInv, NEW c \in Callers, AmendReplace(c)
  PROVE  Posts(c) \/ Leaves
<1> DEFINE t == task[c]
<1>1. t \in [kind : {"amend"}, key : Keys, month : Months, lines : Entries, override : BOOLEAN]
  BY Standing DEF AmendReplace, OthersFit, Tasks, Idle
<1>2. t.key \in Keys /\ t.month \in Months /\ t.lines \in Entries
  BY <1>1
<1>3. task' \in [Callers -> Tasks]
  BY Standing DEF AmendReplace, OthersFit, Tasks
<1>4. CASE remembered[Replacement(t.key)] = 0
  <2>1. /\ Post(Replacement(t.key), t.month, t.lines, t.override) /\ Committed(c)
        /\ toAudit[c] = 0 /\ UNCHANGED <<audits, crashes>>
    BY <1>4 DEF AmendReplace
  <2> HIDE DEF t
  <2>2. \E v : Inserts(v)
    BY <1>2, <2>1, TypesFit, KeysAre, PostInserts DEF TablesFit
  <2> QED BY <1>3, <2>1, <2>2 DEF Posts
<1>5. CASE remembered[Replacement(t.key)] # 0
  <2>1. UNCHANGED <<tables, toAudit>> /\ UNCHANGED <<audits, crashes>>
    BY <1>5 DEF AmendReplace
  <2> QED BY <1>3, <2>1, Standing, OnlyTask DEF tables
<1> QED BY <1>4, <1>5

LEMMA AmendRefusedStep ==
  ASSUME IInv, NEW c \in Callers, AmendRefused(c)
  PROVE  Leaves
<1>1. task' \in [Callers -> Tasks]
  BY Standing DEF AmendRefused, OthersFit, Tasks
<1> QED BY <1>1, Standing, OnlyTask DEF AmendRefused, tables

LEMMA ReadPeriodStep ==
  ASSUME IInv, NEW c \in Callers, NEW m \in Months, NEW s \in States, ReadPeriod(c, m, s)
  PROVE  Leaves
<1>1. task' \in [Callers -> Tasks]
  BY Standing DEF ReadPeriod, OthersFit, Tasks
<1> QED BY <1>1, Standing, OnlyTask DEF ReadPeriod, tables

LEMMA SetPeriodStep ==
  ASSUME IInv, NEW c \in Callers, SetPeriod(c)
  PROVE  Leaves
<1>1. task' \in [Callers -> Tasks]
  BY Standing DEF SetPeriod, OthersFit, Tasks
<1>2. task[c] \in [kind : {"period"}, month : Months, state : States]
  BY Standing DEF SetPeriod, OthersFit, Tasks, Idle
<1>3. period' \in [Months -> States]
  BY <1>2, Standing DEF SetPeriod
<1> QED BY <1>1, <1>3, OnlyTask DEF SetPeriod

LEMMA AuditStep ==
  ASSUME IInv, NEW c \in Callers, Audit(c)
  PROVE  Leaves
<1> DEFINE n == toAudit[c]
<1>1. toAudit \in [Callers -> Nat] /\ audits \in [1..MaxVouchers -> Nat] /\ Len(books) \in Nat
  BY TypesFit, EntriesAre DEF OthersFit, TablesFit
<1>2. /\ Len(books) <= MaxVouchers
      /\ \A d \in Callers : toAudit[d] <= Len(books) /\ (toAudit[d] # 0 => audits[toAudit[d]] = 0)
      /\ \A d, e \in Callers : toAudit[d] = toAudit[e] /\ toAudit[d] # 0 => d = e
      /\ \A i \in 1..MaxVouchers : audits[i] <= 1 /\ (i > Len(books) => audits[i] = 0)
  BY Standing DEF AuditsFit
<1>3. n \in 1..MaxVouchers /\ n <= Len(books) /\ audits[n] = 0 /\ n # 0
  BY <1>1, <1>2, LedgerAssumption DEF Audit
<1>4. audits' = [audits EXCEPT ![n] = @ + 1] /\ toAudit' = [toAudit EXCEPT ![c] = 0]
  BY DEF Audit
<1>5. \A d \in Callers : toAudit'[d] = IF d = c THEN 0 ELSE toAudit[d]
  BY <1>1, <1>4
<1>6. audits' = [audits EXCEPT ![n] = 1]
  BY <1>1, <1>3, <1>4
<1>6a. \A i \in 1..MaxVouchers : audits'[i] = IF i = n THEN 1 ELSE audits[i]
  BY <1>1, <1>6
<1>7. audits' \in [1..MaxVouchers -> Nat] /\ toAudit' \in [Callers -> Nat]
  <2>1. audits' \in [1..MaxVouchers -> Nat]
    <3> HIDE DEF n
    <3> QED BY <1>1, <1>6
  <2>2. toAudit' \in [Callers -> Nat]
    BY <1>1, <1>4
  <2> QED BY <2>1, <2>2
<1>8. \A d \in Callers : toAudit'[d] <= Len(books) /\ (toAudit'[d] # 0 => audits'[toAudit'[d]] = 0)
  <2> SUFFICES ASSUME NEW d \in Callers, d # c
               PROVE  toAudit[d] <= Len(books) /\ (toAudit[d] # 0 => audits'[toAudit[d]] = 0)
    BY <1>1, <1>5
  <2>1. toAudit[d] \in Nat /\ toAudit[d] <= Len(books)
    BY <1>1, <1>2
  <2>2. ASSUME toAudit[d] # 0 PROVE audits'[toAudit[d]] = 0
    <3>1. toAudit[d] # n /\ audits[toAudit[d]] = 0
      BY <1>2, <2>2
    <3>2. toAudit[d] \in 1..MaxVouchers
      BY <1>1, <1>2, <2>1, <2>2, LedgerAssumption
    <3> QED BY <1>6a, <3>1, <3>2
  <2> QED BY <2>1, <2>2
<1> HIDE DEF n
<1>9. \A d, e \in Callers : toAudit'[d] = toAudit'[e] /\ toAudit'[d] # 0 => d = e
  BY <1>2, <1>5
<1>10. \A i \in 1..MaxVouchers : audits'[i] <= 1 /\ (i > Len(books) => audits'[i] = 0)
  BY <1>1, <1>2, <1>3, <1>6a
<1>11. UNCHANGED <<books, remembered, sequence, period, task, crashes>>
  BY DEF Audit, tables
<1>12. AuditsFit'
  BY <1>2, <1>8, <1>9, <1>10, <1>11 DEF AuditsFit
<1>13. OthersFit'
  BY <1>7, <1>11, Standing DEF OthersFit
<1> QED BY <1>11, <1>12, <1>13, Standing DEF Leaves

LEMMA CrashStep ==
  ASSUME IInv, NEW c \in Callers, Crash(c)
  PROVE  Leaves
<1>1. toAudit \in [Callers -> Nat] /\ Len(books) \in Nat /\ crashes \in Nat
  BY TypesFit, EntriesAre DEF OthersFit, TablesFit
<1>2. toAudit' = [toAudit EXCEPT ![c] = 0]
  BY DEF Crash
<1>3. toAudit' \in [Callers -> Nat] /\ \A d \in Callers : toAudit'[d] = IF d = c THEN 0 ELSE toAudit[d]
  BY <1>1, <1>2
<1>4. UNCHANGED <<books, remembered, sequence, period, audits>>
  BY DEF Crash, tables
<1>5. AuditsFit'
  BY <1>1, <1>3, <1>4, Standing DEF AuditsFit
<1>6. task' \in [Callers -> Tasks]
  BY Standing DEF Crash, OthersFit, Tasks
<1>7. crashes' \in Nat
  BY <1>1 DEF Crash
<1>8. OthersFit'
  BY <1>3, <1>4, <1>6, <1>7, Standing DEF OthersFit
<1> QED BY <1>4, <1>5, <1>8, Standing DEF Leaves

\* Every step posts an entry or leaves the vouchers alone.
LEMMA Steps ==
  ASSUME IInv, Next
  PROVE  (\E c \in Callers : Posts(c)) \/ Leaves
<1>1. PICK c \in Callers :
        \/ \E k \in Keys, m \in Months, e \in Entries, o \in BOOLEAN : PostVoucher(c, k, m, e, o)
        \/ \E k \in Keys, i \in Ids, m \in Months, o \in BOOLEAN : ReverseVoucher(c, k, i, m, o)
        \/ \E k \in Keys, i \in Ids, m, n \in Months, e \in Entries, o \in BOOLEAN :
             AmendReverse(c, k, i, m, n, e, o)
        \/ \E m \in Months, s \in States \ {"NONE"} : ReadPeriod(c, m, s)
        \/ Continue(c)
        \/ Crash(c)
  BY DEF Next
<1>2. CASE \E k \in Keys, m \in Months, e \in Entries, o \in BOOLEAN : PostVoucher(c, k, m, e, o)
  BY <1>2, PostStep
<1>3. CASE \E k \in Keys, i \in Ids, m \in Months, o \in BOOLEAN : ReverseVoucher(c, k, i, m, o)
  BY <1>3, ReverseStep
<1>4. CASE \E k \in Keys, i \in Ids, m, n \in Months, e \in Entries, o \in BOOLEAN :
             AmendReverse(c, k, i, m, n, e, o)
  BY <1>4, AmendReverseStep
<1>5. CASE \E m \in Months, s \in States \ {"NONE"} : ReadPeriod(c, m, s)
  BY <1>5, ReadPeriodStep
<1>6. CASE Continue(c)
  BY <1>6, AmendReplaceStep, AmendRefusedStep, AuditStep, SetPeriodStep DEF Continue
<1>7. CASE Crash(c)
  BY <1>7, CrashStep
<1> QED BY <1>1, <1>2, <1>3, <1>4, <1>5, <1>6, <1>7

LEMMA Inductively == IInv /\ [Next]_vars => IInv'
<1> SUFFICES ASSUME IInv, [Next]_vars PROVE IInv'
  OBVIOUS
<1>1. CASE \E c \in Callers : Posts(c)
  BY <1>1, Booked DEF Posts
<1>2. CASE Leaves
  BY <1>2, BooksStay DEF Leaves
<1>3. CASE UNCHANGED vars
  <2>1. Leaves
    BY <1>3, Standing, OnlyTask DEF vars, OthersFit
  <2> QED BY <2>1, BooksStay DEF Leaves
<1> QED BY <1>1, <1>2, <1>3, Steps

-----------------------------------------------------------------------------
(* Theorems *)

\* The tables keep their types, whoever calls in whatever order and dies wherever.
THEOREM TypeCorrect == Spec => []TypeOK
<1>1. IInv => TypeOK
  BY DEF IInv
<1> QED BY <1>1, Initially, Inductively, PTL DEF Spec

\* An entry is undone at most once, by an entry that names it, and every balance
\* is that of the entries made by hand that stand: undoing, undoing an undoing
\* and amending move no balance by more or less than what they undo
\* (reverseVoucher, amendVoucher, mirrorLines).
THEOREM BooksAlwaysHold == Spec => []BooksHold
<1>1. IInv => BooksHold
  <2> SUFFICES ASSUME IInv PROVE BooksHold
    OBVIOUS
  <2>1. ReversalsPair
    BY DEF IInv
  <2>2. \A i \in Ids : Balanced(books[i].lines)
    BY DEF IInv, AllBalance
  <2>3. \A a \in Postable :
          BalanceOf(Ids, a) = BalanceOf({i \in Ids : books[i].reverses = 0 /\ Stands[i]}, a)
    BY TypesFit, ShownWhatStands DEF IInv, TablesFit
  <2> QED BY <2>1, <2>2, <2>3 DEF BooksHold, BooksShowWhatStands
<1> QED BY <1>1, Initially, Inductively, PTL DEF Spec

\* However often a command is retried, by whomever, it leaves one entry and one
\* number, numbers of a type run without a gap, and no entry is audited twice.
THEOREM OnceEachAlways == Spec => []OnceEach
<1>1. IInv => OnceEach
  BY DEF IInv, AuditsFit, OnceEach, AuditedOnce
<1> QED BY <1>1, Initially, Inductively, PTL DEF Spec

\* No step changes what an entry says, or the mark of an entry that was undone.
THEOREM EntriesKept == Spec => EntriesAreKept
<1>1. IInv /\ [Next]_vars =>
        [\A i \in Ids :
           /\ i <= Len(books')
           /\ books'[i] = [books[i] EXCEPT !.state = books'[i].state, !.reversedBy = books'[i].reversedBy]
           /\ books[i].reversedBy # 0 => books'[i] = books[i]]_vars
  <2> SUFFICES ASSUME IInv, Next, NEW i \in Ids
               PROVE  /\ i <= Len(books')
                      /\ books'[i] = [books[i] EXCEPT !.state = books'[i].state, !.reversedBy = books'[i].reversedBy]
                      /\ books[i].reversedBy # 0 => books'[i] = books[i]
    OBVIOUS
  <2>1. books[i] \in Entry /\ Len(books) \in Nat /\ i \in Nat /\ i <= Len(books) /\ i # 0
    BY TypesFit, EntriesAre DEF TablesFit, Ids
  <2>2. CASE books' = books
    BY <2>1, <2>2 DEF Entry
  <2>3. CASE \E v : Inserts(v)
    <3>1. PICK v : Inserts(v)
      BY <2>3
    <3>2. Len(books') = Len(books) + 1 /\ books'[i] = Marked(v, i)
      BY <3>1 DEF Inserts, Grown
    <3>6. i <= Len(books')
      BY <2>1, <3>2
    <3>3. v.reverses = i => books[i].reversedBy = 0
      BY <2>1, <3>1 DEF Inserts, IsNext
    <3>4. CASE i = v.reverses
      <4> DEFINE n == Len(books) + 1
      <4>1. books'[i] = [books[i] EXCEPT !.state = "REVERSED", !.reversedBy = n]
        BY <3>2, <3>4 DEF Marked
      <4> HIDE DEF n
      <4>2. books'[i] = [books[i] EXCEPT !.state = books'[i].state, !.reversedBy = books'[i].reversedBy]
        BY <2>1, <4>1 DEF Entry
      <4> QED BY <3>3, <3>4, <3>6, <4>2
    <3>5. CASE i # v.reverses
      <4>1. books'[i] = books[i]
        BY <3>2, <3>5 DEF Marked
      <4>2. books[i] = [books[i] EXCEPT !.state = books[i].state, !.reversedBy = books[i].reversedBy]
        BY <2>1 DEF Entry
      <4> QED BY <3>6, <4>1, <4>2
    <3> QED BY <3>4, <3>5
  <2> QED BY <2>2, <2>3, Steps DEF Posts, Leaves
<1> QED BY <1>1, Initially, Inductively, PTL DEF Spec, EntriesAreKept

\* No posting, by any command, enters a month that is closed for good.
THEOREM ClosedMonthsStay == Spec => [][NothingInClosedMonths]_vars
<1>1. IInv /\ [Next]_vars => [NothingInClosedMonths]_vars
  <2> SUFFICES ASSUME IInv, Next, NEW i \in 1..Len(books'), i > Len(books)
               PROVE  period[books'[i].month] # "HARD_LOCKED"
    BY DEF NothingInClosedMonths
  <2>1. Len(books) \in Nat
    BY TypesFit, EntriesAre DEF TablesFit
  <2>2. CASE books' = books
    BY <2>1, <2>2
  <2>3. CASE \E v : Inserts(v)
    <3>1. PICK v : Inserts(v)
      BY <2>3
    <3>2. Len(books') = Len(books) + 1 /\ books'[Len(books) + 1] = v /\ period[v.month] # "HARD_LOCKED"
      BY <3>1 DEF Inserts, IsNext, Grown
    <3>3. i = Len(books) + 1
      BY <2>1, <3>2
    <3> QED BY <3>2, <3>3
  <2> QED BY <2>2, <2>3, Steps DEF Posts, Leaves
<1> QED BY <1>1, Initially, Inductively, PTL DEF Spec

-----------------------------------------------------------------------------
(* Closed months *)

LEMMA OnlyOpened ==
  ASSUME period \in [Months -> States], NEW month, period' = Ensured(month)
  PROVE  \A m \in Months : period'[m] = "HARD_LOCKED" <=> period[m] = "HARD_LOCKED"
BY DEF Ensured

\* Nothing else than SetPeriod closes a month, and what is read of one is so.
LEMMA MonthsStay ==
  ASSUME IInv, Next
  PROVE  \/ \E c \in Callers : SetPeriod(c)
         \/ /\ \A m \in Months : period'[m] = "HARD_LOCKED" <=> period[m] = "HARD_LOCKED"
            /\ \A d \in Callers :
                 task'[d].kind = "period" => task'[d] = task[d] \/ period[task'[d].month] # "HARD_LOCKED"
<1> DEFINE Months2 == \A m \in Months : period'[m] = "HARD_LOCKED" <=> period[m] = "HARD_LOCKED"
           Tasks2 == \A d \in Callers :
                       task'[d].kind = "period" => task'[d] = task[d] \/ period[task'[d].month] # "HARD_LOCKED"
<1>0. period \in [Months -> States] /\ task \in [Callers -> Tasks]
  BY Standing DEF OthersFit
<1>1. ASSUME NEW key, NEW month, NEW lines, NEW o, Post(key, month, lines, o) PROVE Months2
  BY <1>0, <1>1, OnlyOpened DEF Post, Insert, Voucher
<1>2. ASSUME NEW key, NEW id, NEW month, NEW o, Undo(key, id, month, o) PROVE Months2
  BY <1>0, <1>2, OnlyOpened DEF Undo, Insert, Voucher
<1>3. ASSUME UNCHANGED task PROVE Tasks2
  BY <1>3
<1>4. ASSUME NEW c \in Callers, NEW t, task' = [task EXCEPT ![c] = t], t.kind = "period" => period[t.month] # "HARD_LOCKED"
      PROVE  Tasks2
  BY <1>0, <1>4
<1>5. Idle.kind # "period"
  BY DEF Idle
<1> HIDE DEF Months2, Tasks2
<1>6. ASSUME NEW c \in Callers, NEW k \in Keys, NEW m \in Months, NEW e \in Entries, NEW o \in BOOLEAN, PostVoucher(c, k, m, e, o)
      PROVE  Months2 /\ Tasks2
  BY <1>1, <1>3, <1>6 DEF PostVoucher
<1>7. ASSUME NEW c \in Callers, NEW k \in Keys, NEW i \in Ids, NEW m \in Months, NEW o \in BOOLEAN, ReverseVoucher(c, k, i, m, o)
      PROVE  Months2 /\ Tasks2
  BY <1>2, <1>3, <1>7 DEF ReverseVoucher
<1>8. UNCHANGED tables => Months2
  BY DEF tables, Months2
<1>9. ASSUME NEW c \in Callers, NEW k \in Keys, NEW i \in Ids, NEW m \in Months, NEW n \in Months, NEW e \in Entries,
             NEW o \in BOOLEAN, AmendReverse(c, k, i, m, n, e, o)
      PROVE  Months2 /\ Tasks2
  <2>1. task' = [task EXCEPT ![c] = Amending(k, n, e, o)] /\ Amending(k, n, e, o).kind # "period"
    BY <1>9 DEF AmendReverse, Amending
  <2>2. Tasks2
    BY <1>4, <2>1
  <2> QED BY <1>2, <1>8, <1>9, <2>2 DEF AmendReverse
<1>10. ASSUME NEW c \in Callers, AmendReplace(c) \/ AmendRefused(c) PROVE Months2 /\ Tasks2
  <2>1. task' = [task EXCEPT ![c] = Idle]
    BY <1>10 DEF AmendReplace, AmendRefused
  <2>2. Tasks2
    BY <1>4, <1>5, <2>1
  <2> QED BY <1>1, <1>8, <1>10, <2>2 DEF AmendReplace, AmendRefused
<1>11. ASSUME NEW c \in Callers, Audit(c) PROVE Months2 /\ Tasks2
  BY <1>3, <1>8, <1>11 DEF Audit
<1>12. ASSUME NEW c \in Callers, NEW m \in Months, NEW s \in States \ {"NONE"}, ReadPeriod(c, m, s) PROVE Months2 /\ Tasks2
  <2> DEFINE t == [kind |-> "period", month |-> m, state |-> s]
  <2>1. task' = [task EXCEPT ![c] = t] /\ period[t.month] # "HARD_LOCKED" /\ UNCHANGED tables
    BY <1>12 DEF ReadPeriod
  <2> HIDE DEF t
  <2> QED BY <1>4, <1>8, <2>1
<1>13. ASSUME NEW c \in Callers, Crash(c) PROVE Months2 /\ Tasks2
  <2>1. task' = [task EXCEPT ![c] = Idle] /\ UNCHANGED tables
    BY <1>13 DEF Crash
  <2> QED BY <1>4, <1>5, <1>8, <2>1
<1>14. (\E c \in Callers : SetPeriod(c)) \/ (Months2 /\ Tasks2)
  BY <1>6, <1>7, <1>9, <1>10, <1>11, <1>12, <1>13 DEF Next, Continue
<1> QED BY <1>14 DEF Months2, Tasks2

\* While one caller is served at a time, what it read of a month is still so.
ServedAlone ==
  case = "alone" =>
    /\ \A c, d \in Callers : c # d => Free(c) \/ Free(d)
    /\ \A c \in Callers : task[c].kind = "period" => period[task[c].month] # "HARD_LOCKED"

LEMMA AloneFirst == MCInit => ServedAlone
BY DEF MCInit, Init, ServedAlone, Free, Idle

ClosedStay == case = "alone" => \A m \in Months : period[m] = "HARD_LOCKED" => period'[m] = "HARD_LOCKED"

LEMMA AloneNext == ASSUME IInv, ServedAlone, MCNext PROVE ServedAlone' /\ [ClosedStay]_vars
<1> USE DEF ServedAlone, ClosedStay
<1>0. case' = case
  BY DEF MCNext
<1>1. CASE case # "alone"
  BY <1>0, <1>1
<1>2. CASE case = "alone" /\ UNCHANGED vars
  BY <1>0, <1>2 DEF vars, Free
<1>3. CASE case = "alone" /\ ~UNCHANGED vars
  <2>1. Next /\ Within'
    BY <1>3 DEF MCNext
  <2>2. \A c, d \in Callers : c # d => Free(c)' \/ Free(d)'
    BY <1>0, <1>3, <2>1 DEF Within
  <2>3. period \in [Months -> States] /\ task \in [Callers -> Tasks] /\ task' \in [Callers -> Tasks] /\ period' \in [Months -> States]
    BY <2>1, Standing, Inductively DEF OthersFit, IInv, TypeOK
  <2>4. \A c \in Callers : task[c].kind = "period" => task[c].month \in Months
    BY <2>3 DEF Tasks, Idle
  <2>5. \A c \in Callers : task'[c].kind = "period" => task'[c].month \in Months
    BY <2>3 DEF Tasks, Idle
  <2>6. ASSUME NEW c \in Callers, SetPeriod(c) PROVE ServedAlone' /\ ClosedStay
    <3>1. task[c].kind = "period" /\ period[task[c].month] # "HARD_LOCKED" /\ ~Free(c)
      BY <1>3, <2>6 DEF SetPeriod, Free, Idle
    <3>2. task' = [task EXCEPT ![c] = Idle] /\ period' = [period EXCEPT ![task[c].month] = task[c].state]
      BY <2>6 DEF SetPeriod
    <3>3. \A d \in Callers : task'[d] = Idle
      BY <1>3, <2>3, <3>1, <3>2 DEF Free
    <3>4. \A d \in Callers : task'[d].kind # "period"
      BY <3>3 DEF Idle
    <3>5. \A m \in Months : period[m] = "HARD_LOCKED" => period'[m] = "HARD_LOCKED"
      BY <2>3, <3>1, <3>2
    <3> QED BY <2>2, <3>4, <3>5
  <2>7. ASSUME \A m \in Months : period'[m] = "HARD_LOCKED" <=> period[m] = "HARD_LOCKED",
               \A d \in Callers :
                 task'[d].kind = "period" => task'[d] = task[d] \/ period[task'[d].month] # "HARD_LOCKED"
        PROVE  ServedAlone' /\ ClosedStay
    BY <1>3, <2>2, <2>4, <2>5, <2>7
  <2> QED BY <2>1, <2>6, <2>7, MonthsStay
<1> QED BY <1>1, <1>2, <1>3

-----------------------------------------------------------------------------
(* The lines of the bank *)

Calls ==
  [kind : Feed!Kinds, answer : {None, "ok", "outage", "refused", "untrusted"}, key : {None} \cup Keys,
   from : 0..MaxLines, page : SUBSET (1..MaxLines)]

\* A page goes from a place the cursor had passed to all the bank had.
PageFits(r, at, has) ==
  r.kind = "sync" =>
    /\ r.key \in Keys /\ r.from <= at
    /\ \/ r.page = {}
       \/ \E f \in 0..r.from, n \in r.from..has : r.page = (f + 1)..n

SyncsFit ==
  /\ results \in [Keys -> {None} \cup SUBSET (1..MaxLines)]
  /\ call \in [Callers -> Calls]
  /\ link \in [state : Feed!States, named : BOOLEAN, used : BOOLEAN]
  /\ bank \in [permission : {"none", "asked", "given", "over"}, lines : 0..MaxLines]
  /\ cursor \in 0..bank.lines
  /\ \A c \in Callers : PageFits(call[c], cursor, bank.lines)
  /\ Feed!LinesComeOnce

LEMMA SyncsFitFirst == Feed!Init => SyncsFit
<1> SUFFICES ASSUME Feed!Init PROVE SyncsFit
  OBVIOUS
<1> USE BankAssumption DEF Feed!Init
<1>1. call \in [Callers -> Calls]
  BY DEF Calls, Feed!Kinds, Feed!Idle
<1>2. \A c \in Callers : PageFits(call[c], cursor, bank.lines)
  BY DEF PageFits, Feed!Idle
<1>3. Feed!LinesComeOnce
  BY DEF Feed!LinesComeOnce
<1> QED BY <1>1, <1>2, <1>3 DEF SyncsFit, Feed!States

\* Any step that brings no line in, whatever becomes of one call
LEMMA CallStep ==
  ASSUME SyncsFit, NEW c \in Callers, NEW r \in Calls, call' = [call EXCEPT ![c] = r],
         UNCHANGED <<results, cursor>>, bank'.lines = bank.lines,
         bank' \in [permission : {"none", "asked", "given", "over"}, lines : 0..MaxLines],
         link' \in [state : Feed!States, named : BOOLEAN, used : BOOLEAN],
         PageFits(r, cursor, bank.lines)
  PROVE  SyncsFit'
<1>1. call' \in [Callers -> Calls]
  BY DEF SyncsFit
<1>2. \A d \in Callers : PageFits(call'[d], cursor', bank'.lines)
  BY DEF SyncsFit
<1>3. Feed!LinesComeOnce'
  BY DEF SyncsFit, Feed!LinesComeOnce, Feed!Imported
<1> QED BY <1>1, <1>2, <1>3 DEF SyncsFit

LEMMA LinkStep ==
  ASSUME SyncsFit, UNCHANGED <<results, cursor, call>>, bank'.lines \in bank.lines..MaxLines,
         bank' \in [permission : {"none", "asked", "given", "over"}, lines : 0..MaxLines],
         link' \in [state : Feed!States, named : BOOLEAN, used : BOOLEAN]
  PROVE  SyncsFit'
<1> USE BankAssumption
<1>1. bank.lines \in 0..MaxLines /\ cursor \in 0..MaxLines
  BY DEF SyncsFit
<1>2. \A d \in Callers : PageFits(call'[d], cursor', bank'.lines)
  <2> TAKE d \in Callers
  <2>1. PageFits(call[d], cursor, bank.lines) /\ call[d] \in Calls
    BY DEF SyncsFit
  <2> QED BY <1>1, <2>1 DEF PageFits, Calls
<1>3. Feed!LinesComeOnce'
  BY DEF SyncsFit, Feed!LinesComeOnce, Feed!Imported
<1> QED BY <1>1, <1>2, <1>3 DEF SyncsFit

LEMMA IdleFits == Feed!Idle \in Calls /\ \A at, has : PageFits(Feed!Idle, at, has)
BY BankAssumption DEF Calls, Feed!Kinds, Feed!Idle, PageFits

LEMMA AskedFits ==
  ASSUME NEW kind \in Feed!Kinds \ {"sync"}
  PROVE  [Feed!Idle EXCEPT !.kind = kind] \in Calls /\ \A at, has : PageFits([Feed!Idle EXCEPT !.kind = kind], at, has)
BY BankAssumption DEF Calls, Feed!Kinds, Feed!Idle, PageFits

LEMMA RepliedFits ==
  ASSUME NEW r \in Calls, NEW answer \in {"ok", "outage", "refused", "untrusted"}, NEW at, NEW has, PageFits(r, at, has)
  PROVE  [r EXCEPT !.answer = answer] \in Calls /\ PageFits([r EXCEPT !.answer = answer], at, has)
BY DEF Calls, PageFits

\* The lines of a sync that lands are all up to the new cursor, and no other sync's.
LEMMA SyncLands ==
  ASSUME SyncsFit, NEW c \in Callers, Feed!Synced(c)
  PROVE  SyncsFit' /\ (cursor' >= cursor) /\ (\A k \in Keys : results[k] # None => results'[k] = results[k])
                   /\ (link.state # "CONNECTED" => results' = results)
<1> USE BankAssumption
<1> DEFINE r == call[c]
<1>1. r \in Calls /\ PageFits(r, cursor, bank.lines) /\ r.kind = "sync" /\ bank.lines \in 0..MaxLines /\ cursor \in 0..bank.lines
  BY DEF SyncsFit, Feed!Synced, Feed!Answered
<1>2. r.key \in Keys /\ r.from \in 0..MaxLines /\ r.from <= cursor /\ r.page \in SUBSET (1..MaxLines)
  BY <1>1 DEF PageFits, Calls
<1>3. call' = [call EXCEPT ![c] = Feed!Idle] /\ link' = link /\ bank' = bank
  BY DEF Feed!Synced, Feed!Done
<1>4. CASE ~Feed!MayLand(c)
  <2>1. UNCHANGED <<results, cursor>>
    BY <1>4 DEF Feed!Synced
  <2>2. SyncsFit'
    <3> HIDE DEF r
    <3> QED BY <1>1, <1>3, <2>1, IdleFits, CallStep DEF SyncsFit
  <2> QED BY <1>1, <2>1, <2>2
<1>5. CASE Feed!MayLand(c)
  <2>1. results[r.key] = None /\ link.state = "CONNECTED"
    BY <1>5 DEF Feed!MayLand
  <2> DEFINE fresh == r.page \ Feed!Imported
  <2>2. results' = [results EXCEPT ![r.key] = fresh] /\ cursor' = IF cursor = r.from THEN Feed!NextCursor(c) ELSE cursor
    BY <1>5 DEF Feed!Synced, Feed!Fresh, Feed!Advanced
  <2>3. fresh \in SUBSET (1..MaxLines) /\ fresh # None
    BY <1>2
  <2> HIDE DEF fresh
  <2>4. results' \in [Keys -> {None} \cup SUBSET (1..MaxLines)] /\ results'[r.key] = fresh
        /\ \A k \in Keys \ {r.key} : results'[k] = results[k]
    BY <1>2, <2>2, <2>3 DEF SyncsFit
  <2>5. Feed!Imported' = Feed!Imported \cup r.page
    <3>1. \A x : x \in Feed!Imported <=> \E k \in Keys : results[k] # None /\ x \in results[k]
      BY DEF Feed!Imported
    <3>2. \A x : x \in Feed!Imported' <=> \E k \in Keys : results'[k] # None /\ x \in results'[k]
      BY DEF Feed!Imported
    <3>3. \A x : x \in fresh <=> x \in r.page /\ x \notin Feed!Imported
      BY DEF fresh
    <3> HIDE DEF r
    <3> QED BY <1>2, <2>1, <2>3, <2>4, <3>1, <3>2, <3>3
  <2>6. cursor' \in cursor..bank.lines /\ 1..cursor' \subseteq Feed!Imported'
    <3>1. 1..cursor \subseteq Feed!Imported
      BY DEF SyncsFit, Feed!LinesComeOnce
    <3>2. CASE cursor # r.from \/ r.page = {}
      BY <1>1, <2>2, <2>5, <3>1, <3>2 DEF Feed!NextCursor
    <3>3. CASE cursor = r.from /\ r.page # {}
      <4>1. PICK f \in 0..r.from, n \in r.from..bank.lines : r.page = (f + 1)..n
        BY <1>1, <3>3 DEF PageFits
      <4>2. cursor' = CHOOSE m \in r.page : \A l \in r.page : l <= m
        BY <2>2, <3>3 DEF Feed!NextCursor
      <4> HIDE DEF r
      <4>3. n \in r.page /\ \A l \in r.page : l <= n
        BY <1>1, <1>2, <3>3, <4>1
      <4>4. cursor' \in r.page /\ \A l \in r.page : l <= cursor'
        BY <4>2, <4>3
      <4>5. f \in Int /\ n \in Int /\ n <= cursor' /\ cursor' \in (f + 1)..n
        BY <1>1, <1>2, <4>1, <4>3, <4>4
      <4>6. cursor' = n
        BY <4>5
      <4> QED BY <1>1, <1>2, <2>5, <3>1, <3>3, <4>1, <4>6
    <3> QED BY <3>2, <3>3
  <2>7. \A k, q \in Keys : k # q /\ results'[k] # None /\ results'[q] # None => results'[k] \cap results'[q] = {}
    <3>1. \A k \in Keys : results[k] # None => results[k] \cap fresh = {}
      BY DEF fresh, Feed!Imported
    <3>2. \A k, q \in Keys : k # q /\ results[k] # None /\ results[q] # None => results[k] \cap results[q] = {}
      BY DEF SyncsFit, Feed!LinesComeOnce
    <3> HIDE DEF r
    <3> QED BY <2>4, <3>1, <3>2
  <2>8. Feed!LinesComeOnce'
    BY <2>6, <2>7 DEF Feed!LinesComeOnce
  <2>9. call' \in [Callers -> Calls] /\ \A d \in Callers : PageFits(call'[d], cursor', bank'.lines)
    <3>1. call' \in [Callers -> Calls]
      BY <1>3, IdleFits DEF SyncsFit
    <3>2. \A d \in Callers : PageFits(call'[d], cursor', bank.lines)
      <4> TAKE d \in Callers
      <4>1. CASE d = c
        BY <1>3, <4>1, IdleFits DEF SyncsFit
      <4>2. CASE d # c
        <5>1. call'[d] = call[d] /\ PageFits(call[d], cursor, bank.lines) /\ call[d] \in Calls
          BY <1>3, <4>2 DEF SyncsFit
        <5> HIDE DEF r
        <5> QED BY <1>1, <2>6, <5>1 DEF PageFits, Calls
      <4> QED BY <4>1, <4>2
    <3> QED BY <1>3, <3>1, <3>2
  <2>10. cursor' \in 0..bank'.lines /\ cursor' >= cursor
    BY <1>1, <1>3, <2>6
  <2>11. SyncsFit'
    BY <1>3, <2>4, <2>8, <2>9, <2>10 DEF SyncsFit
  <2> HIDE DEF r
  <2> QED BY <1>2, <2>1, <2>4, <2>10, <2>11
<1> QED BY <1>4, <1>5

\* What every step leaves as it was
Stand ==
  /\ \A k \in Keys : results[k] # None => results'[k] = results[k]
  /\ cursor' >= cursor
  /\ link.state \in Feed!Ended => link'.state \in Feed!Ended /\ results' = results

LEMMA Syncing == SyncsFit /\ [Feed!Next]_(Feed!vars) => SyncsFit' /\ [Stand]_(Feed!vars)
<1> SUFFICES ASSUME SyncsFit, [Feed!Next]_(Feed!vars) PROVE SyncsFit' /\ [Stand]_(Feed!vars)
  OBVIOUS
<1> USE BankAssumption
<1> DEFINE Banks == [permission : {"none", "asked", "given", "over"}, lines : 0..MaxLines]
           Links == [state : Feed!States, named : BOOLEAN, used : BOOLEAN]
<1>0. /\ link \in Links /\ bank \in Banks /\ cursor \in 0..bank.lines /\ bank.lines \in 0..MaxLines
      /\ \A c \in Callers : call[c] \in Calls /\ PageFits(call[c], cursor, bank.lines)
  BY DEF SyncsFit
<1>1. CASE UNCHANGED Feed!vars
  <2>1. UNCHANGED <<results, cursor, call, bank, link>>
    BY <1>1 DEF Feed!vars
  <2> QED BY <1>0, <1>1, <2>1, LinkStep
<1>2. ASSUME UNCHANGED <<results, cursor>>, link.state \in Feed!Ended => link'.state \in Feed!Ended PROVE Stand
  BY <1>0, <1>2 DEF Stand
<1>3. ASSUME NEW c \in Callers, NEW r \in Calls, call' = [call EXCEPT ![c] = r], UNCHANGED <<results, cursor>>,
             bank' \in Banks, bank'.lines = bank.lines, link' \in Links, PageFits(r, cursor, bank.lines)
      PROVE  SyncsFit'
  BY <1>3, CallStep
<1>4. ASSUME NEW c \in Callers,
             \/ Feed!StartConsent(c) \/ Feed!ConsentStarted(c) \/ Feed!CompleteConsent(c) \/ Feed!ConsentCompleted(c)
             \/ Feed!Disconnect(c) \/ Feed!Disconnected(c) \/ Feed!SyncFailed(c)
      PROVE  SyncsFit' /\ Stand
  <2>1. UNCHANGED <<results, cursor, bank>>
    BY <1>4 DEF Feed!StartConsent, Feed!ConsentStarted, Feed!CompleteConsent, Feed!ConsentCompleted, Feed!Disconnect,
                Feed!Disconnected, Feed!SyncFailed
  <2>2. link' \in Links /\ (link.state \in Feed!Ended => link'.state \in Feed!Ended)
    BY <1>0, <1>4 DEF Feed!StartConsent, Feed!ConsentStarted, Feed!CompleteConsent, Feed!ConsentCompleted, Feed!Disconnect,
                Feed!Disconnected, Feed!SyncFailed, Feed!To, Feed!States, Feed!Ended, Feed!Unnamed, Feed!Replying
  <2>3. \E r \in Calls : call' = [call EXCEPT ![c] = r] /\ PageFits(r, cursor, bank.lines)
    <3>1. CASE Feed!StartConsent(c) \/ Feed!CompleteConsent(c)
      <4>1. \E kind \in {"start", "complete"} : call' = [call EXCEPT ![c] = [Feed!Idle EXCEPT !.kind = kind]]
        BY <3>1 DEF Feed!StartConsent, Feed!CompleteConsent, Feed!Ask
      <4>2. {"start", "complete"} \subseteq Feed!Kinds \ {"sync"}
        BY DEF Feed!Kinds
      <4> QED BY <4>1, <4>2, AskedFits
    <3>2. CASE Feed!Disconnect(c)
      <4>1. \E answer \in {None, "ok"} : call' = [call EXCEPT ![c] = [Feed!Idle EXCEPT !.kind = "disconnect", !.answer = answer]]
        BY <3>2 DEF Feed!Disconnect
      <4>2. \A answer \in {None, "ok"} :
              LET r == [Feed!Idle EXCEPT !.kind = "disconnect", !.answer = answer] IN r \in Calls /\ PageFits(r, cursor, bank.lines)
        <5> TAKE answer \in {None, "ok"}
        <5> DEFINE i == Feed!Idle
        <5>1. i \in Calls
          BY IdleFits
        <5> HIDE DEF i
        <5>2. [i EXCEPT !.kind = "disconnect", !.answer = answer] \in Calls
              /\ [i EXCEPT !.kind = "disconnect", !.answer = answer].kind = "disconnect"
          BY <5>1 DEF Calls, Feed!Kinds
        <5>3. PageFits([i EXCEPT !.kind = "disconnect", !.answer = answer], cursor, bank.lines)
          BY <5>2 DEF PageFits
        <5> QED BY <5>2, <5>3 DEF i
      <4> QED BY <4>1, <4>2
    <3>3. CASE Feed!ConsentStarted(c) \/ Feed!ConsentCompleted(c) \/ Feed!Disconnected(c) \/ Feed!SyncFailed(c)
      BY <3>3, IdleFits DEF Feed!ConsentStarted, Feed!ConsentCompleted, Feed!Disconnected, Feed!SyncFailed, Feed!Done
    <3> QED BY <1>4, <3>1, <3>2, <3>3
  <2> HIDE DEF Banks, Links
  <2> QED BY <1>0, <1>2, <1>3, <2>1, <2>2, <2>3
<1>5. ASSUME NEW c \in Callers, NEW k \in Keys, Feed!Sync(c, k)
      PROVE  SyncsFit' /\ Stand
  <2>1. UNCHANGED <<results, cursor, bank>> /\ link.state = "CONNECTED" /\ link' \in Links
    BY <1>0, <1>5 DEF Feed!Sync, Feed!To, Feed!States
  <2>2. Stand
    BY <1>2, <2>1 DEF Feed!Ended
  <2>3. CASE UNCHANGED call
    BY <1>0, <2>1, <2>2, <2>3, LinkStep
  <2>4. CASE call' = [call EXCEPT ![c] = [Feed!Idle EXCEPT !.kind = "sync", !.key = k, !.from = cursor]]
    <3> DEFINE r == [Feed!Idle EXCEPT !.kind = "sync", !.key = k, !.from = cursor]
    <3>1. r \in Calls /\ PageFits(r, cursor, bank.lines)
      <4> DEFINE i == Feed!Idle
      <4>1. i \in Calls /\ i.page = {}
        BY IdleFits DEF Feed!Idle
      <4>2. cursor \in 0..MaxLines /\ cursor <= cursor
        BY <1>0
      <4> HIDE DEF i
      <4> DEFINE s == [i EXCEPT !.kind = "sync", !.key = k, !.from = cursor]
      <4>3. s \in Calls /\ s.kind = "sync" /\ s.key = k /\ s.from = cursor /\ s.page = {}
        BY <4>1, <4>2 DEF Calls, Feed!Kinds
      <4>4. r = s
        BY DEF i
      <4> HIDE DEF r, s
      <4> QED BY <4>2, <4>3, <4>4 DEF PageFits
    <3> HIDE DEF r
    <3>2. call' = [call EXCEPT ![c] = r]
      BY <2>4 DEF r
    <3> QED BY <1>0, <1>3, <2>1, <2>2, <3>1, <3>2
  <2> QED BY <1>5, <2>3, <2>4 DEF Feed!Sync
<1>6. ASSUME NEW c \in Callers, Feed!Synced(c) PROVE SyncsFit' /\ Stand
  <2>1. link' = link
    BY <1>6 DEF Feed!Synced
  <2> QED BY <1>6, <2>1, SyncLands DEF Stand, Feed!Ended
<1>7. ASSUME NEW c \in Callers, Feed!BankSends(c) PROVE SyncsFit' /\ Stand
  <2>1. UNCHANGED <<results, cursor, bank, link>> /\ call[c].kind = "sync"
    BY <1>7 DEF Feed!BankSends, Feed!Asking
  <2>2. PICK from \in {0, call[c].from} : call' = [call EXCEPT ![c] = [call[c] EXCEPT !.answer = "ok", !.page = (from + 1)..bank.lines]]
    BY <1>7 DEF Feed!BankSends
  <2> DEFINE r == [call[c] EXCEPT !.answer = "ok", !.page = (from + 1)..bank.lines]
  <2>3. call[c] \in Calls /\ PageFits(call[c], cursor, bank.lines)
    BY <1>0
  <2>4. call[c].from \in 0..MaxLines /\ call[c].from <= cursor /\ call[c].key \in Keys
    BY <2>1, <2>3 DEF PageFits, Calls
  <2>5. from \in 0..call[c].from /\ bank.lines \in call[c].from..bank.lines /\ (from + 1)..bank.lines \in SUBSET (1..MaxLines)
    BY <1>0, <2>4
  <2>6. r \in Calls
    BY <2>3, <2>5 DEF Calls
  <2>7. r.kind = "sync" /\ r.key = call[c].key /\ r.from = call[c].from /\ r.page = (from + 1)..bank.lines
    BY <2>1, <2>3 DEF Calls
  <2> HIDE DEF r
  <2>8. PageFits(r, cursor, bank.lines)
    BY <2>4, <2>5, <2>7 DEF PageFits
  <2>9. call' = [call EXCEPT ![c] = r]
    BY <2>2 DEF r
  <2> QED BY <1>0, <1>2, <1>3, <2>1, <2>6, <2>8, <2>9
<1>8. ASSUME NEW c \in Callers,
             \/ Feed!BankStarts(c) \/ Feed!BankGrants(c) \/ Feed!Untrusted(c) \/ Feed!BankRefuses(c) \/ Feed!BankRevokes(c)
             \/ Feed!Outage(c)
      PROVE  SyncsFit' /\ Stand
  <2>1. UNCHANGED <<results, cursor, link>> /\ bank' \in Banks /\ bank'.lines = bank.lines
    BY <1>0, <1>8 DEF Feed!BankStarts, Feed!BankGrants, Feed!Untrusted, Feed!BankRefuses, Feed!BankRevokes, Feed!Outage
  <2>2. \E answer \in {"ok", "outage", "refused", "untrusted"} : call' = [call EXCEPT ![c] = [call[c] EXCEPT !.answer = answer]]
    BY <1>8 DEF Feed!BankStarts, Feed!BankGrants, Feed!Untrusted, Feed!BankRefuses, Feed!BankRevokes, Feed!Outage, Feed!Reply
  <2>3. call[c] \in Calls /\ PageFits(call[c], cursor, bank.lines)
    BY <1>0
  <2>4. \E r \in Calls : call' = [call EXCEPT ![c] = r] /\ PageFits(r, cursor, bank.lines)
    BY <2>2, <2>3, RepliedFits
  <2> HIDE DEF Banks, Links
  <2> QED BY <1>0, <1>2, <1>3, <2>1, <2>4
<1>9. ASSUME NEW c \in Callers, Feed!Die(c) PROVE SyncsFit' /\ Stand
  <2>1. UNCHANGED <<results, cursor, link, bank>> /\ call' = [call EXCEPT ![c] = Feed!Idle]
    BY <1>9 DEF Feed!Die, Feed!Done
  <2> QED BY <1>0, <1>2, <1>3, <2>1, IdleFits
<1>10. ASSUME Feed!MarkRevoked \/ Feed!Book \/ Feed!Withdraw PROVE SyncsFit' /\ Stand
  <2>1. UNCHANGED <<results, cursor, call>>
    BY <1>10 DEF Feed!MarkRevoked, Feed!Book, Feed!Withdraw
  <2>2. bank' \in Banks /\ bank'.lines \in bank.lines..MaxLines
    BY <1>0, <1>10 DEF Feed!MarkRevoked, Feed!Book, Feed!Withdraw
  <2>3. link' \in Links /\ (link.state \in Feed!Ended => link'.state \in Feed!Ended)
    BY <1>0, <1>10 DEF Feed!MarkRevoked, Feed!Book, Feed!Withdraw, Feed!To, Feed!States, Feed!Ended
  <2> QED BY <1>2, <2>1, <2>2, <2>3, LinkStep
<1>11. CASE Feed!Next
  BY <1>4, <1>5, <1>6, <1>7, <1>8, <1>9, <1>10, <1>11 DEF Feed!Next
<1> QED BY <1>1, <1>11

-----------------------------------------------------------------------------
(* Matching them *)

Statuses == {"AUTO_MATCHED", "CONFIRMED", "UNMATCHED"}
Matches == [of : Matching!Groups, status : Statuses]

MatchesFit == matches \in Seq(Matches) /\ offered \subseteq Matching!Groups /\ Matching!MatchedOnce

\* What every step leaves as it was
StayUndone ==
  \A m \in 1..Len(matches') :
    /\ m <= Len(matches) => matches'[m].of = matches[m].of /\ matches'[m].status \in {matches[m].status, "UNMATCHED"}
    /\ m > Len(matches) /\ matches'[m].status = "AUTO_MATCHED" => ~\E n \in 1..Len(matches) : matches[n].of = matches'[m].of

LEMMA GroupsFinite == IsFiniteSet(Matching!Groups)
<1> DEFINE B == (SUBSET Statement) \ {{}}
           P == (SUBSET Matching!BookEntries) \ {{}}
           All == B \X P
           f == [x \in All |-> [banks |-> x[1], pays |-> x[2]]]
<1>1. IsFiniteSet(B) /\ IsFiniteSet(P)
  <2>1. IsFiniteSet(Statement) /\ IsFiniteSet(Matching!BookEntries)
    BY BankAssumption, FS_Union DEF Matching!BookEntries
  <2>2. IsFiniteSet(SUBSET Statement) /\ IsFiniteSet(SUBSET Matching!BookEntries)
    BY <2>1, FS_SUBSET
  <2> QED BY <2>2, FS_Subset
<1>2. IsFiniteSet(All)
  BY <1>1, FS_Product
<1>3. IsFiniteSet({f[x] : x \in All})
  <2> DEFINE image == {f[x] : x \in All}
  <2>1. f \in Surjection(All, image)
    BY DEF Surjection
  <2> HIDE DEF f, All, image
  <2>2. IsFiniteSet(image)
    BY <1>2, <2>1, FS_Surjection
  <2> QED BY <2>2 DEF image
<1>4. Matching!Groups \subseteq {f[x] : x \in All}
  <2> SUFFICES ASSUME NEW g \in Matching!Groups PROVE \E x \in All : g = f[x]
    OBVIOUS
  <2>1. g \in [banks : B, pays : P]
    BY DEF Matching!Groups
  <2>2. g = f[<<g.banks, g.pays>>] /\ <<g.banks, g.pays>> \in All
    BY <2>1
  <2> QED BY <2>2
<1> QED BY <1>3, <1>4, FS_Subset

LEMMA GroupsAre == \A g \in Matching!Groups : g.banks # {} /\ Matching!Confidence[g] \in Nat
BY DEF Matching!Groups, Matching!Confidence

\* Of two that share a line or a receipt, the run accepts neither if they are about as sure.
LEMMA SureApart ==
  ASSUME NEW cs, cs \subseteq Matching!Groups, NEW g \in Matching!Sure(cs), NEW h \in Matching!Sure(cs), g # h
  PROVE  ~Matching!Overlap(g, h)
<1>1. g \in cs /\ h \in cs /\ ~Matching!Competes(g, h) /\ ~Matching!Competes(h, g)
  BY DEF Matching!Sure
<1>2. Matching!Confidence[g] \in Nat /\ Matching!Confidence[h] \in Nat
  BY <1>1, GroupsAre
<1>3. Matching!Overlap(g, h) => Matching!Overlap(h, g)
  BY DEF Matching!Overlap
<1> QED BY <1>1, <1>2, <1>3 DEF Matching!Competes, Matching!Margin

LEMMA ListedOnce ==
  ASSUME NEW S, IsFiniteSet(S)
  PROVE  LET s == Matching!SetToSeq(S) IN
         Len(s) \in Nat /\ DOMAIN s = 1..Len(s) /\ (\A i \in DOMAIN s : s[i] \in S) /\ \A i, j \in DOMAIN s : s[i] = s[j] => i = j
<1> DEFINE n == Cardinality(S)
<1>1. n \in Nat /\ \E f : f \in [1..n -> S] /\ \A i, j \in 1..n : f[i] = f[j] => i = j
  <2>1. n \in Nat /\ ExistsBijection(1..n, S)
    BY FS_CardinalityType
  <2> HIDE DEF n
  <2> QED BY <2>1 DEF ExistsBijection, Bijection, Injection, Surjection, IsInjective
<1>s. Matching!SetToSeq(S) = CHOOSE f \in [1..n -> S] : \A i, j \in DOMAIN f : f[i] = f[j] => i = j
  BY DEF Matching!SetToSeq, Matching!IsInjective, Matching!Cardinality, Cardinality, Matching!IsFiniteSet, IsFiniteSet
<1> HIDE DEF n
<1>2. Matching!SetToSeq(S) \in [1..n -> S] /\ \A i, j \in 1..n : Matching!SetToSeq(S)[i] = Matching!SetToSeq(S)[j] => i = j
  BY <1>1, <1>s
<1> QED BY <1>1, <1>2

LEMMA MatchesFirst == Matching!Init => MatchesFit
BY EmptySeq DEF Matching!Init, MatchesFit, Matching!MatchedOnce, Matching!Live

\* What a command adds is untaken, and apart among itself.
LEMMA MatchesAdded ==
  ASSUME MatchesFit, NEW added \in Seq(Matches), matches' = matches \o added, offered' \subseteq Matching!Groups,
         \A i \in 1..Len(added) : ~Matching!Taken(added[i].of) /\ (added[i].status = "AUTO_MATCHED" => ~Matching!Undone(added[i].of)),
         \A i, j \in 1..Len(added) : i # j => ~Matching!Overlap(added[i].of, added[j].of)
  PROVE  MatchesFit' /\ StayUndone
<1> DEFINE l == Len(matches)
           k == Len(added)
<1>1. /\ l \in Nat /\ k \in Nat /\ matches' \in Seq(Matches) /\ Len(matches') = l + k
      /\ \A m \in 1..l : matches'[m] = matches[m]
      /\ \A m \in (l + 1)..(l + k) : matches'[m] = added[m - l]
  BY DEF MatchesFit
<1>2. \A m \in 1..l : matches[m] \in Matches
  BY DEF MatchesFit
<1>3. \A m \in 1..k : added[m] \in Matches
  OBVIOUS
<1> HIDE DEF l, k
<1>4. \A g, h : Matching!Overlap(g, h) => Matching!Overlap(h, g)
  BY DEF Matching!Overlap
<1>5. Matching!Live(matches) = {m \in 1..l : matches[m].status # "UNMATCHED"}
      /\ Matching!Live(matches') = {m \in 1..(l + k) : matches'[m].status # "UNMATCHED"}
  BY <1>1 DEF Matching!Live, l
<1>6. ASSUME NEW m \in Matching!Live(matches'), NEW n \in Matching!Live(matches'), m < n
      PROVE  ~Matching!Overlap(matches'[m].of, matches'[n].of)
  <2>1. m \in 1..(l + k) /\ n \in 1..(l + k) /\ matches'[m].status # "UNMATCHED"
    BY <1>5, <1>6
  <2>2. CASE n <= l
    <3>1. m \in Matching!Live(matches) /\ n \in Matching!Live(matches) /\ matches'[m] = matches[m] /\ matches'[n] = matches[n] /\ m # n
      BY <1>1, <1>5, <1>6, <2>1, <2>2
    <3> QED BY <3>1 DEF MatchesFit, Matching!MatchedOnce
  <2>3. CASE n > l /\ m <= l
    <3>0. m \in 1..l /\ n \in (l + 1)..(l + k) /\ n - l \in 1..k
      BY <1>1, <2>1, <2>3
    <3>1. m \in Matching!Live(matches) /\ matches'[m] = matches[m] /\ n - l \in 1..k /\ matches'[n] = added[n - l]
      BY <1>1, <1>5, <2>1, <3>0
    <3>2. ~Matching!Taken(added[n - l].of)
      BY <3>1 DEF k
    <3> QED BY <3>1, <3>2 DEF Matching!Taken
  <2>4. CASE m > l
    <3>1. m - l \in 1..k /\ n - l \in 1..k /\ m - l # n - l /\ matches'[m] = added[m - l] /\ matches'[n] = added[n - l]
      BY <1>1, <1>6, <2>1, <2>4
    <3> QED BY <3>1 DEF k
  <2> QED BY <1>1, <2>1, <2>2, <2>3, <2>4
<1>7. Matching!MatchedOnce'
  <2> SUFFICES ASSUME NEW m \in Matching!Live(matches'), NEW n \in Matching!Live(matches'), m # n
               PROVE  ~Matching!Overlap(matches'[m].of, matches'[n].of)
    BY DEF Matching!MatchedOnce
  <2>1. m \in Int /\ n \in Int
    BY <1>1, <1>5
  <2>2. CASE m < n
    BY <1>6, <2>2
  <2>3. CASE n < m
    BY <1>4, <1>6, <2>3
  <2>4. m < n \/ n < m
    BY <2>1
  <2> QED BY <2>2, <2>3, <2>4
<1>8. StayUndone
  <2> SUFFICES ASSUME NEW m \in 1..(l + k)
               PROVE  /\ m <= l => matches'[m].of = matches[m].of /\ matches'[m].status \in {matches[m].status, "UNMATCHED"}
                      /\ m > l /\ matches'[m].status = "AUTO_MATCHED" => ~\E n \in 1..l : matches[n].of = matches'[m].of
    BY <1>1 DEF StayUndone, l
  <2>1. ASSUME m > l, matches'[m].status = "AUTO_MATCHED", NEW n \in 1..l, matches[n].of = matches'[m].of PROVE FALSE
    <3>1. m - l \in 1..k /\ matches'[m] = added[m - l]
      BY <1>1, <2>1
    <3>2. ~Matching!Taken(matches[n].of) /\ ~Matching!Undone(matches[n].of)
      BY <2>1, <3>1 DEF k
    <3>3. n \in 1..Len(matches) /\ matches[n].status # "UNMATCHED"
      BY <3>2 DEF Matching!Undone, l
    <3>4. n \in Matching!Live(matches) /\ Matching!Overlap(matches[n].of, matches[n].of)
      BY <1>2, <3>3, GroupsAre DEF Matching!Live, Matching!Overlap, Matches
    <3> QED BY <3>2, <3>4 DEF Matching!Taken
  <2> QED BY <1>1, <2>1
<1> QED BY <1>1, <1>7, <1>8 DEF MatchesFit

LEMMA MatchesStay == ASSUME MatchesFit, UNCHANGED matches, offered' \subseteq Matching!Groups PROVE MatchesFit' /\ StayUndone
<1>1. Len(matches) \in Nat
  BY DEF MatchesFit
<1>2. Matching!MatchedOnce'
  BY DEF MatchesFit, Matching!MatchedOnce, Matching!Live
<1> QED BY <1>1, <1>2 DEF MatchesFit, StayUndone

LEMMA ReconcileStep == ASSUME MatchesFit, NEW c, Matching!Reconcile(c) PROVE MatchesFit' /\ StayUndone
<1> DEFINE cs == Matching!Candidates(c)
           all == Matching!Sure(cs)
           sure == Matching!SetToSeq(all)
           added == [i \in DOMAIN sure |-> Matching!Accepted(sure[i], "AUTO_MATCHED")]
<1>1. offered' = offered \cup cs /\ matches' = matches \o added
  BY DEF Matching!Reconcile
<1>2. cs \subseteq Matching!Groups /\ \A g \in cs : ~Matching!Taken(g)
  BY DEF Matching!Candidates, Matching!Likely
<1>3. all \subseteq cs /\ \A g \in all : ~Matching!Undone(g)
  BY DEF Matching!Sure
<1>4. \A g, h \in all : g # h => ~Matching!Overlap(g, h)
  BY <1>2, SureApart
<1> HIDE DEF cs, all
<1>5. IsFiniteSet(all)
  BY <1>2, <1>3, GroupsFinite, FS_Subset
<1>6. Len(sure) \in Nat /\ DOMAIN sure = 1..Len(sure) /\ (\A i \in DOMAIN sure : sure[i] \in all)
      /\ \A i, j \in DOMAIN sure : sure[i] = sure[j] => i = j
  BY <1>5, ListedOnce
<1> HIDE DEF sure
<1>7. DOMAIN added = 1..Len(sure) /\ \A i \in 1..Len(sure) : added[i] = [of |-> sure[i], status |-> "AUTO_MATCHED"]
  BY <1>6 DEF Matching!Accepted
<1>8. added \in Seq(Matches) /\ Len(added) = Len(sure)
  <2>1. \A i \in 1..Len(sure) : added[i] \in Matches
    BY <1>2, <1>3, <1>6, <1>7 DEF Matches, Statuses
  <2>2. added \in [1..Len(sure) -> Matches]
    BY <1>6, <2>1
  <2> QED BY <1>6, <2>2
<1> HIDE DEF added
<1>9. \A i \in 1..Len(added) : added[i].of = sure[i] /\ sure[i] \in all
  BY <1>6, <1>7, <1>8
<1>10. \A i \in 1..Len(added) : ~Matching!Taken(added[i].of) /\ (added[i].status = "AUTO_MATCHED" => ~Matching!Undone(added[i].of))
  BY <1>2, <1>3, <1>9
<1>11. \A i, j \in 1..Len(added) : i # j => ~Matching!Overlap(added[i].of, added[j].of)
  BY <1>4, <1>6, <1>8, <1>9
<1>12. offered' \subseteq Matching!Groups
  BY <1>1, <1>2 DEF MatchesFit
<1> QED BY <1>1, <1>8, <1>10, <1>11, <1>12, MatchesAdded

LEMMA ConfirmStep == ASSUME MatchesFit, NEW g \in offered, Matching!Confirm(g) PROVE MatchesFit' /\ StayUndone
<1> DEFINE x == Matching!Accepted(g, "CONFIRMED")
           added == <<x>>
<1>1. x \in Matches /\ x.of = g /\ x.status = "CONFIRMED"
  BY DEF Matching!Accepted, Matches, Statuses, MatchesFit
<1>2. matches' = Append(matches, x) /\ offered' = offered /\ ~Matching!Taken(g)
  BY DEF Matching!Confirm
<1> HIDE DEF x
<1>3. added \in Seq(Matches) /\ Len(added) = 1 /\ added[1] = x
  BY <1>1
<1>4. matches' = matches \o added
  BY <1>1, <1>2 DEF MatchesFit
<1> HIDE DEF added
<1>5. offered' \subseteq Matching!Groups
  BY <1>2 DEF MatchesFit
<1> QED BY <1>1, <1>2, <1>3, <1>4, <1>5, MatchesAdded

LEMMA UnmatchStep == ASSUME MatchesFit, NEW m, Matching!Unmatch(m) PROVE MatchesFit' /\ StayUndone
<1>1. /\ m \in 1..Len(matches) /\ Len(matches) \in Nat /\ offered' = offered
      /\ \A n \in 1..Len(matches) : matches[n] \in Matches
  BY DEF Matching!Unmatch, Matching!Live, MatchesFit
<1>2. matches' = [matches EXCEPT ![m] = [matches[m] EXCEPT !.status = "UNMATCHED"]]
  BY DEF Matching!Unmatch
<1> DEFINE x == [matches[m] EXCEPT !.status = "UNMATCHED"]
<1>3. x \in Matches /\ x.of = matches[m].of /\ x.status = "UNMATCHED"
  BY <1>1 DEF Matches, Statuses
<1> HIDE DEF x
<1>4. matches' = [matches EXCEPT ![m] = x]
  BY <1>2 DEF x
<1>5. matches' \in Seq(Matches) /\ Len(matches') = Len(matches)
  BY <1>1, <1>3, <1>4 DEF MatchesFit
<1>6. \A n \in 1..Len(matches) : matches'[n] = IF n = m THEN x ELSE matches[n]
  BY <1>1, <1>4 DEF MatchesFit
<1>7. \A n \in 1..Len(matches) : matches'[n].of = matches[n].of /\ matches'[n].status \in {matches[n].status, "UNMATCHED"}
  BY <1>3, <1>6
<1>8. Matching!Live(matches') \subseteq Matching!Live(matches)
  BY <1>5, <1>7 DEF Matching!Live
<1>9. \A n \in Matching!Live(matches) : n \in 1..Len(matches)
  BY DEF Matching!Live
<1>10. Matching!MatchedOnce'
  BY <1>7, <1>8, <1>9 DEF Matching!MatchedOnce, MatchesFit
<1>11. StayUndone
  BY <1>1, <1>5, <1>7 DEF StayUndone
<1> QED BY <1>1, <1>5, <1>10, <1>11 DEF MatchesFit

LEMMA MatchingStep == MatchesFit /\ [Matching!Next]_(Matching!vars) => MatchesFit' /\ [StayUndone]_(Matching!vars)
<1> SUFFICES ASSUME MatchesFit, [Matching!Next]_(Matching!vars) PROVE MatchesFit' /\ StayUndone
  OBVIOUS
<1>1. ASSUME UNCHANGED <<matches, offered>> PROVE MatchesFit' /\ StayUndone
  BY <1>1, MatchesStay DEF MatchesFit
<1>2. CASE UNCHANGED Matching!vars
  BY <1>1, <1>2 DEF Matching!vars
<1>3. ASSUME NEW c \in {"run"}, Matching!Read(c) PROVE MatchesFit' /\ StayUndone
  BY <1>1, <1>3 DEF Matching!Read
<1>4. ASSUME NEW l \in Statement, Matching!Arrive(l) \/ Matching!RecordSuggestion(l) PROVE MatchesFit' /\ StayUndone
  BY <1>1, <1>4 DEF Matching!Arrive, Matching!RecordSuggestion
<1>5. ASSUME NEW e \in Matching!BookEntries, Matching!Record(e) \/ Matching!Undo(e) PROVE MatchesFit' /\ StayUndone
  BY <1>1, <1>5 DEF Matching!Record, Matching!Undo
<1>6. CASE Matching!Next
  BY <1>3, <1>4, <1>5, <1>6, ReconcileStep, ConfirmStep, UnmatchStep DEF Matching!Next
<1> QED BY <1>2, <1>6

-----------------------------------------------------------------------------
(* The instances together *)

MoneyFits ==
  /\ case = "both" => Both!IInv
  /\ case = "customer" => Customer!IInv
  /\ case = "three" => Three!IInv

LEMMA MoneyFirst == MCInit => MoneyFits
<1> SUFFICES ASSUME MCInit PROVE MoneyFits
  OBVIOUS
<1>1. case = "both" => Both!IInv
  BY MoneyAssumption, Both!InitIInv DEF MCInit
<1>2. case = "customer" => Customer!IInv
  BY MoneyAssumption, Customer!InitIInv DEF MCInit
<1>3. case = "three" => Three!IInv
  <2>1. Both!Init => Three!Init
    BY DEF Both!Init, Three!Init, Both!Bills, Three!Bills
  <2> QED BY <2>1, MoneyAssumption, Three!InitIInv DEF MCInit
<1> QED BY <1>1, <1>2, <1>3 DEF MoneyFits

LEMMA MoneyNext == MoneyFits /\ [MCNext]_<<vars, money, notes, feed, matching, case>> => MoneyFits'
<1> SUFFICES ASSUME MoneyFits, [MCNext]_<<vars, money, notes, feed, matching, case>> PROVE MoneyFits'
  OBVIOUS
<1>0. case' = case
  BY DEF MCNext
<1>1. ASSUME case = "both" PROVE Both!IInv'
  <2>1. [Both!Next]_(Both!vars)
    BY <1>1 DEF MCNext, money, Both!vars
  <2> QED BY <1>1, <2>1, MoneyAssumption, Both!NextIInv DEF MoneyFits
<1>2. ASSUME case = "customer" PROVE Customer!IInv'
  <2>1. [Customer!Next]_(Customer!vars)
    BY <1>2 DEF MCNext, money, Customer!vars
  <2> QED BY <1>2, <2>1, MoneyAssumption, Customer!NextIInv DEF MoneyFits
<1>3. ASSUME case = "three" PROVE Three!IInv'
  <2>1. [Three!Next]_(Three!vars)
    BY <1>3 DEF MCNext, money, Three!vars
  <2> QED BY <1>3, <2>1, MoneyAssumption, Three!NextIInv DEF MoneyFits
<1> QED BY <1>0, <1>1, <1>2, <1>3 DEF MoneyFits

LEMMA MoneyHolds ==
  ASSUME MoneyFits
  PROVE  /\ case = "both" => Both!SpentOnce /\ Both!BooksAgree
         /\ case = "customer" => Customer!SpentOnce /\ Customer!BooksAgree
         /\ case = "three" => Three!SpentOnce /\ Three!BooksAgree
<1>1. case = "both" => Both!SpentOnce /\ Both!BooksAgree
  BY MoneyAssumption, Both!NothingTwice, Both!BooksFollow DEF MoneyFits
<1>2. case = "customer" => Customer!SpentOnce /\ Customer!BooksAgree
  BY MoneyAssumption, Customer!NothingTwice, Customer!BooksFollow DEF MoneyFits
<1>3. case = "three" => Three!SpentOnce /\ Three!BooksAgree
  BY MoneyAssumption, Three!NothingTwice, Three!BooksFollow DEF MoneyFits
<1> QED BY <1>1, <1>2, <1>3

\* A step of the whole is one of each part, or leaves it alone.
LEMMA EachItsOwn ==
  [MCNext]_<<vars, money, notes, feed, matching, case>> => [Next]_vars /\ [Feed!Next]_(Feed!vars) /\ [Matching!Next]_(Matching!vars)
BY DEF MCNext, feed, matching, Feed!vars, Matching!vars

LEMMA Parts == MCSpec => Spec
<1>1. MCInit => Init
  BY DEF MCInit
<1> QED BY <1>1, EachItsOwn, PTL DEF MCSpec, Spec
\* No rupee of a customer or a supplier is spent twice, whichever of the three
\* businesses is looked at; and no line of the bank or receipt is in two
\* matches that stand, for any lines, amounts and references.
THEOREM SpentOnceAlways == MCSpec => []SpentOnce
<1>1. MCInit => MoneyFits /\ MatchesFit
  BY MoneyFirst, MatchesFirst DEF MCInit
<1>2. MoneyFits /\ MatchesFit /\ [MCNext]_<<vars, money, notes, feed, matching, case>> => MoneyFits' /\ MatchesFit'
  BY MoneyNext, MatchingStep, EachItsOwn
<1>3. MoneyFits /\ MatchesFit => SpentOnce
  BY MoneyHolds DEF MatchesFit, SpentOnce
<1> QED BY <1>1, <1>2, <1>3, PTL DEF MCSpec

\* The books and the screens say the same in each business, and what came from
\* the bank is complete up to its cursor and is on record once.
THEOREM BooksAgreeAlways == MCSpec => []BooksAgree
<1>1. MCInit => MoneyFits /\ SyncsFit
  BY MoneyFirst, SyncsFitFirst DEF MCInit
<1>2. MoneyFits /\ SyncsFit /\ [MCNext]_<<vars, money, notes, feed, matching, case>> => MoneyFits' /\ SyncsFit'
  BY MoneyNext, Syncing, EachItsOwn
<1>3. MoneyFits /\ SyncsFit => BooksAgree
  BY MoneyHolds DEF SyncsFit, BooksAgree
<1> QED BY <1>1, <1>2, <1>3, PTL DEF MCSpec

\* A closed month takes no entry and, one caller at a time, is never reopened;
\* entries keep what they say; what a sync brought in stays, a connection that
\* ended stays ended, and what a person undid no run matches again.
THEOREM HistoryAlwaysStands == MCSpec => HistoryStands
<1>1. MCInit => IInv /\ ServedAlone /\ SyncsFit /\ MatchesFit
  BY Initially, AloneFirst, SyncsFitFirst, MatchesFirst DEF MCInit
<1>2. IInv /\ ServedAlone /\ SyncsFit /\ MatchesFit /\ [MCNext]_<<vars, money, notes, feed, matching, case>>
      => IInv' /\ ServedAlone' /\ SyncsFit' /\ MatchesFit'
  <2>1. ServedAlone /\ UNCHANGED <<vars, money, notes, feed, matching, case>> => ServedAlone'
    BY DEF ServedAlone, vars, Free
  <2> QED BY <2>1, Inductively, AloneNext, Syncing, MatchingStep, EachItsOwn
<1>3. IInv /\ ServedAlone /\ [MCNext]_<<vars, money, notes, feed, matching, case>> => [ClosedStay]_vars
  BY AloneNext
<1>4. SyncsFit /\ [MCNext]_<<vars, money, notes, feed, matching, case>> => [Stand]_(Feed!vars)
  BY Syncing, EachItsOwn
<1>5. MatchesFit /\ [MCNext]_<<vars, money, notes, feed, matching, case>> => [StayUndone]_(Matching!vars)
  BY MatchingStep, EachItsOwn
<1>6. MCSpec => [][ClosedStay]_vars /\ [][Stand]_(Feed!vars) /\ [][StayUndone]_(Matching!vars)
  BY <1>1, <1>2, <1>3, <1>4, <1>5, PTL DEF MCSpec
<1>7. MCSpec => EntriesAreKept /\ [][NothingInClosedMonths]_vars
  BY Parts, EntriesKept, ClosedMonthsStay
<1>8. [ClosedStay]_vars /\ [NothingInClosedMonths]_vars
      => [/\ NothingInClosedMonths
          /\ case = "alone" => \A m \in Months : period[m] = "HARD_LOCKED" => period'[m] = "HARD_LOCKED"]_vars
  BY DEF ClosedStay
<1>9. [][ClosedStay]_vars /\ [][NothingInClosedMonths]_vars => ClosedMonthsStayClosed
  BY <1>8, PTL DEF ClosedMonthsStayClosed
<1>10. [Stand]_(Feed!vars) =>
       [/\ \A k \in Keys : results[k] # None => results'[k] = results[k]
        /\ cursor' >= cursor
        /\ link.state \in Feed!Ended => link'.state \in Feed!Ended /\ results' = results]_(Feed!vars)
  BY DEF Stand
<1>11. [][Stand]_(Feed!vars) => Feed!FeedStands
  BY <1>10, PTL DEF Feed!FeedStands
<1>12. [][StayUndone]_(Matching!vars) => Matching!UndoneStays
  BY PTL DEF Matching!UndoneStays, StayUndone
<1> QED BY <1>6, <1>7, <1>9, <1>11, <1>12 DEF HistoryStands
=============================================================================
