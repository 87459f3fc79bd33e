---------------------------- MODULE SalesProofs ----------------------------
(***************************************************************************)
(* Bills and their goods, for any number of requests, bills, contents,     *)
(* counts and crashes, with one unit of work around each command or with   *)
(* each transaction on its own; and what the government is told and tells, *)
(* in every case that MCSales has: the line's answers, the permit's record *)
(* and the credit on the returns, for any calls, vehicles and documents.   *)
(***************************************************************************)
EXTENDS MCSales, Sums

Kinds == {"insert", "price", "edit", "hold", "short", "let go", "clear", "park", "issue", "look",
          "put back", "cancel", "discard", "remove"}

Tasks ==
  [kind : Kinds, bill : Bills, copy : Bill, user : Users \cup {NoOne},
   then : {"end", "let go", "park", "issue"}, says : Contents \cup {Nothing}]

Tables ==
  [open : {TRUE}, bills : [Bills -> Bill], held : [Bills -> Nat], shelf : Nat, out : [Bills -> Nat],
   missing : Nat, sequence : Nat, posted : SUBSET Bills, reversed : SUBSET Bills]

Numbered(bs) == {b \in Bills : bs[b].number # 0}

\* EntriesMatch, NumbersRun and ApprovedByAnother of any tables
WholeBooks(bs, drawn, entered, undone) ==
  /\ \A b \in Bills :
       /\ Issued(bs[b]) <=> b \in entered
       /\ Issued(bs[b]) <=> bs[b].number # 0
       /\ bs[b].state = "CANCELLED" <=> b \in undone
       /\ Issued(bs[b]) /\ bs[b].says.big => bs[b].approvedBy = "other"
  /\ {bs[b].number : b \in Numbered(bs)} = 1..drawn
  /\ \A a, b \in Bills : bs[a].number = bs[b].number /\ bs[a].number # 0 => a = b

\* GoodsAccounted of any tables
WholeGoods(bs, holds, there, gone, short) ==
  /\ short = 0 => Sum(holds) <= there
  /\ there + Sum(gone) + short = Stock
  /\ \A b \in Bills : gone[b] # 0 => bs[b].state = "FINAL"

\* TypeOK, and every request's task and copy of the tables well formed.
TablesTyped ==
  /\ bills \in [Bills -> Bill]
  /\ held \in [Bills -> Nat]
  /\ shelf \in Nat
  /\ out \in [Bills -> Nat]
  /\ missing \in Nat
  /\ sequence \in Nat
  /\ posted \subseteq Bills
  /\ reversed \subseteq Bills

ControlTyped ==
  /\ task \in [Callers -> Tasks \cup {Idle}]
  /\ before \in Tables \cup {NoTables}
  /\ owner \in Callers \cup {NoOne}
  /\ crashes \in Nat

\* With one unit of work around each command, only the one that has it is at work.
Alone ==
  OneAction => \A c \in Callers : task[c] # Idle => owner = c /\ before.open

\* A copy that has the version of the bill it was read from is that bill.
CopiesTrue ==
  \A c \in Callers :
    task[c] # Idle =>
      LET x == bills[task[c].bill]
          copy == task[c].copy
      IN IF task[c].kind = "insert"
         THEN copy.state = "DRAFT" /\ copy.number = 0
         ELSE /\ x.state # "NONE"
              /\ Exists(task[c].bill) => copy.version <= x.version
              /\ Exists(task[c].bill) /\ copy.version = x.version => copy = x

\* What a request does next, it may do to the bill it read.
Fits(t) ==
  /\ t.kind \in {"price", "edit"} => Editable(t.copy)
  /\ t.kind \in {"hold", "short"} => t.then # "end"
  /\ t.kind \in {"let go", "clear"} => t.then = "let go"
  /\ t.kind = "park" => t.then = "park"
  /\ t.kind = "issue" => t.then = "issue"
  /\ t.kind = "cancel" => t.copy.state = "FINAL"
  /\ t.then = "let go" => Editable(t.copy)
  /\ t.then = "park" => t.copy.state = "DRAFT"
  /\ t.then = "issue" => /\ t.user \in Users
                         /\ t.copy.state \in {"DRAFT", "PENDING_APPROVAL"}
                         /\ MayIssue(t.copy, t.user)

TasksFit == \A c \in Callers : task[c] # Idle => Fits(task[c])

TablesWhole ==
  /\ WholeBooks(bills, sequence, posted, reversed)
  /\ WholeGoods(bills, held, shelf, out, missing)

\* What a failed command would put back is as whole as what is there.
BeforeWhole ==
  before # NoTables =>
    /\ WholeBooks(before.bills, before.sequence, before.posted, before.reversed)
    /\ WholeGoods(before.bills, before.held, before.shelf, before.out, before.missing)

\* The inductive invariant.  A save puts its change in place of the bill only
\* because a copy with the bill's version is the bill (CopiesTrue), an issue is
\* approved because its task fits that copy (TasksFit), and a failure leaves
\* whole tables because those kept before were (BeforeWhole) and nobody else
\* was at work (Alone).
IInv ==
  /\ TablesTyped
  /\ ControlTyped
  /\ Alone
  /\ CopiesTrue
  /\ TasksFit
  /\ TablesWhole
  /\ BeforeWhole

-----------------------------------------------------------------------------
(* The books: a change of a draft, an issue and a cancellation keep them whole. *)

LEMMA BooksDraft ==
  ASSUME NEW bs \in [Bills -> Bill], NEW drawn \in Nat, NEW entered, NEW undone,
         WholeBooks(bs, drawn, entered, undone),
         NEW b \in Bills, ~Issued(bs[b]), NEW x \in Bill, ~Issued(x), x.number = 0
  PROVE  WholeBooks([bs EXCEPT ![b] = x], drawn, entered, undone)
<1> DEFINE then == [bs EXCEPT ![b] = x]
<1>1. bs[b].number = 0 /\ b \notin entered /\ b \notin undone
  BY DEF WholeBooks, Issued
<1>2. then[b] = x /\ \A o \in Bills \ {b} : then[o] = bs[o]
  OBVIOUS
<1> HIDE DEF then
<1>3. \A o \in Bills :
        /\ Issued(then[o]) <=> o \in entered
        /\ Issued(then[o]) <=> then[o].number # 0
        /\ then[o].state = "CANCELLED" <=> o \in undone
        /\ Issued(then[o]) /\ then[o].says.big => then[o].approvedBy = "other"
  BY <1>1, <1>2 DEF WholeBooks, Issued
<1>4. Numbered(then) = Numbered(bs) /\ \A o \in Numbered(bs) : then[o].number = bs[o].number
  BY <1>1, <1>2 DEF Numbered
<1>5. {then[o].number : o \in Numbered(then)} = {bs[o].number : o \in Numbered(bs)}
  BY <1>4
<1>6. \A a, o \in Bills : then[a].number = then[o].number /\ then[a].number # 0 => a = o
  BY <1>1, <1>2 DEF WholeBooks
<1> QED BY <1>3, <1>5, <1>6 DEF WholeBooks, then

LEMMA BooksIssue ==
  ASSUME NEW bs \in [Bills -> Bill], NEW drawn \in Nat, NEW entered, NEW undone,
         WholeBooks(bs, drawn, entered, undone),
         NEW b \in Bills, ~Issued(bs[b]), NEW x \in Bill, x.state = "FINAL", x.number = drawn + 1,
         x.says.big => x.approvedBy = "other"
  PROVE  WholeBooks([bs EXCEPT ![b] = x], drawn + 1, entered \cup {b}, undone)
<1> DEFINE then == [bs EXCEPT ![b] = x]
<1>1. bs[b].number = 0 /\ b \notin entered /\ b \notin undone
  BY DEF WholeBooks, Issued
<1>2. then[b] = x /\ \A o \in Bills \ {b} : then[o] = bs[o]
  OBVIOUS
<1> HIDE DEF then
<1>3. \A o \in Bills :
        /\ Issued(then[o]) <=> o \in entered \cup {b}
        /\ Issued(then[o]) <=> then[o].number # 0
        /\ then[o].state = "CANCELLED" <=> o \in undone
        /\ Issued(then[o]) /\ then[o].says.big => then[o].approvedBy = "other"
  BY <1>1, <1>2 DEF WholeBooks, Issued
<1>4. \A n : n \in {bs[o].number : o \in Numbered(bs)} <=> n \in 1..drawn
  BY DEF WholeBooks
<1>5. \A o \in Bills : bs[o].number # 0 => bs[o].number <= drawn
  BY <1>4 DEF Numbered
<1>6. Numbered(then) = Numbered(bs) \cup {b} /\ b \notin Numbered(bs)
  BY <1>1, <1>2 DEF Numbered
<1>7. \A n : n \in {then[o].number : o \in Numbered(then)}
             <=> n \in {bs[o].number : o \in Numbered(bs)} \/ n = drawn + 1
  BY <1>2, <1>6 DEF Numbered
<1>8. {then[o].number : o \in Numbered(then)} = 1..(drawn + 1)
  <2> \A n : n \in 1..(drawn + 1) <=> n \in 1..drawn \/ n = drawn + 1
    OBVIOUS
  <2> QED BY <1>4, <1>7
<1>9. \A a, o \in Bills : then[a].number = then[o].number /\ then[a].number # 0 => a = o
  <2>1. \A o \in Bills \ {b} : then[o].number # drawn + 1
    BY <1>2, <1>5 DEF Bill
  <2> QED BY <1>2, <2>1 DEF WholeBooks
<1> QED BY <1>3, <1>8, <1>9 DEF WholeBooks, then

LEMMA BooksCancel ==
  ASSUME NEW bs \in [Bills -> Bill], NEW drawn \in Nat, NEW entered, NEW undone,
         WholeBooks(bs, drawn, entered, undone),
         NEW b \in Bills, bs[b].state = "FINAL",
         NEW x \in Bill, x.state = "CANCELLED", x.number = bs[b].number,
         x.says = bs[b].says, x.approvedBy = bs[b].approvedBy
  PROVE  WholeBooks([bs EXCEPT ![b] = x], drawn, entered, undone \cup {b})
<1> DEFINE then == [bs EXCEPT ![b] = x]
<1>1. bs[b].number # 0 /\ b \in entered
  BY DEF WholeBooks, Issued
<1>2. then[b] = x /\ \A o \in Bills \ {b} : then[o] = bs[o]
  OBVIOUS
<1> HIDE DEF then
<1>3. \A o \in Bills :
        /\ Issued(then[o]) <=> o \in entered
        /\ Issued(then[o]) <=> then[o].number # 0
        /\ then[o].state = "CANCELLED" <=> o \in undone \cup {b}
        /\ Issued(then[o]) /\ then[o].says.big => then[o].approvedBy = "other"
  BY <1>1, <1>2 DEF WholeBooks, Issued
<1>4. \A o \in Bills : then[o].number = bs[o].number
  BY <1>2
<1>5. Numbered(then) = Numbered(bs)
  BY <1>4 DEF Numbered
<1>6. {then[o].number : o \in Numbered(then)} = {bs[o].number : o \in Numbered(bs)}
  BY <1>4, <1>5 DEF Numbered
<1>7. \A a, o \in Bills : then[a].number = then[o].number /\ then[a].number # 0 => a = o
  BY <1>4 DEF WholeBooks
<1> QED BY <1>3, <1>6, <1>7 DEF WholeBooks, then

-----------------------------------------------------------------------------
(* The goods: holds, issues, returns and counts keep them accounted for. *)

LEMMA SumMoves ==
  ASSUME NEW f \in [Bills -> Nat], NEW b \in Bills, NEW n \in Nat
  PROVE  /\ Sum([f EXCEPT ![b] = n]) = Sum(f) - f[b] + n
         /\ Sum(f) \in Nat /\ Sum([f EXCEPT ![b] = n]) \in Nat
         /\ f[b] <= Sum(f)
<1> DEFINE g == [f EXCEPT ![b] = n]
<1>1. g \in [Bills -> Nat] /\ g[b] = n /\ \A o \in Bills \ {b} : f[o] = g[o]
  OBVIOUS
<1>2. Sum(f) = SumOver(f, Bills) /\ Sum(g) = SumOver(g, Bills)
  BY DEF Sum, SumOver
<1> HIDE DEF g
<1>3. IsFiniteSet(Bills)
  BY SalesAssumption
<1>4. SumOver(g, Bills) = SumOver(f, Bills) - f[b] + g[b]
  BY <1>1, <1>3, SumChanges
<1>5. SumOver(f, Bills) \in Nat /\ f[b] <= SumOver(f, Bills)
  BY <1>3, SumBounds
<1>6. SumOver(g, Bills) \in Nat
  BY <1>1, <1>3, SumBounds
<1> QED BY <1>1, <1>2, <1>4, <1>5, <1>6 DEF g

\* No goods are out for a bill that is not issued.
LEMMA GoodsDraft ==
  ASSUME NEW bs \in [Bills -> Bill], NEW holds, NEW there, NEW gone, NEW short,
         WholeGoods(bs, holds, there, gone, short),
         NEW b \in Bills, ~Issued(bs[b]), NEW x \in Bill
  PROVE  WholeGoods([bs EXCEPT ![b] = x], holds, there, gone, short)
BY DEF WholeGoods, Issued

LEMMA GoodsHold ==
  ASSUME NEW bs, NEW holds \in [Bills -> Nat], NEW there \in Nat, NEW gone, NEW short,
         WholeGoods(bs, holds, there, gone, short),
         NEW b \in Bills, NEW n \in Nat,
         n = 0 \/ n <= there - (Sum(holds) - holds[b])
  PROVE  WholeGoods(bs, [holds EXCEPT ![b] = n], there, gone, short)
<1>1. Sum([holds EXCEPT ![b] = n]) = Sum(holds) - holds[b] + n /\ Sum(holds) \in Nat
  BY SumMoves
<1>2. short = 0 => Sum([holds EXCEPT ![b] = n]) <= there
  BY <1>1 DEF WholeGoods
<1> QED BY <1>2 DEF WholeGoods

LEMMA GoodsIssue ==
  ASSUME NEW bs \in [Bills -> Bill], NEW holds \in [Bills -> Nat], NEW there \in Nat,
         NEW gone \in [Bills -> Nat], NEW short \in Nat,
         WholeGoods(bs, holds, there, gone, short),
         NEW b \in Bills, holds[b] <= there, NEW x, x.state = "FINAL"
  PROVE  WholeGoods([bs EXCEPT ![b] = x], [holds EXCEPT ![b] = 0], there - holds[b],
                    [gone EXCEPT ![b] = gone[b] + holds[b]], short)
<1>1. Sum([holds EXCEPT ![b] = 0]) = Sum(holds) - holds[b] + 0 /\ Sum(holds) \in Nat
  BY SumMoves
<1>2. gone[b] + holds[b] \in Nat
  OBVIOUS
<1>3. Sum([gone EXCEPT ![b] = gone[b] + holds[b]]) = Sum(gone) - gone[b] + (gone[b] + holds[b])
      /\ Sum(gone) \in Nat
  BY <1>2, SumMoves
<1>4. short = 0 => Sum([holds EXCEPT ![b] = 0]) <= there - holds[b]
  BY <1>1 DEF WholeGoods
<1>5. (there - holds[b]) + Sum([gone EXCEPT ![b] = gone[b] + holds[b]]) + short = Stock
  BY <1>3 DEF WholeGoods
<1>6. \A o \in Bills : [gone EXCEPT ![b] = gone[b] + holds[b]][o] # 0 => [bs EXCEPT ![b] = x][o].state = "FINAL"
  BY DEF WholeGoods
<1> QED BY <1>4, <1>5, <1>6 DEF WholeGoods

LEMMA GoodsReturn ==
  ASSUME NEW bs \in [Bills -> Bill], NEW holds \in [Bills -> Nat], NEW there \in Nat,
         NEW gone \in [Bills -> Nat], NEW short \in Nat,
         WholeGoods(bs, holds, there, gone, short),
         NEW b \in Bills, NEW x
  PROVE  WholeGoods([bs EXCEPT ![b] = x], holds, there + gone[b], [gone EXCEPT ![b] = 0], short)
<1>1. Sum([gone EXCEPT ![b] = 0]) = Sum(gone) - gone[b] + 0 /\ Sum(gone) \in Nat
  BY SumMoves
<1>2. Sum(holds) \in Nat
  BY SumMoves
<1>3. short = 0 => Sum(holds) <= there + gone[b]
  BY <1>2 DEF WholeGoods
<1>4. (there + gone[b]) + Sum([gone EXCEPT ![b] = 0]) + short = Stock
  BY <1>1 DEF WholeGoods
<1>5. \A o \in Bills : [gone EXCEPT ![b] = 0][o] # 0 => [bs EXCEPT ![b] = x][o].state = "FINAL"
  BY DEF WholeGoods
<1> QED BY <1>3, <1>4, <1>5 DEF WholeGoods

LEMMA GoodsCount ==
  ASSUME NEW bs, NEW holds, NEW there \in Nat, NEW gone \in [Bills -> Nat], NEW short \in Nat,
         WholeGoods(bs, holds, there, gone, short), NEW n \in Counts, n <= there
  PROVE  WholeGoods(bs, holds, there - n, gone, short + n)
<1>1. n \in Nat \ {0}
  BY SalesAssumption
<1>2. Sum(gone) \in Nat
  <2>1. IsFiniteSet(Bills) /\ \A b \in Bills : gone[b] \in Nat
    BY SalesAssumption
  <2>2. SumOver(gone, Bills) \in Nat
    BY <2>1, SumBounds
  <2> QED BY <2>2 DEF Sum, SumOver
<1> QED BY <1>1, <1>2 DEF WholeGoods
-----------------------------------------------------------------------------
(* Requests: one goes on, one begins, and what that leaves of their copies. *)

LEMMA Working ==
  ASSUME IInv, NEW c \in Callers, task[c] # Idle
  PROVE  /\ task[c] \in Tasks /\ Fits(task[c])
         /\ OneAction => owner = c /\ before \in Tables
BY DEF IInv, ControlTyped, TasksFit, Alone, NoTables, Idle

LEMMA AtWork ==
  ASSUME NEW c, NEW kind \in Kinds, At(c, kind)
  PROVE  task[c] # Idle
<1>1. Idle.kind = "idle" /\ kind # "idle"
  BY DEF Idle, Kinds
<1> QED BY <1>1 DEF At

\* A caller goes on with its next step, or ends and lets go of the unit of work.
GoesOn(c, next) ==
  /\ task' = [task EXCEPT ![c] = next]
  /\ \/ next = Idle /\ owner' = NoOne /\ before' = NoTables
     \/ next \in Tasks /\ Fits(next) /\ UNCHANGED <<owner, before>>

LEMMA GoingOn ==
  ASSUME IInv, NEW c \in Callers, task[c] # Idle, NEW next, GoesOn(c, next), crashes' \in Nat
  PROVE  ControlTyped' /\ Alone' /\ TasksFit' /\ BeforeWhole'
<1>0. task \in [Callers -> Tasks \cup {Idle}] /\ before \in Tables \cup {NoTables}
      /\ owner \in Callers \cup {NoOne}
  BY DEF IInv, ControlTyped
<1>1. next \in Tasks \cup {Idle}
  BY DEF GoesOn
<1>2. ControlTyped'
  BY <1>0, <1>1 DEF GoesOn, ControlTyped
<1>3. Alone'
  <2> SUFFICES ASSUME OneAction, NEW d \in Callers, task'[d] # Idle
               PROVE  owner' = d /\ before.open /\ before' = before
    BY DEF Alone
  <2>1. d = c
    BY <1>0 DEF GoesOn, IInv, Alone
  <2> QED BY <1>0, <2>1 DEF GoesOn, IInv, Alone
<1>4. TasksFit'
  BY <1>0 DEF GoesOn, IInv, TasksFit, Fits
<1>5. BeforeWhole'
  BY DEF GoesOn, IInv, BeforeWhole
<1> QED BY <1>2, <1>3, <1>4, <1>5

LEMMA Beginning ==
  ASSUME IInv, NEW c \in Callers, Begin(c), UNCHANGED tables,
         NEW next \in Tasks, Fits(next), task' = [task EXCEPT ![c] = next]
  PROVE  ControlTyped' /\ Alone' /\ TasksFit' /\ BeforeWhole'
<1>0. task \in [Callers -> Tasks \cup {Idle}] /\ before \in Tables \cup {NoTables}
      /\ owner \in Callers \cup {NoOne} /\ crashes \in Nat
  BY DEF IInv, ControlTyped
<1>1. Snapshot \in Tables
  BY DEF IInv, TablesTyped, Snapshot, Tables
<1>2. ControlTyped'
  BY <1>0, <1>1 DEF Begin, ControlTyped
<1>3. Alone'
  <2> SUFFICES ASSUME OneAction, NEW d \in Callers, task'[d] # Idle
               PROVE  owner' = d /\ before'.open
    BY DEF Alone
  <2>1. owner = NoOne /\ owner' = c /\ before'.open
    BY DEF Begin, Snapshot
  <2>2. \A e \in Callers : task[e] = Idle
    BY <2>1, SalesAssumption DEF IInv, Alone
  <2>3. d = c
    BY <1>0, <2>2
  <2> QED BY <2>1, <2>3
<1>4. TasksFit'
  BY <1>0 DEF IInv, TasksFit, Fits
<1>5. BeforeWhole'
  BY DEF Begin, Snapshot, IInv, BeforeWhole, TablesWhole
<1> QED BY <1>2, <1>3, <1>4, <1>5

\* Nothing in the tables changes.
LEMMA TablesStay ==
  ASSUME IInv, UNCHANGED tables
  PROVE  TablesTyped' /\ TablesWhole'
BY DEF IInv, tables, TablesTyped, TablesWhole

\* While no bill changes, a copy stays as true as it was; a bill just read is its copy.
LEMMA CopiesStay ==
  ASSUME IInv, UNCHANGED bills, NEW c \in Callers, NEW next, task' = [task EXCEPT ![c] = next],
         \/ next = Idle
         \/ next.kind = "insert" /\ next.copy.state = "DRAFT" /\ next.copy.number = 0
         \/ /\ next.kind # "insert" /\ next.bill \in Bills /\ next.copy = bills[next.bill]
            /\ bills[next.bill].state # "NONE"
         \/ /\ task[c] # Idle /\ task[c].kind # "insert" /\ next.kind # "insert"
            /\ next.bill = task[c].bill /\ next.copy = task[c].copy
  PROVE  CopiesTrue'
<1> SUFFICES ASSUME NEW d \in Callers, task'[d] # Idle
             PROVE  LET x == bills[task'[d].bill]
                        copy == task'[d].copy
                    IN IF task'[d].kind = "insert"
                       THEN copy.state = "DRAFT" /\ copy.number = 0
                       ELSE /\ x.state # "NONE"
                            /\ Exists(task'[d].bill) => copy.version <= x.version
                            /\ Exists(task'[d].bill) /\ copy.version = x.version => copy = x
  BY DEF CopiesTrue, Exists
<1>1. CASE d # c
  BY <1>1 DEF IInv, ControlTyped, CopiesTrue
<1>2. CASE d = c
  <2>1. task'[d] = next
    BY <1>2 DEF IInv, ControlTyped
  <2>2. \A b \in Bills : bills[b].version \in Nat
    BY DEF IInv, TablesTyped, Bill
  <2> QED BY <2>1, <2>2, <1>2 DEF IInv, CopiesTrue
<1> QED BY <1>1, <1>2

\* A save: the bill was the copy, and its new version is above every copy's.
LEMMA CopiesSave ==
  ASSUME IInv, NEW c \in Callers, task[c] # Idle, task[c].kind # "insert", NEW x \in Bill,
         Save(c, x), x.state \notin {"NONE", "GONE"}, x.version = task[c].copy.version + 1,
         NEW next, task' = [task EXCEPT ![c] = next],
         next = Idle \/ (next.kind # "insert" /\ next.bill = task[c].bill /\ next.copy = x)
  PROVE  CopiesTrue' /\ task[c].copy = bills[task[c].bill] /\ bills' = [bills EXCEPT ![task[c].bill] = x]
<1>0. task[c].bill \in Bills /\ bills \in [Bills -> Bill] /\ task \in [Callers -> Tasks \cup {Idle}]
  BY Working DEF IInv, TablesTyped, ControlTyped, Tasks
<1>1. task[c].copy = bills[task[c].bill]
  BY DEF Save, Current, IInv, CopiesTrue
<1>2. bills' = [bills EXCEPT ![task[c].bill] = x]
  BY DEF Save
<1>3. bills[task[c].bill].version \in Nat /\ x.version = bills[task[c].bill].version + 1
  BY <1>0, <1>1 DEF Bill
<1>4. CopiesTrue'
  <2> SUFFICES ASSUME NEW d \in Callers, task'[d] # Idle
               PROVE  LET y == bills'[task'[d].bill]
                          copy == task'[d].copy
                      IN IF task'[d].kind = "insert"
                         THEN copy.state = "DRAFT" /\ copy.number = 0
                         ELSE /\ y.state # "NONE"
                              /\ y.state # "GONE" => copy.version <= y.version
                              /\ y.state # "GONE" /\ copy.version = y.version => copy = y
    BY DEF CopiesTrue, Exists
  <2>1. CASE d = c
    <3>1. task'[d] = next
      BY <1>0, <2>1
    <3> QED BY <1>0, <1>2, <3>1 DEF Bill
  <2>2. CASE d # c
    <3>1. task'[d] = task[d] /\ task[d] \in Tasks
      BY <1>0, <2>2
    <3>2. task[d].bill \in Bills /\ task[d].copy.version \in Nat
      BY <3>1 DEF Tasks, Bill
    <3>3. CASE task[d].bill # task[c].bill
      BY <1>0, <1>2, <3>1, <3>2, <3>3 DEF IInv, CopiesTrue, Exists
    <3>4. CASE task[d].bill = task[c].bill /\ task[d].kind # "insert"
      <4>1. bills'[task[d].bill] = x
        BY <1>0, <1>2, <3>4
      <4>2. Exists(task[d].bill)
        BY <3>4 DEF Save, Current
      <4>3. task[d].copy.version <= bills[task[c].bill].version
        BY <3>1, <3>4, <4>2 DEF IInv, CopiesTrue
      <4> QED BY <1>3, <3>1, <3>2, <3>4, <4>1, <4>3
    <3>5. CASE task[d].kind = "insert"
      BY <3>1, <3>5 DEF IInv, CopiesTrue
    <3> QED BY <3>3, <3>4, <3>5
  <2> QED BY <2>1, <2>2
<1> QED BY <1>1, <1>2, <1>4

\* A bill that is not issued is saved as another that is not: the copies, the
\* books and the goods stay as they should.
LEMMA SavingDraft ==
  ASSUME IInv, NEW c \in Callers, task[c] # Idle, task[c].kind # "insert", NEW x \in Bill,
         Save(c, x), x.state \in {"DRAFT", "NEEDS_INFO", "PENDING_APPROVAL"},
         x.version = task[c].copy.version + 1, x.number = task[c].copy.number,
         ~Issued(task[c].copy), UNCHANGED <<stock, books>>,
         NEW next, task' = [task EXCEPT ![c] = next],
         next = Idle \/ (next.kind # "insert" /\ next.bill = task[c].bill /\ next.copy = x)
  PROVE  CopiesTrue' /\ TablesTyped' /\ TablesWhole'
<1>0. task[c].bill \in Bills /\ bills \in [Bills -> Bill]
  BY Working DEF IInv, TablesTyped, Tasks
<1>1. CopiesTrue' /\ task[c].copy = bills[task[c].bill] /\ bills' = [bills EXCEPT ![task[c].bill] = x]
  BY CopiesSave
<1>2. TablesTyped'
  BY <1>0, <1>1 DEF IInv, TablesTyped, stock, books
<1>3. x.number = 0 /\ ~Issued(x) /\ ~Issued(bills[task[c].bill])
  BY <1>0, <1>1 DEF IInv, TablesWhole, WholeBooks, Issued
<1>4. WholeBooks(bills', sequence, posted, reversed)
  BY <1>0, <1>1, <1>3, BooksDraft DEF IInv, TablesWhole, TablesTyped
<1>5. WholeGoods(bills', held, shelf, out, missing)
  BY <1>0, <1>1, <1>3, GoodsDraft DEF IInv, TablesWhole
<1> QED BY <1>1, <1>2, <1>4, <1>5 DEF TablesWhole, stock, books

\* Everything a failed command did in its unit of work is put back.
LEMMA Failing ==
  ASSUME IInv, NEW c \in Callers, task[c] # Idle, Undone, crashes' \in Nat,
         GoesOn(c, Idle)
  PROVE  IInv'
<1>1. ControlTyped' /\ Alone' /\ TasksFit' /\ BeforeWhole'
  BY GoingOn
<1>2. CASE ~OneAction
  <2>1. UNCHANGED tables
    BY <1>2 DEF Undone
  <2>2. CopiesTrue'
    BY <2>1, CopiesStay DEF GoesOn, tables
  <2> QED BY <1>1, <2>1, <2>2, TablesStay DEF IInv
<1>3. CASE OneAction
  <2>1. Restore /\ before \in Tables /\ owner = c
    BY <1>3, Working DEF Undone
  <2>2. \A d \in Callers : task'[d] = Idle
    BY <1>3, <2>1 DEF IInv, Alone, GoesOn, ControlTyped
  <2>3. CopiesTrue'
    BY <2>2 DEF CopiesTrue
  <2>4. TablesTyped'
    BY <2>1 DEF Restore, Tables, TablesTyped
  <2>5. TablesWhole'
    BY <2>1 DEF Restore, IInv, BeforeWhole, TablesWhole, Tables, NoTables
  <2> QED BY <1>1, <2>3, <2>4, <2>5 DEF IInv
<1> QED BY <1>2, <1>3
-----------------------------------------------------------------------------
LEMMA Initially == Init => IInv
<1> SUFFICES ASSUME Init PROVE IInv
  OBVIOUS
<1>1. \A b \in Bills : bills[b] = Absent("NONE")
  BY DEF Init
<1>2. Absent("NONE") \in Bill
  BY DEF Absent, Nothing, NoOne, Bill, BillStates
<1>3. TablesTyped
  BY <1>2, SalesAssumption DEF Init, TablesTyped
<1>4. ControlTyped
  BY DEF Init, ControlTyped
<1>5. Alone /\ CopiesTrue /\ TasksFit /\ BeforeWhole
  BY DEF Init, Alone, CopiesTrue, TasksFit, BeforeWhole
<1>6. WholeBooks(bills, sequence, posted, reversed)
  <2>1. \A b \in Bills : ~Issued(bills[b]) /\ bills[b].number = 0 /\ bills[b].state = "NONE"
    BY <1>1 DEF Absent, Issued
  <2>2. Numbered(bills) = {} /\ 1..sequence = {}
    BY <2>1 DEF Numbered, Init
  <2> QED BY <2>1, <2>2 DEF Init, WholeBooks
<1>7. WholeGoods(bills, held, shelf, out, missing)
  <2>1. held = out /\ \A b \in Bills : out[b] = 0
    BY DEF Init
  <2>2. SumOver(out, Bills) = 0
    BY <2>1, SalesAssumption, SumOfNothings
  <2>3. Sum(out) = 0 /\ Sum(held) = 0
    BY <2>1, <2>2 DEF Sum, SumOver
  <2> QED BY <2>1, <2>3, SalesAssumption DEF Init, WholeGoods
<1> QED BY <1>3, <1>4, <1>5, <1>6, <1>7 DEF IInv, TablesWhole

\* A command that only reads the bill it will work on.
LEMMA Starting ==
  ASSUME IInv, NEW c \in Callers, Begin(c), UNCHANGED tables,
         NEW next \in Tasks, Fits(next), task' = [task EXCEPT ![c] = next],
         \/ next.kind = "insert" /\ next.copy.state = "DRAFT" /\ next.copy.number = 0
         \/ /\ next.kind # "insert" /\ next.copy = bills[next.bill]
            /\ bills[next.bill].state # "NONE"
  PROVE  IInv'
<1>1. ControlTyped' /\ Alone' /\ TasksFit' /\ BeforeWhole'
  BY Beginning
<1>2. CopiesTrue'
  BY CopiesStay DEF Tasks, tables
<1> QED BY <1>1, <1>2, TablesStay DEF IInv

LEMMA WorkIsTask ==
  ASSUME NEW kind \in Kinds, NEW b \in Bills, NEW copy \in Bill
  PROVE  Work(kind, b, copy) \in Tasks
BY DEF Work, Tasks, NoOne, Nothing

LEMMA Starts ==
  ASSUME IInv, NEW c \in Callers, NEW b \in Bills, NEW says \in Contents,
         StartDraft(c, b, says) \/ StartEdit(c, b, says)
  PROVE  IInv'
<1>0. bills[b] \in Bill
  BY DEF IInv, TablesTyped
<1>1. CASE StartDraft(c, b, says)
  <2>1. CASE bills[b].state = "NONE" /\ task' = [task EXCEPT ![c] = Work("insert", b, NewDraft(says))]
    <3> DEFINE next == Work("insert", b, NewDraft(says))
    <3>1. NewDraft(says) \in Bill
      BY DEF NewDraft, Bill, BillStates, NoOne
    <3>2. next \in Tasks
      BY <3>1, WorkIsTask DEF Kinds
    <3>3. Fits(next) /\ next.kind = "insert" /\ next.copy.state = "DRAFT" /\ next.copy.number = 0
      BY DEF Work, Fits, NewDraft
    <3> HIDE DEF next
    <3> QED BY <1>1, <2>1, <3>2, <3>3, Starting DEF StartDraft, next
  <2>2. CASE bills[b].state = "DRAFT" /\ task' = [task EXCEPT ![c] = Work("price", b, bills[b])]
    <3> DEFINE next == Work("price", b, bills[b])
    <3>1. next \in Tasks
      BY <1>0, WorkIsTask DEF Kinds
    <3>2. Fits(next) /\ next.kind # "insert" /\ next.copy = bills[next.bill] /\ bills[next.bill].state # "NONE"
      BY <2>2 DEF Work, Fits, Editable
    <3> HIDE DEF next
    <3> QED BY <1>1, <2>2, <3>1, <3>2, Starting DEF StartDraft, next
  <2> QED BY <1>1, <2>1, <2>2 DEF StartDraft
<1>2. CASE StartEdit(c, b, says)
  <2> DEFINE next == [Work("edit", b, bills[b]) EXCEPT !.says = says]
  <2>1. next \in Tasks
    BY <1>0 DEF Work, Kinds, Tasks, NoOne, Nothing
  <2>2. Fits(next) /\ next.kind # "insert" /\ next.copy = bills[next.bill] /\ bills[next.bill].state # "NONE"
    BY <1>2 DEF StartEdit, Work, Fits, Editable
  <2> HIDE DEF next
  <2> QED BY <1>2, <2>1, <2>2, Starting DEF StartEdit, next
<1> QED BY <1>1, <1>2

LEMMA StartsUnsaid ==
  ASSUME IInv, NEW c \in Callers, NEW b \in Bills, NEW user \in Users,
         \/ StartCheck(c, b) \/ StartSubmit(c, b) \/ StartCancel(c, b) \/ StartDiscard(c, b)
         \/ StartIssue(c, b, user)
  PROVE  IInv'
<1>0. bills[b] \in Bill
  BY DEF IInv, TablesTyped
<1>3. CASE StartCheck(c, b)
  <2> DEFINE next == [Work("hold", b, bills[b]) EXCEPT !.then = "let go"]
  <2>1. next \in Tasks
    BY <1>0 DEF Work, Kinds, Tasks, NoOne, Nothing
  <2>2. Fits(next) /\ next.kind # "insert" /\ next.copy = bills[next.bill] /\ bills[next.bill].state # "NONE"
    BY <1>3 DEF StartCheck, Work, Fits, Editable
  <2> HIDE DEF next
  <2> QED BY <1>3, <2>1, <2>2, Starting DEF StartCheck, next
<1>4. CASE StartSubmit(c, b)
  <2> DEFINE next == [Work("hold", b, bills[b]) EXCEPT !.then = "park"]
  <2>1. next \in Tasks
    BY <1>0 DEF Work, Kinds, Tasks, NoOne, Nothing
  <2>2. Fits(next) /\ next.kind # "insert" /\ next.copy = bills[next.bill] /\ bills[next.bill].state # "NONE"
    BY <1>4 DEF StartSubmit, Work, Fits
  <2> HIDE DEF next
  <2> QED BY <1>4, <2>1, <2>2, Starting DEF StartSubmit, next
<1>5. CASE StartIssue(c, b, user)
  <2> DEFINE next == [Work("hold", b, bills[b]) EXCEPT !.then = "issue", !.user = user]
  <2>1. next \in Tasks
    BY <1>0 DEF Work, Kinds, Tasks, NoOne, Nothing
  <2>2. Fits(next) /\ next.kind # "insert" /\ next.copy = bills[next.bill] /\ bills[next.bill].state # "NONE"
    BY <1>5 DEF StartIssue, Work, Fits
  <2> HIDE DEF next
  <2> QED BY <1>5, <2>1, <2>2, Starting DEF StartIssue, next
<1>6. CASE StartCancel(c, b)
  <2> DEFINE next == Work("cancel", b, bills[b])
  <2>1. next \in Tasks
    BY <1>0, WorkIsTask DEF Kinds
  <2>2. Fits(next) /\ next.kind # "insert" /\ next.copy = bills[next.bill] /\ bills[next.bill].state # "NONE"
    BY <1>6 DEF StartCancel, Work, Fits
  <2> HIDE DEF next
  <2> QED BY <1>6, <2>1, <2>2, Starting DEF StartCancel, next
<1>7. CASE StartDiscard(c, b)
  <2> DEFINE next == Work("discard", b, bills[b])
  <2>1. next \in Tasks
    BY <1>0, WorkIsTask DEF Kinds
  <2>2. Fits(next) /\ next.kind # "insert" /\ next.copy = bills[next.bill] /\ bills[next.bill].state # "NONE"
    BY <1>7 DEF StartDiscard, Work, Fits, Editable
  <2> HIDE DEF next
  <2> QED BY <1>7, <2>1, <2>2, Starting DEF StartDiscard, next
<1> QED BY <1>3, <1>4, <1>5, <1>6, <1>7

\* A bill with its version one up and its state another is that bill otherwise.
LEMMA InState ==
  ASSUME NEW x \in Bill, NEW s \in BillStates
  PROVE  LET y == [Bumped(x) EXCEPT !.state = s]
         IN /\ y \in Bill /\ y.version = x.version + 1 /\ y.state = s /\ y.number = x.number
            /\ y.says = x.says /\ y.approvedBy = x.approvedBy
<1> DEFINE v == x.version + 1
           y == [Bumped(x) EXCEPT !.state = s]
<1>1. v \in Nat
  BY DEF Bill
<1>2. y = [x EXCEPT !.version = v, !.state = s]
  BY DEF Bumped
<1> HIDE DEF v, y
<1>3. y \in Bill /\ y.version = v /\ y.state = s /\ y.number = x.number
      /\ y.says = x.says /\ y.approvedBy = x.approvedBy
  BY <1>1, <1>2 DEF Bill
<1> QED BY <1>3 DEF v, y

\* #priced and an edit leave a draft a draft.
LEMMA PricedDraft ==
  ASSUME NEW x \in Bill, Editable(x)
  PROVE  /\ Priced(x) \in Bill /\ Priced(x).version = x.version + 1 /\ Priced(x).number = x.number
         /\ Priced(x).state \in {"DRAFT", "NEEDS_INFO"} /\ ~Issued(Priced(x)) /\ ~Issued(x)
<1> DEFINE v == x.version + 1
           y == Priced(x)
<1>1. v \in Nat /\ x.state \in {"DRAFT", "NEEDS_INFO"}
  BY DEF Bill, Editable
<1>2. \/ y = [x EXCEPT !.version = v, !.state = "DRAFT", !.priced = TRUE]
      \/ y = [x EXCEPT !.version = v, !.state = "NEEDS_INFO", !.priced = FALSE]
  BY <1>1 DEF Priced, Bumped, Bill
<1> HIDE DEF v, y
<1>3. y \in Bill /\ y.version = v /\ y.number = x.number /\ y.state \in {"DRAFT", "NEEDS_INFO"}
  BY <1>1, <1>2 DEF Bill, BillStates
<1> QED BY <1>1, <1>3 DEF v, y, Issued

LEMMA EditedDraft ==
  ASSUME NEW x \in Bill, Editable(x), NEW says \in Contents \cup {Nothing}
  PROVE  LET y == [Bumped(x) EXCEPT !.state = "DRAFT", !.says = says]
         IN y \in Bill /\ y.version = x.version + 1 /\ y.number = x.number /\ y.state = "DRAFT" /\ ~Issued(x)
<1> DEFINE v == x.version + 1
           y == [Bumped(x) EXCEPT !.state = "DRAFT", !.says = says]
<1>1. v \in Nat /\ ~Issued(x)
  BY DEF Bill, Editable, Issued
<1>2. y = [x EXCEPT !.version = v, !.state = "DRAFT", !.says = says]
  BY DEF Bumped
<1> HIDE DEF v, y
<1>3. y \in Bill /\ y.version = v /\ y.number = x.number /\ y.state = "DRAFT"
  BY <1>1, <1>2 DEF Bill, BillStates
<1> QED BY <1>1, <1>3 DEF v, y

\* The steps that save a bill nobody has issued.
LEMMA Drafts ==
  ASSUME IInv, NEW c \in Callers, Price(c) \/ Edit(c) \/ Short(c) \/ Clear(c) \/ Park(c)
  PROVE  IInv'
<1> DEFINE t == task[c]
           copy == t.copy
<1>0. task[c] # Idle /\ t.kind # "insert"
  BY AtWork DEF Price, Edit, Short, Clear, Park, At, Kinds
<1>1. t \in Tasks /\ Fits(t) /\ copy \in Bill /\ t.bill \in Bills
  BY <1>0, Working DEF Tasks
<1>2. crashes \in Nat
  BY DEF IInv, ControlTyped
<1>3. ASSUME NEW x, x \in Bill, x.version = copy.version + 1, x.number = copy.number,
             x.state \in {"DRAFT", "NEEDS_INFO", "PENDING_APPROVAL"}, ~Issued(copy),
             Save(c, x), UNCHANGED <<stock, books>>, UNCHANGED crashes,
             NEW next, GoesOn(c, next),
             next = Idle \/ (next.kind # "insert" /\ next.bill = t.bill /\ next.copy = x)
      PROVE  IInv'
  <2>1. ControlTyped' /\ Alone' /\ TasksFit' /\ BeforeWhole'
    BY <1>0, <1>2, <1>3, GoingOn
  <2>2. CopiesTrue' /\ TablesTyped' /\ TablesWhole'
    BY <1>0, <1>3, SavingDraft DEF GoesOn
  <2> QED BY <2>1, <2>2 DEF IInv
<1>4. CASE Price(c)
  <2> DEFINE x == Priced(copy)
  <2>1. x \in Bill /\ x.version = copy.version + 1 /\ x.number = copy.number
        /\ x.state \in {"DRAFT", "NEEDS_INFO"} /\ ~Issued(copy)
    BY <1>1, <1>4, PricedDraft DEF Price, At, Fits
  <2>2. Save(c, x) /\ UNCHANGED <<stock, books>> /\ UNCHANGED crashes /\ GoesOn(c, Idle)
    BY <1>4 DEF Price, End, GoesOn
  <2> HIDE DEF x
  <2> QED BY <1>3, <2>1, <2>2
<1>5. CASE Edit(c)
  <2> DEFINE x == [Bumped(copy) EXCEPT !.state = "DRAFT", !.says = t.says]
             next == Work("price", t.bill, x)
  <2>1. x \in Bill /\ x.version = copy.version + 1 /\ x.number = copy.number /\ x.state = "DRAFT"
        /\ ~Issued(copy)
    BY <1>1, <1>5, EditedDraft DEF Edit, At, Fits, Tasks
  <2>2. Save(c, x) /\ UNCHANGED <<stock, books>> /\ UNCHANGED <<owner, before, crashes>>
        /\ task' = [task EXCEPT ![c] = next]
    BY <1>5 DEF Edit, Then
  <2> HIDE DEF x
  <2>3. next \in Tasks
    BY <1>1, <2>1, WorkIsTask DEF Kinds
  <2>4. Fits(next) /\ next.kind # "insert" /\ next.bill = t.bill /\ next.copy = x
    BY <2>1 DEF Work, Fits, Editable
  <2> HIDE DEF next
  <2>5. GoesOn(c, next)
    BY <2>2, <2>3, <2>4 DEF GoesOn
  <2> QED BY <1>3, <2>1, <2>2, <2>4, <2>5
<1>6. CASE Short(c)
  <2>1. GoesOn(c, Idle) /\ UNCHANGED crashes
    BY <1>6 DEF Short, End, GoesOn
  <2>2. CASE t.then = "issue" /\ OneAction
    BY <1>0, <1>2, <1>6, <2>1, <2>2, Failing DEF Short, Undone
  <2>3. CASE ~(t.then = "issue" /\ OneAction)
    <3> DEFINE x == [Bumped(copy) EXCEPT !.state = "NEEDS_INFO"]
    <3>0. ~Issued(copy)
      BY <1>1, <1>6 DEF Short, At, Fits, Editable, Issued, Tasks
    <3>1. x \in Bill /\ x.version = copy.version + 1 /\ x.number = copy.number /\ x.state = "NEEDS_INFO"
      BY <1>1, InState DEF BillStates
    <3>2. Save(c, x) /\ UNCHANGED <<stock, books>>
      BY <1>6, <2>3 DEF Short
    <3> HIDE DEF x
    <3> QED BY <1>3, <2>1, <3>0, <3>1, <3>2
  <2> QED BY <2>2, <2>3
<1>7. CASE Clear(c)
  <2> DEFINE x == [Bumped(copy) EXCEPT !.state = "DRAFT"]
  <2>0. ~Issued(copy)
    BY <1>1, <1>7 DEF Clear, At, Fits, Editable, Issued
  <2>1. x \in Bill /\ x.version = copy.version + 1 /\ x.number = copy.number /\ x.state = "DRAFT"
    BY <1>1, InState DEF BillStates
  <2>2. Save(c, x) /\ UNCHANGED <<stock, books>> /\ UNCHANGED crashes /\ GoesOn(c, Idle)
    BY <1>7 DEF Clear, End, GoesOn
  <2> HIDE DEF x
  <2> QED BY <1>3, <2>0, <2>1, <2>2
<1>8. CASE Park(c)
  <2> DEFINE x == [Bumped(copy) EXCEPT !.state = "PENDING_APPROVAL"]
  <2>0. ~Issued(copy)
    BY <1>1, <1>8 DEF Park, At, Fits, Editable, Issued
  <2>1. x \in Bill /\ x.version = copy.version + 1 /\ x.number = copy.number /\ x.state = "PENDING_APPROVAL"
    BY <1>1, InState DEF BillStates
  <2>2. Save(c, x) /\ UNCHANGED <<stock, books>> /\ UNCHANGED crashes /\ GoesOn(c, Idle)
    BY <1>8 DEF Park, End, GoesOn
  <2> HIDE DEF x
  <2> QED BY <1>3, <2>0, <2>1, <2>2
<1> QED BY <1>4, <1>5, <1>6, <1>7, <1>8
\* A hold is dropped, or another taken of what is not held by others.
LEMMA Holding ==
  ASSUME IInv, NEW b \in Bills, NEW n \in Nat, n = 0 \/ n <= shelf - (Sum(held) - held[b]),
         held' = [held EXCEPT ![b] = n], UNCHANGED <<shelf, out, missing, bills, books>>
  PROVE  TablesTyped' /\ TablesWhole'
<1>1. TablesTyped'
  BY DEF IInv, TablesTyped, books
<1>2. WholeGoods(bills, held', shelf, out, missing)
  BY GoodsHold DEF IInv, TablesTyped, TablesWhole
<1> QED BY <1>1, <1>2 DEF IInv, TablesWhole, books

\* The steps that change what a bill holds and no bill.
LEMMA Holds ==
  ASSUME IInv, NEW c \in Callers, Hold(c) \/ LetGo(c) \/ PutBack(c) \/ Discard(c)
  PROVE  IInv'
<1> DEFINE t == task[c]
<1>0. t # Idle /\ t.kind # "insert"
  BY AtWork DEF Hold, LetGo, PutBack, Discard, At, Kinds
<1>1. t \in Tasks /\ Fits(t) /\ t.copy \in Bill /\ t.bill \in Bills
  BY <1>0, Working DEF Tasks
<1>2. crashes \in Nat
  BY DEF IInv, ControlTyped
<1>3. ASSUME NEW n \in Nat, n = 0 \/ n <= shelf - (Sum(held) - held[t.bill]),
             held' = [held EXCEPT ![t.bill] = n], UNCHANGED <<shelf, out, missing, bills, books>>,
             UNCHANGED crashes, NEW next, GoesOn(c, next),
             next = Idle \/ (next.kind # "insert" /\ next.bill = t.bill /\ next.copy = t.copy)
      PROVE  IInv'
  <2>1. ControlTyped' /\ Alone' /\ TasksFit' /\ BeforeWhole'
    BY <1>0, <1>2, <1>3, GoingOn
  <2>2. TablesTyped' /\ TablesWhole'
    BY <1>1, <1>3, Holding
  <2>3. CopiesTrue'
    BY <1>0, <1>3, CopiesStay DEF GoesOn
  <2> QED BY <2>1, <2>2, <2>3 DEF IInv
<1>4. CASE Hold(c)
  <2> DEFINE n == IF t.copy.says.qty <= shelf - (Sum(held) - held[t.bill]) THEN t.copy.says.qty ELSE 0
             next == [t EXCEPT !.kind = IF held'[t.bill] = 0 THEN "short" ELSE t.then]
  <2>1. n \in Nat /\ (n = 0 \/ n <= shelf - (Sum(held) - held[t.bill]))
    BY <1>1, SalesAssumption DEF Bill, Nothing
  <2>2. held' = [held EXCEPT ![t.bill] = n] /\ UNCHANGED <<shelf, out, missing, bills, books>>
        /\ UNCHANGED <<owner, before, crashes>> /\ task' = [task EXCEPT ![c] = next]
    BY <1>4 DEF Hold, Reserve, Then
  <2>3. t.kind = "hold" /\ t.then \in {"let go", "park", "issue"}
    BY <1>1, <1>4 DEF Hold, At, Fits, Tasks
  <2> HIDE DEF n
  <2>4. next = [t EXCEPT !.kind = "short"] \/ next = [t EXCEPT !.kind = t.then]
    OBVIOUS
  <2> HIDE DEF next
  <2>5. next \in Tasks /\ Fits(next) /\ next.kind # "insert" /\ next.bill = t.bill /\ next.copy = t.copy
    BY <1>1, <2>3, <2>4 DEF Tasks, Kinds, Fits
  <2>6. GoesOn(c, next)
    BY <2>2, <2>5 DEF GoesOn
  <2> QED BY <1>3, <2>1, <2>2, <2>5, <2>6
<1>5. CASE LetGo(c)
  <2>1. held' = [held EXCEPT ![t.bill] = 0] /\ UNCHANGED <<shelf, out, missing, bills, books>>
        /\ UNCHANGED crashes
    BY <1>5 DEF LetGo, Release, End, Then
  <2>2. CASE t.copy.state = "DRAFT"
    <3>1. GoesOn(c, Idle)
      BY <1>5, <2>2 DEF LetGo, End, GoesOn
    <3> QED BY <1>3, <2>1, <3>1
  <2>3. CASE t.copy.state # "DRAFT"
    <3> DEFINE next == [t EXCEPT !.kind = "clear"]
    <3>1. next \in Tasks /\ Fits(next) /\ next.kind # "insert" /\ next.bill = t.bill /\ next.copy = t.copy
      BY <1>1, <1>5 DEF LetGo, At, Tasks, Kinds, Fits
    <3>2. GoesOn(c, next)
      BY <1>5, <2>3, <3>1 DEF LetGo, Then, GoesOn
    <3> HIDE DEF next
    <3> QED BY <1>3, <2>1, <3>1, <3>2
  <2> QED BY <2>2, <2>3
<1>6. CASE PutBack(c)
  <2>1. held' = [held EXCEPT ![t.bill] = 0] /\ UNCHANGED <<shelf, out, missing, bills, books>>
        /\ UNCHANGED crashes /\ GoesOn(c, Idle)
    BY <1>6 DEF PutBack, Release, End, GoesOn
  <2> QED BY <1>3, <2>1
<1>7. CASE Discard(c)
  <2> DEFINE next == [t EXCEPT !.kind = "remove"]
  <2>1. next \in Tasks /\ Fits(next) /\ next.kind # "insert" /\ next.bill = t.bill /\ next.copy = t.copy
    BY <1>1, <1>7 DEF Discard, At, Tasks, Kinds, Fits
  <2>2. held' = [held EXCEPT ![t.bill] = 0] /\ UNCHANGED <<shelf, out, missing, bills, books>>
        /\ UNCHANGED crashes /\ GoesOn(c, next)
    BY <1>7, <2>1 DEF Discard, Release, Then, GoesOn
  <2> HIDE DEF next
  <2> QED BY <1>3, <2>1, <2>2
<1> QED BY <1>4, <1>5, <1>6, <1>7

\* A bill is written for the first time, or another request was first.
LEMMA Inserting == ASSUME IInv, NEW c \in Callers, Insert(c) PROVE IInv'
<1> DEFINE t == task[c]
           b == t.bill
           copy == t.copy
<1>0. t # Idle /\ t.kind = "insert"
  BY AtWork DEF Insert, At, Kinds
<1>1. t \in Tasks /\ copy \in Bill /\ b \in Bills /\ crashes \in Nat
  BY <1>0, Working DEF Tasks, IInv, ControlTyped
<1>2. CASE bills[b].state # "NONE" /\ UNCHANGED tables /\ End(c)
  <2>1. GoesOn(c, Idle) /\ UNCHANGED crashes
    BY <1>2 DEF End, GoesOn
  <2>2. ControlTyped' /\ Alone' /\ TasksFit' /\ BeforeWhole'
    BY <1>0, <1>1, <2>1, GoingOn
  <2>3. CopiesTrue'
    BY <1>2, <2>1, CopiesStay DEF GoesOn, tables
  <2> QED BY <1>2, <2>2, <2>3, TablesStay DEF IInv
<1>3. CASE /\ bills[b].state = "NONE" /\ bills' = [bills EXCEPT ![b] = copy]
           /\ Then(c, Work("price", b, copy)) /\ UNCHANGED <<stock, books>>
  <2> DEFINE next == Work("price", b, copy)
  <2>1. copy.state = "DRAFT" /\ copy.number = 0
    BY <1>0 DEF IInv, CopiesTrue
  <2>2. next \in Tasks
    BY <1>1, WorkIsTask DEF Kinds
  <2>3. Fits(next) /\ next.kind # "insert" /\ next.bill = b /\ next.copy = copy
    BY <2>1 DEF Work, Fits, Editable
  <2> HIDE DEF next
  <2>4. GoesOn(c, next) /\ UNCHANGED crashes
    BY <1>3, <2>2, <2>3 DEF Then, GoesOn, next
  <2>5. ControlTyped' /\ Alone' /\ TasksFit' /\ BeforeWhole'
    BY <1>0, <1>1, <2>4, GoingOn
  <2>6. TablesTyped'
    BY <1>1, <1>3 DEF IInv, TablesTyped, stock, books
  <2>7. TablesWhole'
    <3>1. bills \in [Bills -> Bill] /\ ~Issued(bills[b]) /\ ~Issued(copy) /\ copy.number = 0
      BY <1>3, <2>1 DEF IInv, TablesTyped, Issued
    <3>2. WholeBooks(bills', sequence, posted, reversed)
      BY <1>1, <1>3, <3>1, BooksDraft DEF IInv, TablesWhole, TablesTyped
    <3>3. WholeGoods(bills', held, shelf, out, missing)
      BY <1>1, <1>3, <3>1, GoodsDraft DEF IInv, TablesWhole
    <3> QED BY <1>3, <3>2, <3>3 DEF TablesWhole, stock, books
  <2>8. CopiesTrue'
    <3>1. task \in [Callers -> Tasks \cup {Idle}] /\ bills \in [Bills -> Bill]
      BY DEF IInv, ControlTyped, TablesTyped
    <3> SUFFICES ASSUME NEW d \in Callers, task'[d] # Idle
                 PROVE  LET y == bills'[task'[d].bill]
                            mine == task'[d].copy
                        IN IF task'[d].kind = "insert"
                           THEN mine.state = "DRAFT" /\ mine.number = 0
                           ELSE /\ y.state # "NONE"
                                /\ y.state # "GONE" => mine.version <= y.version
                                /\ y.state # "GONE" /\ mine.version = y.version => mine = y
      BY DEF CopiesTrue, Exists
    <3>2. CASE d = c
      <4>1. task'[d] = next /\ bills'[b] = copy
        BY <1>1, <1>3, <2>4, <3>1, <3>2 DEF GoesOn
      <4> QED BY <1>1, <2>1, <2>3, <4>1 DEF Bill
    <3>3. CASE d # c
      <4>1. task'[d] = task[d] /\ task[d] \in Tasks
        BY <2>4, <3>1, <3>3 DEF GoesOn
      <4>2. task[d].bill \in Bills
        BY <4>1 DEF Tasks
      <4>3. task[d].kind = "insert" \/ bills'[task[d].bill] = bills[task[d].bill]
        BY <1>3, <3>1, <4>1, <4>2 DEF IInv, CopiesTrue
      <4> QED BY <4>1, <4>3 DEF IInv, CopiesTrue, Exists
    <3> QED BY <3>2, <3>3
  <2> QED BY <2>5, <2>6, <2>7, <2>8 DEF IInv
<1> QED BY <1>2, <1>3 DEF Insert

\* The bill is issued: number, entry, goods and bill together.
LEMMA Issuing == ASSUME IInv, NEW c \in Callers, Issue(c) PROVE IInv'
<1> DEFINE t == task[c]
           b == t.bill
           copy == t.copy
<1>0. t # Idle /\ t.kind = "issue"
  BY AtWork DEF Issue, At, Kinds
<1>1. t \in Tasks /\ Fits(t) /\ copy \in Bill /\ b \in Bills /\ crashes \in Nat
  BY <1>0, Working DEF Tasks, IInv, ControlTyped
<1>2. t.user \in Users /\ copy.state \in {"DRAFT", "PENDING_APPROVAL"} /\ MayIssue(copy, t.user)
  BY <1>0, <1>1 DEF Fits
<1>3. CASE UNCHANGED tables /\ Then(c, [t EXCEPT !.kind = "look"])
  <2> DEFINE next == [t EXCEPT !.kind = "look"]
  <2>1. next \in Tasks /\ Fits(next) /\ next.kind # "insert" /\ next.bill = b /\ next.copy = copy
    BY <1>1, <1>0 DEF Tasks, Kinds, Fits
  <2>2. GoesOn(c, next) /\ UNCHANGED crashes
    BY <1>3, <2>1 DEF Then, GoesOn
  <2> HIDE DEF next
  <2>3. ControlTyped' /\ Alone' /\ TasksFit' /\ BeforeWhole'
    BY <1>0, <1>1, <2>2, GoingOn
  <2>4. CopiesTrue'
    BY <1>0, <1>3, <2>1, <2>2, CopiesStay DEF GoesOn, tables
  <2> QED BY <1>3, <2>3, <2>4, TablesStay DEF IInv
<1>4. ASSUME NEW x, x = [Bumped(copy) EXCEPT !.state = "FINAL", !.number = sequence + 1,
                           !.approvedBy = IF copy.state = "PENDING_APPROVAL" THEN t.user ELSE NoOne],
             Save(c, x), IssueGoods(b), sequence' = sequence + 1, posted' = posted \cup {b},
             UNCHANGED reversed, End(c)
      PROVE  IInv'
  <2>1. x \in Bill /\ x.state = "FINAL" /\ x.number = sequence + 1 /\ x.version = copy.version + 1
        /\ (x.says.big => x.approvedBy = "other")
    <3> DEFINE v == copy.version + 1
               n == sequence + 1
               who == IF copy.state = "PENDING_APPROVAL" THEN t.user ELSE NoOne
    <3>1. v \in Nat /\ n \in Nat \ {0} /\ who \in Users \cup {NoOne}
      BY <1>1, <1>2 DEF Bill, IInv, TablesTyped
    <3>2. x = [copy EXCEPT !.version = v, !.state = "FINAL", !.number = n, !.approvedBy = who]
      BY <1>4 DEF Bumped
    <3>3. copy.says.big => who = "other"
      BY <1>2 DEF MayIssue, Users
    <3> HIDE DEF v, n, who
    <3>4. x \in Bill /\ x.state = "FINAL" /\ x.number = n /\ x.version = v /\ x.says = copy.says
          /\ x.approvedBy = who
      BY <1>1, <3>1, <3>2 DEF Bill, BillStates
    <3> QED BY <3>3, <3>4 DEF v, n
  <2>2. GoesOn(c, Idle) /\ UNCHANGED crashes
    BY <1>4 DEF End, GoesOn
  <2>3. ControlTyped' /\ Alone' /\ TasksFit' /\ BeforeWhole'
    BY <1>0, <1>1, <2>2, GoingOn
  <2>4. CopiesTrue' /\ copy = bills[b] /\ bills' = [bills EXCEPT ![b] = x]
    BY <1>0, <1>4, <2>1, <2>2, CopiesSave DEF GoesOn
  <2>5. held[b] <= shelf /\ shelf' = shelf - held[b] /\ out' = [out EXCEPT ![b] = out[b] + held[b]]
        /\ held' = [held EXCEPT ![b] = 0] /\ missing' = missing
    BY <1>4 DEF IssueGoods
  <2>6. TablesTyped'
    <3>1. shelf' \in Nat /\ out' \in [Bills -> Nat] /\ held' \in [Bills -> Nat]
      BY <1>1, <2>5 DEF IInv, TablesTyped
    <3>2. bills' \in [Bills -> Bill]
      BY <1>1, <2>1, <2>4 DEF IInv, TablesTyped
    <3>3. sequence' \in Nat
      BY <1>4 DEF IInv, TablesTyped
    <3> QED BY <1>1, <1>4, <2>5, <3>1, <3>2, <3>3 DEF IInv, TablesTyped
  <2>7. ~Issued(bills[b])
    BY <1>2, <2>4 DEF Issued
  <2>8. WholeBooks(bills', sequence', posted', reversed')
    BY <1>1, <1>4, <2>1, <2>4, <2>7, BooksIssue DEF IInv, TablesWhole, TablesTyped
  <2>9. WholeGoods(bills', held', shelf', out', missing')
    BY <1>1, <2>1, <2>4, <2>5, GoodsIssue DEF IInv, TablesWhole, TablesTyped
  <2> QED BY <2>3, <2>4, <2>6, <2>8, <2>9 DEF IInv, TablesWhole
<1> QED BY <1>3, <1>4 DEF Issue

LEMMA Cancelling == ASSUME IInv, NEW c \in Callers, Cancel(c) PROVE IInv'
<1> DEFINE t == task[c]
           b == t.bill
           copy == t.copy
           x == [Bumped(copy) EXCEPT !.state = "CANCELLED"]
<1>0. t # Idle /\ t.kind = "cancel"
  BY AtWork DEF Cancel, At, Kinds
<1>1. t \in Tasks /\ Fits(t) /\ copy \in Bill /\ b \in Bills /\ crashes \in Nat
  BY <1>0, Working DEF Tasks, IInv, ControlTyped
<1>2. copy.state = "FINAL"
  BY <1>0, <1>1 DEF Fits
<1>3. x \in Bill /\ x.state = "CANCELLED" /\ x.number = copy.number /\ x.version = copy.version + 1
      /\ x.says = copy.says /\ x.approvedBy = copy.approvedBy
  BY <1>1, InState DEF BillStates
<1>4. Save(c, x) /\ ReturnGoods(b) /\ reversed' = reversed \cup {b} /\ UNCHANGED <<sequence, posted>>
  BY DEF Cancel
<1> HIDE DEF x
<1>5. GoesOn(c, Idle) /\ UNCHANGED crashes
  BY DEF Cancel, End, GoesOn
<1>6. ControlTyped' /\ Alone' /\ TasksFit' /\ BeforeWhole'
  BY <1>0, <1>1, <1>5, GoingOn
<1>7. CopiesTrue' /\ copy = bills[b] /\ bills' = [bills EXCEPT ![b] = x]
  BY <1>0, <1>3, <1>4, <1>5, CopiesSave DEF GoesOn
<1>8. shelf' = shelf + out[b] /\ out' = [out EXCEPT ![b] = 0] /\ UNCHANGED <<held, missing>>
  BY <1>4 DEF ReturnGoods
<1>9. TablesTyped'
  BY <1>1, <1>3, <1>4, <1>7, <1>8 DEF IInv, TablesTyped
<1>10. WholeBooks(bills', sequence', posted', reversed')
  BY <1>1, <1>2, <1>3, <1>4, <1>7, BooksCancel DEF IInv, TablesWhole, TablesTyped
<1>11. WholeGoods(bills', held', shelf', out', missing')
  BY <1>1, <1>7, <1>8, GoodsReturn DEF IInv, TablesWhole, TablesTyped
<1> QED BY <1>6, <1>7, <1>9, <1>10, <1>11 DEF IInv, TablesWhole

LEMMA Removing == ASSUME IInv, NEW c \in Callers, Remove(c) PROVE IInv'
<1> DEFINE t == task[c]
           b == t.bill
           x == Absent("GONE")
<1>0. t # Idle /\ t.kind = "remove"
  BY AtWork DEF Remove, At, Kinds
<1>1. t \in Tasks /\ b \in Bills /\ crashes \in Nat
  BY <1>0, Working DEF Tasks, IInv, ControlTyped
<1>2. bills[b].number = 0 /\ bills' = [bills EXCEPT ![b] = x] /\ UNCHANGED <<stock, books>>
  BY DEF Remove
<1>3. x \in Bill /\ x.number = 0 /\ x.state = "GONE"
  BY DEF Absent, Bill, BillStates, Nothing, NoOne
<1> HIDE DEF x
<1>4. GoesOn(c, Idle) /\ UNCHANGED crashes
  BY DEF Remove, End, GoesOn
<1>5. ControlTyped' /\ Alone' /\ TasksFit' /\ BeforeWhole'
  BY <1>0, <1>1, <1>4, GoingOn
<1>6. bills \in [Bills -> Bill] /\ task \in [Callers -> Tasks \cup {Idle}]
  BY DEF IInv, TablesTyped, ControlTyped
<1>7. TablesTyped'
  BY <1>1, <1>2, <1>3 DEF IInv, TablesTyped, stock, books
<1>8. ~Issued(bills[b]) /\ ~Issued(x)
  BY <1>1, <1>2, <1>3 DEF IInv, TablesWhole, WholeBooks, Issued
<1>9. WholeBooks(bills', sequence, posted, reversed)
  BY <1>1, <1>2, <1>3, <1>6, <1>8, BooksDraft DEF IInv, TablesWhole, TablesTyped
<1>10. WholeGoods(bills', held, shelf, out, missing)
  BY <1>1, <1>2, <1>3, <1>6, <1>8, GoodsDraft DEF IInv, TablesWhole
<1>11. CopiesTrue'
  <2> SUFFICES ASSUME NEW d \in Callers, task'[d] # Idle
               PROVE  LET y == bills'[task'[d].bill]
                          mine == task'[d].copy
                      IN IF task'[d].kind = "insert"
                         THEN mine.state = "DRAFT" /\ mine.number = 0
                         ELSE /\ y.state # "NONE"
                              /\ y.state # "GONE" => mine.version <= y.version
                              /\ y.state # "GONE" /\ mine.version = y.version => mine = y
    BY DEF CopiesTrue, Exists
  <2>1. d # c /\ task'[d] = task[d] /\ task[d] \in Tasks
    BY <1>4, <1>6 DEF GoesOn
  <2>2. task[d].bill \in Bills
    BY <2>1 DEF Tasks
  <2>3. \/ bills'[task[d].bill] = bills[task[d].bill]
        \/ bills'[task[d].bill].state = "GONE"
    BY <1>2, <1>3, <1>6, <2>2
  <2> QED BY <2>1, <2>3 DEF IInv, CopiesTrue, Exists
<1> QED BY <1>2, <1>5, <1>7, <1>9, <1>10, <1>11 DEF IInv, TablesWhole, stock, books

\* The loser of two issues finds the bill issued.
LEMMA Looking == ASSUME IInv, NEW c \in Callers, Look(c) PROVE IInv'
<1> DEFINE t == task[c]
           next == [t EXCEPT !.kind = "put back"]
<1>0. t # Idle /\ t.kind = "look"
  BY AtWork DEF Look, At, Kinds
<1>1. t \in Tasks /\ Fits(t) /\ crashes \in Nat
  BY <1>0, Working DEF IInv, ControlTyped
<1>2. next \in Tasks /\ Fits(next) /\ next.kind # "insert" /\ next.bill = t.bill /\ next.copy = t.copy
  BY <1>1 DEF Tasks, Kinds, Fits
<1>3. GoesOn(c, next) /\ UNCHANGED crashes /\ UNCHANGED tables
  BY <1>2 DEF Look, Then, GoesOn
<1> HIDE DEF next
<1>4. ControlTyped' /\ Alone' /\ TasksFit' /\ BeforeWhole'
  BY <1>0, <1>1, <1>3, GoingOn
<1>5. CopiesTrue'
  BY <1>0, <1>2, <1>3, CopiesStay DEF GoesOn, tables
<1> QED BY <1>3, <1>4, <1>5, TablesStay DEF IInv

LEMMA Failures ==
  ASSUME IInv, NEW c \in Callers,
         IssueRefused(c) \/ Stale(c) \/ RemoveRefused(c) \/ Crash(c)
  PROVE  IInv'
<1>1. task[c] # Idle
  BY AtWork DEF IssueRefused, Stale, RemoveRefused, Crash, At, Kinds
<1>2. Undone /\ GoesOn(c, Idle)
  BY DEF IssueRefused, Stale, RemoveRefused, Crash, Fail, End, GoesOn
<1>3. crashes' \in Nat
  BY DEF IInv, ControlTyped, IssueRefused, Stale, RemoveRefused, Crash, Fail, End
<1> QED BY <1>1, <1>2, <1>3, Failing

LEMMA Counting == ASSUME IInv, NEW n \in Counts, Count(n) PROVE IInv'
<1>1. n \in Nat /\ n <= shelf /\ shelf' = shelf - n /\ missing' = missing + n
      /\ UNCHANGED <<bills, held, out, books, task, owner, before, crashes>>
  BY SalesAssumption DEF Count
<1>2. TablesTyped'
  BY <1>1 DEF IInv, TablesTyped, books
<1>3. WholeGoods(bills', held', shelf', out', missing')
  BY <1>1, GoodsCount DEF IInv, TablesTyped, TablesWhole
<1>4. TablesWhole'
  BY <1>1, <1>3 DEF IInv, TablesWhole, books
<1>5. ControlTyped' /\ Alone' /\ CopiesTrue' /\ TasksFit' /\ BeforeWhole'
  BY <1>1 DEF IInv, ControlTyped, Alone, CopiesTrue, Exists, TasksFit, BeforeWhole
<1> QED BY <1>2, <1>4, <1>5 DEF IInv

LEMMA Stuttering == IInv /\ UNCHANGED vars => IInv'
BY DEF vars, tables, IInv, TablesTyped, ControlTyped, Alone, CopiesTrue, Exists, TasksFit, TablesWhole, BeforeWhole
LEMMA Inductively == IInv /\ [Next]_vars => IInv'
<1> SUFFICES ASSUME IInv, Next PROVE IInv'
  BY Stuttering
<1>1. ASSUME NEW c \in Callers, NEW b \in Bills, NEW says \in Contents,
             StartDraft(c, b, says) \/ StartEdit(c, b, says)
      PROVE  IInv'
  BY <1>1, Starts
<1>2. ASSUME NEW c \in Callers, NEW b \in Bills,
             StartCheck(c, b) \/ StartSubmit(c, b) \/ StartCancel(c, b) \/ StartDiscard(c, b)
      PROVE  IInv'
  BY <1>2, StartsUnsaid DEF Users
<1>3. ASSUME NEW c \in Callers, NEW b \in Bills, NEW user \in Users, StartIssue(c, b, user) PROVE IInv'
  BY <1>3, StartsUnsaid
<1>4. ASSUME NEW c \in Callers, Continue(c) PROVE IInv'
  BY <1>4, Inserting, Drafts, Holds, Issuing, Looking, Failures, Cancelling, Removing DEF Continue
<1>5. ASSUME NEW c \in Callers, Crash(c) PROVE IInv'
  BY <1>5, Failures
<1>6. ASSUME NEW n \in Counts, Count(n) PROVE IInv'
  BY <1>6, Counting
<1> QED BY <1>1, <1>2, <1>3, <1>4, <1>5, <1>6 DEF Next

LEMMA Invariantly == Spec => []IInv
BY Initially, Inductively, PTL DEF Spec

-----------------------------------------------------------------------------
\* The tables, the requests' copies and their order of work are well formed in
\* every reachable state.
THEOREM TypeCorrect == Spec => []TypeOK
<1>1. IInv => TypeOK
  BY DEF IInv, TablesTyped, ControlTyped, TypeOK
<1> QED BY <1>1, Invariantly, PTL

\* However many requests issue, cancel, edit and discard bills, and wherever they
\* die, an issued bill has its entry and the next number, numbers run from 1
\* without a gap or a repeat, and a bill above the limit was approved by someone
\* who did not make it (issue, service.ts:618).
THEOREM IssuedWhole == Spec => []IssuedProperly
<1>1. IInv => IssuedProperly
  BY DEF IInv, TablesWhole, WholeBooks, Numbered, IssuedProperly, IssuedTogether, EntriesMatch, NumbersRun,
         ApprovedByAnother
<1> QED BY <1>1, Invariantly, PTL

\* Whatever is held, issued, cancelled and counted, every piece is on the shelf,
\* sold by a bill that stands or counted missing, and two tills never hold the
\* same goods (inventory's reserve, issue and returnToStock).
THEOREM EveryPieceAccounted == Spec => []GoodsAccounted
<1>1. IInv => GoodsAccounted
  BY DEF IInv, TablesWhole, WholeGoods, GoodsAccounted, HoldsAreCovered
<1> QED BY <1>1, Invariantly, PTL

-----------------------------------------------------------------------------
(* What was issued stays *)

\* What a failure would put back has every issued bill as it is.
IssuedBefore == before # NoTables => \A b \in Bills : Issued(bills[b]) => before.bills[b] = bills[b]

Cancelled(x) == [Bumped(x) EXCEPT !.state = "CANCELLED"]

Stays == \A b \in Bills :
  Issued(bills[b]) => \/ bills'[b] = bills[b]
                      \/ bills[b].state = "FINAL" /\ bills'[b] = Cancelled(bills[b])

\* The ways a step treats the bills and what it keeps of them.
Leaves == bills' = bills /\ (before' = before \/ before' = NoTables \/ before' = Snapshot)
Drafted == /\ \E b \in Bills, x \in Bill :
                ~Issued(bills[b]) /\ ~Issued(x) /\ bills' = [bills EXCEPT ![b] = x]
           /\ before' = before \/ before' = NoTables
Sold == /\ \E b \in Bills : ~Issued(bills[b]) /\ \A o \in Bills \ {b} : bills'[o] = bills[o]
        /\ before' = NoTables
Undid == \E b \in Bills : /\ bills[b].state = "FINAL" /\ before' = NoTables
                          /\ bills' = [bills EXCEPT ![b] = Cancelled(bills[b])]
Reverted == before # NoTables /\ bills' = before.bills /\ before' = NoTables

LEMMA Treated ==
  ASSUME IInv, IssuedBefore, Leaves \/ Drafted \/ Sold \/ Undid \/ Reverted
  PROVE  Stays /\ IssuedBefore'
<1>0. bills \in [Bills -> Bill]
  BY DEF IInv, TablesTyped
<1>1. CASE Leaves
  BY <1>1 DEF Leaves, Stays, IssuedBefore, Snapshot, Issued
<1>2. CASE Drafted
  BY <1>0, <1>2 DEF Drafted, Stays, IssuedBefore, Issued
<1>3. CASE Sold
  BY <1>0, <1>3 DEF Sold, Stays, IssuedBefore, Issued
<1>4. CASE Undid
  BY <1>0, <1>4 DEF Undid, Stays, IssuedBefore, Issued
<1>5. CASE Reverted
  BY <1>5 DEF Reverted, Stays, IssuedBefore, Issued
<1> QED BY <1>1, <1>2, <1>3, <1>4, <1>5

\* A save is of the bill the copy still is.
LEMMA SavesCopy ==
  ASSUME IInv, NEW c \in Callers, task[c] # Idle, task[c].kind # "insert", NEW x, Save(c, x)
  PROVE  /\ task[c].bill \in Bills /\ task[c].copy = bills[task[c].bill] /\ task[c].copy \in Bill
         /\ bills' = [bills EXCEPT ![task[c].bill] = x]
BY Working DEF IInv, TablesTyped, Tasks, CopiesTrue, Save, Current

LEMMA FailureTreats ==
  ASSUME IInv, NEW c \in Callers, task[c] # Idle, Undone, before' = NoTables
  PROVE  Leaves \/ Reverted
<1>1. CASE OneAction
  <2>1. before \in Tables /\ Restore
    BY <1>1, Working DEF Undone
  <2>2. before.open /\ ~NoTables.open
    BY <2>1 DEF Tables, NoTables
  <2> QED BY <2>1, <2>2 DEF Restore, Reverted
<1>2. CASE ~OneAction
  BY <1>2 DEF Undone, tables, Leaves
<1> QED BY <1>1, <1>2
\* A save of a bill nobody has issued, by a request that goes on or ends.
LEMMA DraftTreats ==
  ASSUME IInv, NEW c \in Callers, task[c] # Idle, task[c].kind # "insert", ~Issued(task[c].copy),
         NEW x \in Bill, ~Issued(x), Save(c, x), before' = before \/ before' = NoTables
  PROVE  Drafted
BY SavesCopy DEF Drafted

LEMMA StepTreats ==
  ASSUME IInv, Next
  PROVE  Leaves \/ Drafted \/ Sold \/ Undid \/ Reverted
<1>0. bills \in [Bills -> Bill]
  BY DEF IInv, TablesTyped
<1>1. ASSUME NEW c \in Callers, Begin(c), UNCHANGED tables PROVE Leaves
  BY <1>1 DEF Begin, Leaves, tables
<1>2. ASSUME NEW c \in Callers, NEW b \in Bills, NEW says \in Contents,
             StartDraft(c, b, says) \/ StartEdit(c, b, says)
      PROVE  Leaves
  BY <1>1, <1>2 DEF StartDraft, StartEdit
<1>3. ASSUME NEW c \in Callers, NEW b \in Bills,
             StartCheck(c, b) \/ StartSubmit(c, b) \/ StartCancel(c, b) \/ StartDiscard(c, b)
      PROVE  Leaves
  BY <1>1, <1>3 DEF StartCheck, StartSubmit, StartCancel, StartDiscard
<1>4. ASSUME NEW c \in Callers, NEW b \in Bills, NEW user \in Users, StartIssue(c, b, user) PROVE Leaves
  BY <1>1, <1>4 DEF StartIssue
<1>5. ASSUME NEW c \in Callers, Continue(c) PROVE Leaves \/ Drafted \/ Sold \/ Undid \/ Reverted
  <2> DEFINE t == task[c]
             b == t.bill
             copy == t.copy
  <2>0. t # Idle /\ t \in Tasks /\ Fits(t) /\ copy \in Bill /\ b \in Bills
    <3>1. t # Idle
      BY <1>5, AtWork DEF Continue, Insert, Price, Edit, Hold, Short, LetGo, Clear, Park, Issue, IssueRefused,
           Look, PutBack, Stale, Cancel, Discard, Remove, RemoveRefused, At, Kinds
    <3> QED BY <3>1, Working DEF Tasks
  <2>1. CASE Insert(c)
    <3>1. copy.state = "DRAFT"
      BY <2>0, <2>1 DEF Insert, At, IInv, CopiesTrue
    <3>2. CASE bills[b].state # "NONE" /\ UNCHANGED tables /\ End(c)
      BY <3>2 DEF End, tables, Leaves
    <3>3. CASE bills[b].state = "NONE" /\ bills' = [bills EXCEPT ![b] = copy] /\ before' = before
      BY <2>0, <3>1, <3>3 DEF Drafted, Issued
    <3> QED BY <2>1, <3>2, <3>3 DEF Insert, Then
  <2>2. CASE Price(c)
    <3>1. Save(c, Priced(copy)) /\ before' = NoTables /\ t.kind = "price"
      BY <2>2 DEF Price, End, At
    <3>2. Priced(copy) \in Bill /\ ~Issued(Priced(copy)) /\ ~Issued(copy)
      BY <2>0, <3>1, PricedDraft DEF Fits
    <3> QED BY <2>0, <3>1, <3>2, DraftTreats
  <2>3. CASE Edit(c)
    <3> DEFINE x == [Bumped(copy) EXCEPT !.state = "DRAFT", !.says = t.says]
    <3>1. Save(c, x) /\ before' = before /\ t.kind = "edit"
      BY <2>3 DEF Edit, Then, At
    <3>2. x \in Bill /\ x.state = "DRAFT" /\ ~Issued(copy)
      BY <2>0, <3>1, EditedDraft DEF Fits, Tasks
    <3> HIDE DEF x
    <3> QED BY <2>0, <3>1, <3>2, DraftTreats DEF Issued
  <2>4. ASSUME NEW s \in {"DRAFT", "NEEDS_INFO", "PENDING_APPROVAL"}, ~Issued(copy), t.kind # "insert",
               Save(c, [Bumped(copy) EXCEPT !.state = s]), before' = NoTables
        PROVE  Drafted
    <3> DEFINE x == [Bumped(copy) EXCEPT !.state = s]
    <3>0. s \in BillStates
      BY DEF BillStates
    <3>1. x \in Bill /\ x.state = s
      <4> HIDE <2>4
      <4> QED BY <2>0, <3>0, InState
    <3>2. Save(c, x)
      BY <2>4
    <3> HIDE DEF x
    <3> QED BY <2>0, <2>4, <3>1, <3>2, DraftTreats DEF Issued
  <2>5. CASE Short(c)
    <3>1. before' = NoTables /\ t.kind = "short"
      BY <2>5 DEF Short, End, At
    <3>2. CASE t.then = "issue" /\ OneAction
      BY <2>0, <2>5, <3>1, <3>2, FailureTreats DEF Short, Undone
    <3>3. CASE ~(t.then = "issue" /\ OneAction)
      <4>1. Save(c, [Bumped(copy) EXCEPT !.state = "NEEDS_INFO"])
        BY <2>5, <3>3 DEF Short
      <4>2. ~Issued(copy)
        BY <2>0, <3>1 DEF Fits, Editable, Issued, Tasks
      <4> QED BY <2>4, <3>1, <4>1, <4>2
    <3> QED BY <3>2, <3>3
  <2>6. CASE Clear(c)
    <3>1. Save(c, [Bumped(copy) EXCEPT !.state = "DRAFT"]) /\ before' = NoTables /\ t.kind = "clear"
      BY <2>6 DEF Clear, End, At
    <3>2. ~Issued(copy)
      BY <2>0, <3>1 DEF Fits, Editable, Issued
    <3> QED BY <2>4, <3>1, <3>2
  <2>7. CASE Park(c)
    <3>1. Save(c, [Bumped(copy) EXCEPT !.state = "PENDING_APPROVAL"]) /\ before' = NoTables /\ t.kind = "park"
      BY <2>7 DEF Park, End, At
    <3>2. ~Issued(copy)
      BY <2>0, <3>1 DEF Fits, Issued
    <3> QED BY <2>4, <3>1, <3>2
  <2>8. CASE Hold(c) \/ LetGo(c) \/ Look(c) \/ PutBack(c) \/ Discard(c)
    BY <2>8 DEF Hold, LetGo, Look, PutBack, Discard, End, Then, tables, Leaves
  <2>9. CASE Issue(c)
    <3>1. t.kind = "issue"
      BY <2>9 DEF Issue, At
    <3>2. CASE UNCHANGED tables /\ Then(c, [t EXCEPT !.kind = "look"])
      BY <3>2 DEF Then, tables, Leaves
    <3>3. ASSUME NEW x, Save(c, x), before' = NoTables PROVE Sold
      <4>1. bills' = [bills EXCEPT ![b] = x] /\ copy = bills[b]
        BY <2>0, <3>1, <3>3, SavesCopy
      <4>2. ~Issued(copy)
        BY <2>0, <3>1 DEF Fits, Issued
      <4>3. \A o \in Bills \ {b} : bills'[o] = bills[o]
        BY <1>0, <4>1
      <4> QED BY <2>0, <3>3, <4>1, <4>2, <4>3 DEF Sold
    <3> QED BY <2>9, <3>2, <3>3 DEF Issue, End
  <2>10. CASE Cancel(c)
    <3>1. Save(c, Cancelled(copy)) /\ before' = NoTables /\ t.kind = "cancel"
      BY <2>10 DEF Cancel, End, At, Cancelled
    <3>2. bills' = [bills EXCEPT ![b] = Cancelled(copy)] /\ copy = bills[b]
      BY <2>0, <3>1, SavesCopy
    <3>3. copy.state = "FINAL"
      BY <2>0, <3>1 DEF Fits
    <3> QED BY <2>0, <3>1, <3>2, <3>3 DEF Undid
  <2>11. CASE Remove(c)
    <3>1. bills[b].number = 0 /\ bills' = [bills EXCEPT ![b] = Absent("GONE")] /\ before' = NoTables
      BY <2>11 DEF Remove, End
    <3>2. ~Issued(bills[b])
      BY <2>0, <3>1 DEF IInv, TablesWhole, WholeBooks
    <3>3. Absent("GONE") \in Bill /\ ~Issued(Absent("GONE"))
      BY DEF Absent, Issued, Bill, BillStates, Nothing, NoOne
    <3> QED BY <2>0, <3>1, <3>2, <3>3 DEF Drafted
  <2>12. CASE IssueRefused(c) \/ Stale(c) \/ RemoveRefused(c)
    <3>1. Undone /\ before' = NoTables
      BY <2>12 DEF IssueRefused, Stale, RemoveRefused, Fail, End
    <3> QED BY <2>0, <3>1, FailureTreats
  <2> QED BY <1>5, <2>1, <2>2, <2>3, <2>5, <2>6, <2>7, <2>8, <2>9, <2>10, <2>11, <2>12 DEF Continue
<1>6. ASSUME NEW c \in Callers, Crash(c) PROVE Leaves \/ Reverted
  BY <1>6, FailureTreats DEF Crash
<1>7. ASSUME NEW n \in Counts, Count(n) PROVE Leaves
  BY <1>7 DEF Count, Leaves
<1> QED BY <1>2, <1>3, <1>4, <1>5, <1>6, <1>7 DEF Next

\* An issued bill is never edited, removed or issued again: whatever a request
\* read before, and whatever a failed one puts back, it stays word for word, or
\* goes from FINAL to CANCELLED (repository.update with the version read).
THEOREM IssuedRemains == Spec => IssuedStays
<1>1. Init => IssuedBefore
  BY DEF Init, IssuedBefore
<1>2. IInv /\ IssuedBefore /\ [Next]_vars => IssuedBefore'
  <2>1. IInv /\ IssuedBefore /\ Next => IssuedBefore'
    BY StepTreats, Treated
  <2>2. IssuedBefore /\ UNCHANGED vars => IssuedBefore'
    BY DEF vars, tables, IssuedBefore, Issued
  <2> QED BY <2>1, <2>2
<1>3. IInv /\ IssuedBefore /\ [Next]_vars =>
        [\A b \in Bills : Issued(bills[b]) =>
           \/ bills'[b] = bills[b]
           \/ bills[b].state = "FINAL" /\ bills'[b] = [Bumped(bills[b]) EXCEPT !.state = "CANCELLED"]]_vars
  BY StepTreats, Treated DEF Stays, Cancelled
<1> QED BY <1>1, <1>2, <1>3, Initially, Inductively, PTL DEF Spec, IssuedStays
-----------------------------------------------------------------------------
(* The line to the government (Gsp), for any calls, callbacks and requests  *)

Outcomes == {"none", "UNKNOWN", "ACCEPTED", "REJECTED", "REFUSED"}
Rows == [outcome : Outcomes, ref : Bills \cup {None}]
Sent == [step : {"sent"}, call : Attempts, ref : Bills \cup {None}]
Said == {"CONFIRMED", "CONFLICT", "SETTLED"}
Verdicts == {"none", "UNMATCHED", "REFUSED", "IGNORED"} \cup Said

\* A call that the provider says something of was made, or may still land.
HeardOf(c) == (row[c] # Line!NoRow \/ gov[c] # None \/ c \in stray) /\ row[c].outcome # "REFUSED"

LogFits ==
  /\ row \in [Attempts -> Rows] /\ gov \in [Attempts -> Bills \cup {None}]
  /\ \A c \in Attempts : row[c].ref # None => row[c].outcome = "ACCEPTED"
  /\ \A c \in Attempts : row[c].outcome = "REFUSED" => gov[c] = None /\ c \notin stray
  /\ \A c \in making : c \in Attempts /\ row[c] = Line!NoRow

EventsFit ==
  /\ event \in [Events -> {Line!Idle} \cup Sent] /\ stored \in [Events -> Verdicts]
  /\ \A e \in Events : event[e] # Line!Idle => HeardOf(event[e].call)
  /\ \A d \in Callers : delivery[d] # Line!Idle => delivery[d].event \in Events /\ event[delivery[d].event] # Line!Idle
  /\ \A e \in Events : stored[e] \in Said =>
       /\ event[e] # Line!Idle /\ event[e].ref # None
       /\ event[e].call \in asked \/ row[event[e].call] = Line!Row("ACCEPTED", event[e].ref)

PermissionFits ==
  /\ auth.credential => auth.consent = "given"
  /\ auth.status = "ACTIVE" => auth.credential

Auths == [status : {"none", "API_USER_PENDING", "OTP_REQUESTED", "ACTIVE", "SUSPENDED", "REVOKED"},
          credential : BOOLEAN, consent : {"none", "given", "withdrawn"}, otp : BOOLEAN, lapsed : BOOLEAN]

LineFits == LogFits /\ EventsFit /\ PermissionFits /\ auth \in Auths

\* What is held is never replaced, nor turned round.
AnswersKept ==
  \A c \in Attempts :
    /\ row[c].ref # None => row'[c].ref = row[c].ref
    /\ row[c].outcome \in {"REJECTED", "REFUSED"} => row'[c] = row[c]
    /\ row[c].outcome = "ACCEPTED" => row'[c].outcome = "ACCEPTED"

LEMMA LineFirst == Line!Init => LineFits
<1> SUFFICES ASSUME Line!Init PROVE LineFits
  OBVIOUS
<1> USE DEF Line!Init
<1>1. LogFits
  BY DEF LogFits, Line!NoRow, Rows, Outcomes
<1>2. EventsFit
  BY DEF EventsFit, Verdicts, Said
<1> QED BY <1>1, <1>2 DEF LineFits, PermissionFits, Auths

LEMMA PermissionStep ==
  ASSUME LineFits, Line!BeginOnboarding \/ Line!RequestOtp \/ Line!VerifyOtp \/ Line!RotateCredential \/ Line!Revoke
                   \/ Line!Suspend \/ Line!Resume \/ Line!Lapse
  PROVE  LineFits' /\ AnswersKept
<1>1. UNCHANGED <<row, making, gov, stray, event, stored, known, delivery, asked>>
  BY DEF Line!BeginOnboarding, Line!RequestOtp, Line!VerifyOtp, Line!RotateCredential, Line!Revoke, Line!Suspend, Line!Resume,
         Line!Lapse, Line!Step, Line!log, Line!callbacks
<1>2. auth' \in Auths /\ PermissionFits'
  <2>0. auth \in Auths /\ (auth.credential => auth.consent = "given") /\ (auth.status = "ACTIVE" => auth.credential)
    BY DEF LineFits, PermissionFits
  <2>1. CASE Line!BeginOnboarding
    BY <2>0, <2>1 DEF Line!BeginOnboarding, Line!Step, PermissionFits, Auths
  <2>2. CASE Line!RequestOtp
    BY <2>0, <2>2 DEF Line!RequestOtp, Line!Step, PermissionFits, Auths
  <2>3. CASE Line!VerifyOtp
    <3>1. \/ auth' = [status |-> "ACTIVE", credential |-> TRUE, consent |-> "given", otp |-> FALSE, lapsed |-> FALSE]
          \/ auth' = [auth EXCEPT !.otp = FALSE]
      BY <2>3 DEF Line!VerifyOtp, Line!Step
    <3>2. CASE auth' = [status |-> "ACTIVE", credential |-> TRUE, consent |-> "given", otp |-> FALSE, lapsed |-> FALSE]
      BY <3>2 DEF PermissionFits, Auths
    <3>3. CASE auth' = [auth EXCEPT !.otp = FALSE]
      BY <2>0, <3>3 DEF PermissionFits, Auths
    <3> QED BY <3>1, <3>2, <3>3
  <2>4. CASE Line!RotateCredential
    BY <2>0, <2>4 DEF Line!RotateCredential, Line!Step, PermissionFits, Auths
  <2>5. CASE Line!Revoke
    BY <2>0, <2>5 DEF Line!Revoke, Line!Step, PermissionFits, Auths
  <2>6. CASE Line!Suspend
    BY <2>0, <2>6 DEF Line!Suspend, Line!Step, PermissionFits, Auths
  <2>7. CASE Line!Resume
    BY <2>0, <2>7 DEF Line!Resume, Line!Step, PermissionFits, Auths
  <2>8. CASE Line!Lapse
    BY <2>0, <2>8 DEF Line!Lapse, Line!Step, PermissionFits, Auths
  <2> QED BY <2>1, <2>2, <2>3, <2>4, <2>5, <2>6, <2>7, <2>8
<1>3. LogFits' /\ EventsFit'
  BY <1>1 DEF LineFits, LogFits, EventsFit, HeardOf
<1> QED BY <1>1, <1>2, <1>3 DEF LineFits, AnswersKept

\* Any step in which the log of one call changes, and nothing else but requests on their way.
LEMMA RowStep ==
  ASSUME LineFits, NEW c \in Attempts, NEW new \in Rows, row' = [row EXCEPT ![c] = new],
         UNCHANGED <<auth, event, stored, delivery>>, making' = {}, asked \subseteq asked',
         gov' = gov, stray' \subseteq stray, \A b \in Attempts \ {c} : b \in stray => b \in stray',
         new # Line!NoRow, new.ref # None => new.outcome = "ACCEPTED",
         new.outcome = "REFUSED" => row[c] = Line!NoRow /\ gov[c] = None /\ c \notin stray,
         row[c].outcome \in {"none", "UNKNOWN"}
  PROVE  LineFits' /\ AnswersKept
<1>1. row \in [Attempts -> Rows] /\ row' \in [Attempts -> Rows] /\ row'[c] = new /\ \A b \in Attempts \ {c} : row'[b] = row[b]
  BY DEF LineFits, LogFits
<1>2. row[c].ref = None /\ row[c].outcome \notin {"ACCEPTED", "REJECTED", "REFUSED"}
  BY DEF LineFits, LogFits
<1>3. LogFits'
  BY <1>1 DEF LineFits, LogFits
<1>4. \A e \in Events : event[e] # Line!Idle => event[e] \in Sent
  BY DEF LineFits, EventsFit
<1>5. ASSUME NEW e \in Events, event[e] # Line!Idle PROVE HeardOf(event[e].call)'
  <2>1. HeardOf(event[e].call) /\ event[e].call \in Attempts
    BY <1>4, <1>5 DEF LineFits, EventsFit, Sent
  <2>2. CASE event[e].call = c
    BY <1>1, <2>1, <2>2 DEF HeardOf
  <2>3. CASE event[e].call # c
    BY <1>1, <2>1, <2>3 DEF HeardOf
  <2> QED BY <2>2, <2>3
<1>6. \A e \in Events : stored[e] \in Said => event[e].call \in asked' \/ row'[event[e].call] = Line!Row("ACCEPTED", event[e].ref)
  <2> SUFFICES ASSUME NEW e \in Events, stored[e] \in Said, event[e].call \notin asked'
               PROVE  row'[event[e].call] = Line!Row("ACCEPTED", event[e].ref)
    OBVIOUS
  <2>1. row[event[e].call] = Line!Row("ACCEPTED", event[e].ref) /\ event[e].call \in Attempts
    BY <1>4 DEF LineFits, EventsFit, Sent
  <2>2. event[e].call # c
    BY <1>2, <2>1 DEF Line!Row
  <2> QED BY <1>1, <2>1, <2>2
<1>7. EventsFit'
  BY <1>5, <1>6 DEF LineFits, EventsFit
<1>8. AnswersKept
  BY <1>1, <1>2 DEF AnswersKept
<1> QED BY <1>3, <1>7, <1>8 DEF LineFits, PermissionFits

LEMMA CallsStep ==
  ASSUME LineFits, NEW c \in Attempts, Line!Refuse(c) \/ Line!Answer(c) \/ Line!Reconcile(c)
  PROVE  LineFits' /\ AnswersKept
<1> USE DEF Line!callbacks
<1>0. \A o \in Outcomes : \A ref \in Bills \cup {None} : Line!Row(o, ref) \in Rows
  BY DEF Line!Row, Rows
<1>a. \A o \in Outcomes \ {"none"} : \A ref : Line!Row(o, ref) # Line!NoRow /\ Line!Row(o, ref).ref = ref /\ Line!Row(o, ref).outcome = o
  BY DEF Line!Row, Line!NoRow
<1>b. row[c] = Line!NoRow => row[c].outcome = "none"
  BY DEF Line!NoRow
<1>c. gov[c] \in Bills \cup {None}
  BY DEF LineFits, LogFits
<1>1. CASE Line!Refuse(c)
  <2>1. row' = [row EXCEPT ![c] = Line!Row("REFUSED", None)] /\ UNCHANGED <<auth, making, gov, stray, event, stored, delivery, asked>>
        /\ making = {} /\ row[c] = Line!NoRow /\ gov[c] = None /\ c \notin stray
    BY <1>1 DEF Line!Refuse, Line!New
  <2>2. Line!Row("REFUSED", None) \in Rows
    BY <1>0 DEF Outcomes
  <2>3. LET r == Line!Row("REFUSED", None) IN r # Line!NoRow /\ r.ref = None /\ r.outcome = "REFUSED"
    BY <1>a DEF Outcomes
  <2> QED BY <1>b, <2>1, <2>2, <2>3, RowStep
<1>2. CASE Line!Answer(c)
  <2>1. UNCHANGED <<auth, event, stored, delivery, asked, gov>> /\ making' = {} /\ row[c] = Line!NoRow /\ stray' \subseteq stray
        /\ \A b \in Attempts \ {c} : b \in stray => b \in stray'
    BY <1>2 DEF Line!Answer, Line!Settled, LineFits, LogFits
  <2>2. \E o \in {"ACCEPTED", "REJECTED", "UNKNOWN"}, ref \in {gov[c], None} :
          row' = [row EXCEPT ![c] = Line!Row(o, ref)] /\ (o # "ACCEPTED" => ref = None)
    BY <1>2 DEF Line!Answer, Line!Settled
  <2>3. PICK o \in {"ACCEPTED", "REJECTED", "UNKNOWN"}, ref \in {gov[c], None} :
          row' = [row EXCEPT ![c] = Line!Row(o, ref)] /\ (o # "ACCEPTED" => ref = None)
    BY <2>2
  <2>4. Line!Row(o, ref) \in Rows
    BY <1>0, <1>c DEF Outcomes
  <2>5. Line!Row(o, ref) # Line!NoRow /\ Line!Row(o, ref).ref = ref /\ Line!Row(o, ref).outcome = o
    BY <1>a DEF Outcomes
  <2> QED BY <1>b, <2>1, <2>3, <2>4, <2>5, RowStep
<1>3. CASE Line!Reconcile(c)
  <2>1. UNCHANGED <<auth, event, stored, delivery, asked, gov, stray, making>> /\ making = {} /\ row[c].outcome = "UNKNOWN"
    BY <1>3 DEF Line!Reconcile
  <2>2. \E o \in {"ACCEPTED", "REJECTED"}, ref \in {gov[c], None} :
          row' = [row EXCEPT ![c] = Line!Row(o, ref)] /\ (o # "ACCEPTED" => ref = None)
    BY <1>3 DEF Line!Reconcile
  <2>3. PICK o \in {"ACCEPTED", "REJECTED"}, ref \in {gov[c], None} :
          row' = [row EXCEPT ![c] = Line!Row(o, ref)] /\ (o # "ACCEPTED" => ref = None)
    BY <2>2
  <2>4. Line!Row(o, ref) \in Rows
    BY <1>0, <1>c DEF Outcomes
  <2>5. Line!Row(o, ref) # Line!NoRow /\ Line!Row(o, ref).ref = ref /\ Line!Row(o, ref).outcome = o
    BY <1>a DEF Outcomes
  <2> QED BY <2>1, <2>3, <2>4, <2>5, RowStep
<1> QED BY <1>1, <1>2, <1>3

\* Any step that touches no row, no answer and no permission.
LEMMA QuietStep ==
  ASSUME LineFits, UNCHANGED <<auth, row, stored, asked>>,
         gov' \in [Attempts -> Bills \cup {None}],
         \A c \in making' : c \in Attempts /\ row[c] = Line!NoRow,
         \A c \in Attempts : gov[c] # None \/ c \in stray => gov'[c] # None \/ c \in stray',
         \A c \in Attempts : row[c].outcome = "REFUSED" => gov'[c] = None /\ c \notin stray',
         event' \in [Events -> {Line!Idle} \cup Sent],
         \A e \in Events : event[e] # Line!Idle => event'[e] = event[e],
         \A e \in Events, c \in Attempts : event'[e] # Line!Idle /\ event'[e].call = c => event'[e] = event[e] \/ HeardOf(c)',
         \A d \in Callers : delivery'[d] # Line!Idle => delivery'[d].event \in Events /\ event'[delivery'[d].event] # Line!Idle
  PROVE  LineFits' /\ AnswersKept
<1>1. LogFits'
  BY DEF LineFits, LogFits
<1>2. ASSUME NEW e \in Events, event'[e] # Line!Idle PROVE HeardOf(event[e].call)'
  <2>0. event'[e] \in Sent /\ event'[e].call \in Attempts
    BY <1>2 DEF Sent
  <2>1. PICK c \in Attempts : event'[e].call = c
    BY <2>0
  <2>2. CASE event'[e] = event[e]
    <3>1. HeardOf(event[e].call)
      BY <1>2, <2>2 DEF LineFits, EventsFit
    <3>2. HeardOf(c)
      BY <2>1, <2>2, <3>1
    <3>3. HeardOf(c)'
      BY <3>2 DEF HeardOf
    <3> QED BY <2>1, <3>3 DEF HeardOf
  <2>3. CASE HeardOf(c)'
    BY <2>1, <2>3 DEF HeardOf
  <2> QED BY <1>2, <2>1, <2>2, <2>3
<1>3. \A e \in Events : stored'[e] \in Said =>
       /\ event'[e] # Line!Idle /\ event'[e].ref # None
       /\ event'[e].call \in asked' \/ row'[event'[e].call] = Line!Row("ACCEPTED", event'[e].ref)
  BY DEF LineFits, EventsFit
<1>4. EventsFit'
  BY <1>2, <1>3 DEF LineFits, EventsFit
<1> QED BY <1>1, <1>4 DEF LineFits, PermissionFits, AnswersKept

LEMMA RequestsStep ==
  ASSUME LineFits, NEW c \in Attempts, Line!Send(c) \/ Line!Land(c) \/ Line!Undo(c)
  PROVE  LineFits' /\ AnswersKept
<1>1. /\ UNCHANGED <<auth, row, event, stored, delivery, asked>>
      /\ \A b \in making' : b \in Attempts /\ row[b] = Line!NoRow
      /\ event \in [Events -> {Line!Idle} \cup Sent]
      /\ \A d \in Callers : delivery[d] # Line!Idle => delivery[d].event \in Events /\ event[delivery[d].event] # Line!Idle
  BY DEF Line!Send, Line!Land, Line!Undo, Line!callbacks, Line!New, LineFits, LogFits, EventsFit
<1>2. /\ gov' \in [Attempts -> Bills \cup {None}]
      /\ \A b \in Attempts : gov[b] # None \/ b \in stray => gov'[b] # None \/ b \in stray'
      /\ \A b \in Attempts : row[b].outcome = "REFUSED" => gov'[b] = None /\ b \notin stray'
  <2>1. gov \in [Attempts -> Bills \cup {None}] /\ \A b \in Attempts : row[b].outcome = "REFUSED" => gov[b] = None /\ b \notin stray
    BY DEF LineFits, LogFits
  <2>2. CASE Line!Send(c)
    <3>1. row[c].outcome # "REFUSED" /\ gov' = gov /\ stray' = stray \cup {c}
      BY <2>2 DEF Line!Send, Line!New, Line!NoRow
    <3> QED BY <2>1, <3>1
  <2>3. CASE Line!Undo(c)
    BY <2>1, <2>3 DEF Line!Undo
  <2>4. CASE Line!Land(c)
    <3>1. PICK ref \in Bills : gov' = [gov EXCEPT ![c] = ref]
      BY <2>4 DEF Line!Land
    <3>2. stray' = stray \ {c} /\ c \in stray
      BY <2>4 DEF Line!Land
    <3> QED BY <2>1, <3>1, <3>2, GovernmentAssumption
  <2> QED BY <2>2, <2>3, <2>4
<1> QED BY <1>1, <1>2, QuietStep

LEMMA CallbackStep ==
  ASSUME LineFits, NEW e \in Events, (\E c \in Attempts : Line!Emit(e, c)) \/ (\E d \in Callers : Line!Receive(d, e))
  PROVE  LineFits' /\ AnswersKept
<1>1. CASE \E c \in Attempts : Line!Emit(e, c)
  <2>1. PICK c \in Attempts : Line!Emit(e, c)
    BY <1>1
  <2>2. PICK ref \in Bills \cup {None} : event' = [event EXCEPT ![e] = [step |-> "sent", call |-> c, ref |-> ref]]
    BY <2>1 DEF Line!Emit
  <2>3. event \in [Events -> {Line!Idle} \cup Sent] /\ gov \in [Attempts -> Bills \cup {None}]
        /\ \A b \in making : b \in Attempts /\ row[b] = Line!NoRow
    BY DEF LineFits, LogFits, EventsFit
  <2>4. UNCHANGED <<auth, row, gov, stray, making, stored, delivery, asked>> /\ event[e] = Line!Idle /\ (gov[c] # None \/ c \in stray)
    BY <2>1 DEF Line!Emit, Line!log
  <2>5. PICK x \in Sent : x.call = c /\ event' = [event EXCEPT ![e] = x]
    BY <2>2 DEF Sent
  <2>6. x # Line!Idle
    BY DEF Sent, Line!Idle
  <2>7. row[c].outcome # "REFUSED"
    BY <2>4 DEF LineFits, LogFits
  <2>8. HeardOf(c)
    BY <2>4, <2>7 DEF HeardOf
  <2>9. event' \in [Events -> {Line!Idle} \cup Sent] /\ event'[e] = x /\ \A f \in Events \ {e} : event'[f] = event[f]
    BY <2>3, <2>5
  <2>10. \A d \in Callers : delivery[d] # Line!Idle => delivery[d].event \in Events /\ event'[delivery[d].event] # Line!Idle
    BY <2>6, <2>9 DEF LineFits, EventsFit
  <2>11. HeardOf(c)'
    BY <2>4, <2>8 DEF HeardOf
  <2>12. \A b \in Attempts : row[b].outcome = "REFUSED" => gov[b] = None /\ b \notin stray
    BY DEF LineFits, LogFits
  <2> QED BY <2>3, <2>4, <2>5, <2>9, <2>10, <2>11, <2>12, QuietStep
<1>2. CASE \E d \in Callers : Line!Receive(d, e)
  <2>1. PICK d \in Callers : Line!Receive(d, e)
    BY <1>2
  <2>2. UNCHANGED <<auth, row, gov, stray, making, event, stored, asked>> /\ event[e] # Line!Idle
    BY <2>1 DEF Line!Receive, Line!log
  <2>3. \E x : delivery' = [delivery EXCEPT ![d] = x] /\ (x # Line!Idle => x.event = e)
    BY <2>1 DEF Line!Receive, Line!Done
  <2>4. \A b \in Callers : delivery'[b] # Line!Idle => delivery'[b].event \in Events /\ event[delivery'[b].event] # Line!Idle
    BY <2>2, <2>3 DEF LineFits, EventsFit
  <2>5. \A b \in Attempts : row[b].outcome = "REFUSED" => gov[b] = None /\ b \notin stray
    BY DEF LineFits, LogFits
  <2>6. event \in [Events -> {Line!Idle} \cup Sent] /\ gov \in [Attempts -> Bills \cup {None}]
        /\ \A b \in making : b \in Attempts /\ row[b] = Line!NoRow
    BY DEF LineFits, LogFits, EventsFit
  <2> QED BY <2>2, <2>4, <2>5, <2>6, QuietStep
<1> QED BY <1>1, <1>2

\* What a callback does with the row of its call.
LEMMA VerdictIs ==
  ASSUME NEW had \in Rows, NEW ref \in Bills \cup {None}, had.ref # None => had.outcome = "ACCEPTED"
  PROVE  LET v == Line!Verdict(had, ref) IN
         /\ v \in {"IGNORED", "CONFIRMED", "CONFLICT", "SETTLED"}
         /\ v \in Said => ref # None
         /\ v = "CONFIRMED" => had = Line!Row("ACCEPTED", ref)
         /\ v = "SETTLED" => had.ref = None /\ had.outcome # "REJECTED"
<1>1. Line!Verdict(had, ref) = IF ref = None THEN "IGNORED"
                                ELSE IF had.ref = ref THEN "CONFIRMED"
                                ELSE IF had.ref # None THEN "CONFLICT"
                                ELSE IF had = Line!Row("REJECTED", None) THEN "CONFLICT" ELSE "SETTLED"
  <2>1. CASE ref = None
    BY <2>1 DEF Line!Verdict
  <2>2. CASE ref # None /\ had.ref = ref
    <3>1. had # Line!Row("REJECTED", None) /\ had.ref \in {None, ref}
      BY <2>2 DEF Line!Row
    <3> QED BY <2>2, <3>1 DEF Line!Verdict
  <2>3. CASE ref # None /\ had.ref # ref /\ had.ref # None
    <3>1. had # Line!Row("REJECTED", None) /\ had.ref \notin {None, ref}
      BY <2>3 DEF Line!Row
    <3> QED BY <2>3, <3>1 DEF Line!Verdict
  <2>4. CASE ref # None /\ had.ref = None
    <3>1. had.ref # ref /\ had.ref \in {None, ref}
      BY <2>4
    <3>2. CASE had = Line!Row("REJECTED", None)
      BY <2>4, <3>1, <3>2 DEF Line!Verdict
    <3>3. CASE had # Line!Row("REJECTED", None)
      BY <2>4, <3>1, <3>3 DEF Line!Verdict
    <3> QED BY <3>2, <3>3
  <2> QED BY <2>1, <2>2, <2>3, <2>4
<1>2. had.ref # None => had = Line!Row("ACCEPTED", had.ref)
  BY DEF Rows, Line!Row
<1>3. had.ref = None /\ had.outcome = "REJECTED" => had = Line!Row("REJECTED", None)
  BY DEF Rows, Line!Row
<1> QED BY <1>1, <1>2, <1>3 DEF Said

LEMMA ApplyStep ==
  ASSUME LineFits, NEW d \in Callers, Line!Apply(d) \/ Line!FailApply(d)
  PROVE  LineFits' /\ AnswersKept
<1>0. /\ event \in [Events -> {Line!Idle} \cup Sent] /\ gov \in [Attempts -> Bills \cup {None}] /\ row \in [Attempts -> Rows]
      /\ stored \in [Events -> Verdicts]
      /\ \A b \in making : b \in Attempts /\ row[b] = Line!NoRow
      /\ \A b \in Attempts : row[b].outcome = "REFUSED" => gov[b] = None /\ b \notin stray
      /\ \A b \in Attempts : row[b].ref # None => row[b].outcome = "ACCEPTED"
  BY DEF LineFits, LogFits, EventsFit
<1>1. UNCHANGED <<auth, making, gov, stray, event>> /\ delivery' = [delivery EXCEPT ![d] = Line!Idle] /\ delivery[d] # Line!Idle
  BY DEF Line!Apply, Line!FailApply, Line!Done, Line!log
<1>2. \A b \in Callers : delivery'[b] # Line!Idle => delivery'[b].event \in Events /\ event[delivery'[b].event] # Line!Idle
  BY <1>1 DEF LineFits, EventsFit
<1>3. CASE UNCHANGED <<row, stored, asked>>
  BY <1>0, <1>1, <1>2, <1>3, QuietStep
<1>4. CASE Line!Apply(d) /\ ~UNCHANGED <<row, stored, asked>>
  <2> DEFINE e == delivery[d].event
             c == event[e].call
             ref == event[e].ref
             verdict == IF ~delivery[d].company THEN "UNMATCHED"
                        ELSE IF auth.status = "none" THEN "REFUSED" ELSE Line!Verdict(row[c], ref)
  <2>1. e \in Events /\ event[e] # Line!Idle
    BY <1>1 DEF LineFits, EventsFit
  <2>2. event[e] \in Sent /\ HeardOf(event[e].call)
    BY <1>0, <2>1 DEF LineFits, EventsFit
  <2>3. c \in Attempts /\ ref \in Bills \cup {None} /\ HeardOf(c)
    BY <2>2 DEF Sent
  <2>4. /\ stored[e] \in {"none", "UNMATCHED"} /\ stored' = [stored EXCEPT ![e] = verdict]
        /\ row' = (IF verdict = "SETTLED" THEN [row EXCEPT ![c] = Line!Row("ACCEPTED", ref)] ELSE row)
        /\ asked' = IF verdict = "CONFLICT" THEN asked \cup {c} ELSE asked
        /\ delivery[d].company => making = {}
    BY <1>4 DEF Line!Apply, Line!Asked
  <2>5. /\ verdict \in Verdicts /\ (verdict \in Said => ref # None)
        /\ verdict = "CONFIRMED" => row[c] = Line!Row("ACCEPTED", ref)
        /\ verdict = "SETTLED" => row[c].ref = None /\ row[c].outcome # "REJECTED" /\ making = {}
    <3>1. row[c] \in Rows /\ (row[c].ref # None => row[c].outcome = "ACCEPTED")
      BY <1>0, <2>3
    <3>2. LET v == Line!Verdict(row[c], ref) IN
          /\ v \in {"IGNORED", "CONFIRMED", "CONFLICT", "SETTLED"}
          /\ v \in Said => ref # None
          /\ v = "CONFIRMED" => row[c] = Line!Row("ACCEPTED", ref)
          /\ v = "SETTLED" => row[c].ref = None /\ row[c].outcome # "REJECTED"
      <4> HIDE DEF c, ref
      <4> QED BY <2>3, <3>1, VerdictIs
    <3> QED BY <2>4, <3>2 DEF Verdicts, Said
  <2>6. row[c].outcome # "REFUSED"
    BY <2>3 DEF HeardOf
  <2>7. Line!Row("ACCEPTED", ref) \in Rows /\ Line!Row("ACCEPTED", ref).ref = ref /\ Line!Row("ACCEPTED", ref).outcome = "ACCEPTED"
        /\ Line!Row("ACCEPTED", ref) # Line!NoRow
    BY <2>3 DEF Line!Row, Line!NoRow, Rows, Outcomes
  <2> DEFINE new == Line!Row("ACCEPTED", ref)
  <2>8. event[e].call = c /\ event[e].ref = ref
    OBVIOUS
  <2> HIDE DEF c, ref, verdict, e, new
  <2>9. row' \in [Attempts -> Rows] /\ (\A b \in Attempts \ {c} : row'[b] = row[b])
        /\ row'[c] = IF verdict = "SETTLED" THEN new ELSE row[c]
    BY <1>0, <2>3, <2>4, <2>7 DEF new
  <2>10. new \in Rows /\ new.ref = ref /\ new.outcome = "ACCEPTED" /\ new # Line!NoRow
    BY <2>7 DEF new
  <2>11. LogFits'
    <3>1. \A b \in making' : b \in Attempts /\ row'[b] = Line!NoRow
      BY <1>0, <1>1, <2>4, <2>5, <2>9
    <3> QED BY <1>0, <1>1, <2>6, <2>9, <2>10, <3>1 DEF LogFits
  <2>12. \A f \in Events : event[f] # Line!Idle => HeardOf(event[f].call)'
    <3> SUFFICES ASSUME NEW f \in Events, event[f] # Line!Idle PROVE HeardOf(event[f].call)'
      OBVIOUS
    <3>1. HeardOf(event[f].call) /\ event[f].call \in Attempts
      BY DEF LineFits, EventsFit, Sent
    <3>2. CASE event[f].call = c /\ verdict = "SETTLED"
      BY <1>1, <2>9, <2>10, <3>2 DEF HeardOf
    <3>3. CASE event[f].call # c \/ verdict # "SETTLED"
      BY <1>1, <2>9, <3>1, <3>3 DEF HeardOf
    <3> QED BY <3>2, <3>3
  <2>13. ASSUME NEW f \in Events, stored'[f] \in Said
         PROVE  /\ event[f] # Line!Idle /\ event[f].ref # None
                /\ event[f].call \in asked' \/ row'[event[f].call] = Line!Row("ACCEPTED", event[f].ref)
    <3>1. CASE f = e
      <4>1. verdict \in Said
        BY <1>0, <2>1, <2>4, <2>13, <3>1
      <4>2. event[f].ref = ref /\ event[f].call = c /\ ref # None
        BY <2>5, <2>8, <3>1, <4>1
      <4>3. CASE verdict = "CONFLICT"
        BY <2>1, <2>4, <3>1, <4>2, <4>3
      <4>4. CASE verdict = "CONFIRMED"
        BY <2>1, <2>4, <2>5, <3>1, <4>2, <4>4
      <4>5. CASE verdict = "SETTLED"
        BY <2>1, <2>9, <3>1, <4>2, <4>5 DEF new
      <4> QED BY <4>1, <4>3, <4>4, <4>5 DEF Said
    <3>2. CASE f # e
      <4>1. stored[f] \in Said
        BY <1>0, <2>1, <2>4, <2>13, <3>2
      <4>2. /\ event[f] # Line!Idle /\ event[f].ref # None
            /\ event[f].call \in asked \/ row[event[f].call] = Line!Row("ACCEPTED", event[f].ref)
        BY <4>1 DEF LineFits, EventsFit
      <4>3. event[f].call \in Attempts
        BY <1>0, <4>2 DEF Sent
      <4>4. asked \subseteq asked'
        BY <2>4
      <4>5. CASE event[f].call \in asked
        BY <4>2, <4>4, <4>5
      <4>6. CASE row[event[f].call] = Line!Row("ACCEPTED", event[f].ref)
        <5>1. row[event[f].call].ref # None
          BY <4>2, <4>6 DEF Line!Row
        <5>2. row'[event[f].call] = row[event[f].call]
          BY <2>5, <2>9, <4>3, <5>1
        <5> QED BY <4>2, <4>6, <5>2
      <4> QED BY <4>2, <4>5, <4>6
    <3> QED BY <3>1, <3>2
  <2>14. stored' \in [Events -> Verdicts]
    BY <1>0, <2>4, <2>5
  <2>15. EventsFit'
    BY <1>0, <1>1, <1>2, <2>12, <2>13, <2>14 DEF EventsFit
  <2>16. AnswersKept
    BY <1>0, <2>5, <2>6, <2>9, <2>10 DEF AnswersKept
  <2> QED BY <1>1, <2>11, <2>15, <2>16 DEF LineFits, PermissionFits
<1> QED BY <1>3, <1>4 DEF Line!FailApply, Line!log

LEMMA LineNext == LineFits /\ [Line!Next]_(Line!vars) => LineFits' /\ [AnswersKept]_(Line!vars)
<1> SUFFICES ASSUME LineFits, [Line!Next]_(Line!vars) PROVE LineFits' /\ [AnswersKept]_(Line!vars)
  OBVIOUS
<1>1. CASE UNCHANGED Line!vars
  <2>1. LineFits'
    BY <1>1 DEF Line!vars, LineFits, LogFits, EventsFit, PermissionFits, HeardOf
  <2> QED BY <1>1, <2>1
<1>2. CASE Line!Next
  BY <1>2, PermissionStep, CallsStep, RequestsStep, CallbackStep, ApplyStep DEF Line!Next
<1> QED BY <1>1, <1>2

LEMMA LineHolds == LineFits => Line!DisagreementsAreAsked
BY DEF LineFits, EventsFit, PermissionFits, Line!DisagreementsAreAsked, Said

LEMMA LineStands == [AnswersKept]_(Line!vars) =>
  [\A c \in Attempts :
       /\ row[c].ref # None => row'[c].ref = row[c].ref
       /\ row[c].outcome \in {"REJECTED", "REFUSED"} => row'[c] = row[c]
       /\ row[c].outcome = "ACCEPTED" => row'[c].outcome = "ACCEPTED"]_(Line!vars)
BY DEF AnswersKept

-----------------------------------------------------------------------------
(* The permit on the road (EwayBill), for any vehicles, times and losses     *)

Asked == {"generate", "vehicle", "transporter", "extend", "cancel", "reject", "fetch"}
Shown == [status : {"NONE", "FAILED"} \cup Road!Raised, raised : Road!Ticks \cup {None}, until : Road!Ticks \cup {None},
          vehicle : Callers \cup {None}]
Answers == [status : Road!Raised, at : Road!Ticks, until : Road!Ticks \cup {None}]

\* A permit runs once it has a vehicle, and no answer gave it longer than it has now.
PortalFits ==
  /\ now \in 0..MaxNow
  /\ portal # None =>
       /\ portal \in Road!Permits
       /\ portal.until # None <=> portal.vehicle # None
       /\ portal.until # None => portal.until <= now + Validity
  /\ \A k \in DOMAIN said :
       /\ portal # None /\ said[k] \in Answers
       /\ said[k].until # None => portal.until # None /\ said[k].until <= portal.until

PermitFits ==
  /\ permit \in Shown
  /\ permit.raised # None => portal # None /\ permit.status \in Road!Raised
  /\ permit.raised = None => permit.until = None /\ permit.vehicle = None /\ permit.status \in {"NONE", "FAILED"}

RoadFits == PortalFits /\ PermitFits /\ Road!PermitsAreReal

LEMMA RoadFirst == Road!Init => RoadFits
<1> SUFFICES ASSUME Road!Init PROVE RoadFits
  OBVIOUS
<1> USE DEF Road!Init
<1>1. DOMAIN said = {} /\ now = 0 /\ portal = None
  OBVIOUS
<1>2. PortalFits
  BY <1>1, GovernmentAssumption DEF PortalFits
<1>3. permit \in Shown
  BY DEF Shown
<1>4. permit.raised = None /\ permit.until = None /\ permit.vehicle = None /\ permit.status = "NONE"
  OBVIOUS
<1> QED BY <1>1, <1>2, <1>3, <1>4 DEF RoadFits, PermitFits, Road!PermitsAreReal

LEMMA WhatIsAsked ==
  ASSUME NEW r \in Road!Requests
  PROVE  /\ r.do \in Asked /\ r.with \in Callers \cup {None}
         /\ r.do = "vehicle" => r.with \in Callers
         /\ r.do \notin {"generate", "vehicle"} => r.with = None
BY DEF Road!Requests, Asked

LEMMA TicksFit == \A t \in 0..MaxNow : t \in Road!Ticks /\ t + Validity \in Road!Ticks
BY GovernmentAssumption DEF Road!Ticks

\* Only a permit that is there is asked about anything.
LEMMA AskedIsThere ==
  ASSUME RoadFits, NEW r \in Road!Requests, Road!MayAsk(r)
  PROVE  IF r.do = "generate" THEN permit.status \in {"NONE", "FAILED"} /\ permit.raised = None
         ELSE permit.raised # None /\ portal # None
<1>1. r.do \in Asked
  BY WhatIsAsked
<1>2. /\ permit \in Shown /\ (permit.raised # None => portal # None /\ permit.status \in Road!Raised)
      /\ permit.raised = None => permit.until = None /\ permit.status \in {"NONE", "FAILED"}
  BY DEF RoadFits, PermitFits
<1>3. permit.raised # None => permit.status \notin {"NONE", "FAILED"}
  BY <1>2 DEF Road!Raised, Road!Ended
<1> QED BY <1>1, <1>2, <1>3 DEF Road!MayAsk, Road!Live, Asked

\* What the portal does keeps the permit's time, and the answer says what it then is.
LEMMA PortalStep ==
  ASSUME RoadFits, NEW r \in Road!Requests, Road!MayAsk(r), Road!Acted(r), now' = now
  PROVE  /\ PortalFits'
         /\ portal' # None /\ Road!Answer(r) \in Answers
         /\ portal # None /\ portal.until # None => portal'.until # None /\ portal.until <= portal'.until
         /\ portal # None /\ portal.vehicle # None => portal'.vehicle # None
         /\ Road!Answer(r).until # None => portal'.until # None /\ Road!Answer(r).until <= portal'.until
         /\ ~Road!Known(r) =>
              /\ portal' = Road!Done(r)
              /\ Road!Answer(r) = [status |-> portal'.status, at |-> portal'.at, until |-> portal'.until]
<1> DEFINE a == Road!Answer(r)
<1>1. r.do \in Asked /\ r.with \in Callers \cup {None} /\ (r.do = "vehicle" => r.with \in Callers)
  BY WhatIsAsked
<1>2. now \in 0..MaxNow /\ now \in Road!Ticks /\ now + Validity \in Road!Ticks /\ Validity \in Nat /\ Road!Ticks \subseteq Int
  BY TicksFit, GovernmentAssumption DEF RoadFits, PortalFits, Road!Ticks
<1>3. portal # None =>
        /\ portal \in Road!Permits
        /\ portal.until # None <=> portal.vehicle # None
        /\ portal.until # None => portal.until <= now + Validity
  BY DEF RoadFits, PortalFits
<1>4. \A k \in DOMAIN said : portal # None /\ said[k] \in Answers
        /\ (said[k].until # None => portal.until # None /\ said[k].until <= portal.until)
  BY DEF RoadFits, PortalFits
<1>5. CASE Road!Known(r)
  <2>1. portal' = portal /\ Road!Key(r) \in DOMAIN said /\ Road!Answer(r) = said[Road!Key(r)]
    BY <1>5 DEF Road!Acted, Road!Known, Road!Answer
  <2>2. DOMAIN said' = DOMAIN said /\ \A k \in DOMAIN said : said'[k] = said[k]
    BY <1>5, <2>1 DEF Road!Acted
  <2>3. PortalFits'
    BY <1>2, <1>3, <1>4, <2>1, <2>2 DEF PortalFits
  <2>4. portal # None /\ (portal.until # None => portal.until <= portal.until)
    <3>1. portal # None
      BY <1>4, <2>1
    <3>2. portal.until \in Road!Ticks \cup {None}
      BY <1>3, <3>1 DEF Road!Permits
    <3>3. \A t \in Int : t <= t
      OBVIOUS
    <3> QED BY <1>2, <3>1, <3>2, <3>3
  <2> QED BY <1>4, <1>5, <2>1, <2>3, <2>4
<1>6. CASE ~Road!Known(r)
  <2>1. portal' = Road!Done(r) /\ Road!Accepts(r) /\ a = [status |-> portal'.status, at |-> portal'.at, until |-> portal'.until]
    BY <1>6 DEF Road!Acted, Road!Answer
  <2>2. /\ portal' \in Road!Permits
        /\ portal'.until # None <=> portal'.vehicle # None
        /\ portal'.until # None => portal'.until <= now + Validity
        /\ portal # None /\ portal.until # None => portal'.until # None /\ portal.until <= portal'.until
        /\ portal # None /\ portal.vehicle # None => portal'.vehicle # None
    <3>1. CASE r.do = "generate"
      <4>1. portal = None
        BY <2>1, <3>1 DEF Road!Accepts
      <4>2. portal' = [status |-> IF r.with = None THEN "PART_A_ONLY" ELSE "ACTIVE", at |-> now,
                       until |-> IF r.with = None THEN None ELSE now + Validity, vehicle |-> r.with, checked |-> FALSE]
        BY <2>1, <3>1 DEF Road!Done
      <4>3. portal' \in Road!Permits
        BY <1>1, <1>2, <4>2 DEF Road!Permits, Road!Raised
      <4>4. now + Validity # None
        BY <1>2, GovernmentAssumption
      <4> QED BY <1>2, <4>1, <4>2, <4>3, <4>4
    <3>2. ASSUME r.do # "generate" PROVE portal # None /\ portal \in Road!Permits
      BY <1>3, <3>2, AskedIsThere
    <3>3. CASE r.do = "vehicle"
      <4>1. portal' = [portal EXCEPT !.status = "ACTIVE", !.vehicle = r.with, !.until = IF portal.until = None THEN now + Validity ELSE portal.until]
        BY <2>1, <3>3 DEF Road!Done
      <4>2. portal' \in Road!Permits /\ portal'.vehicle = r.with /\ r.with # None
            /\ portal'.until = IF portal.until = None THEN now + Validity ELSE portal.until
        BY <1>1, <1>2, <3>2, <3>3, <4>1, GovernmentAssumption DEF Road!Permits, Road!Raised
      <4>3. now + Validity # None
        BY <1>2, GovernmentAssumption
      <4>4. portal.until # None => portal.until \in Int
        BY <1>2, <3>2, <3>3 DEF Road!Permits
      <4> QED BY <1>2, <1>3, <3>2, <3>3, <4>2, <4>3, <4>4
    <3>4. CASE r.do = "extend"
      <4>1. portal' = [portal EXCEPT !.status = "ACTIVE", !.until = now + Validity] /\ portal.until # None
        BY <2>1, <3>4 DEF Road!Done, Road!Accepts
      <4>2. portal' \in Road!Permits /\ portal'.vehicle = portal.vehicle /\ portal'.until = now + Validity
        BY <1>2, <3>2, <3>4, <4>1 DEF Road!Permits, Road!Raised
      <4>3. now + Validity # None
        BY <1>2, GovernmentAssumption
      <4> QED BY <1>2, <1>3, <3>2, <3>4, <4>1, <4>2, <4>3
    <3>5. CASE r.do \in {"cancel", "reject", "transporter", "fetch"}
      <4>1. portal' = portal \/ (\E s \in Road!Raised : portal' = [portal EXCEPT !.status = s])
        BY <2>1, <3>5 DEF Road!Done, Road!Raised, Road!Ended
      <4>2. portal' \in Road!Permits /\ portal'.vehicle = portal.vehicle /\ portal'.until = portal.until
        BY <3>2, <3>5, <4>1 DEF Road!Permits
      <4>3. portal.until # None => portal.until \in Int
        BY <1>2, <3>2, <3>5 DEF Road!Permits
      <4> QED BY <1>3, <3>2, <3>5, <4>2, <4>3
    <3> QED BY <1>1, <3>1, <3>3, <3>4, <3>5 DEF Asked
  <2>3. portal' # None
    BY <2>2, GovernmentAssumption
  <2>4. a \in Answers /\ a.until = portal'.until
    BY <2>1, <2>2 DEF Answers, Road!Permits
  <2>5. a.until # None => portal'.until # None /\ a.until <= portal'.until
    <3>1. portal'.until \in Road!Ticks \cup {None}
      BY <2>2 DEF Road!Permits
    <3>2. \A t \in Int : t <= t
      OBVIOUS
    <3> HIDE DEF a
    <3> QED BY <1>2, <2>4, <3>1, <3>2
  <2>6. DOMAIN said' = DOMAIN said \cup {Road!Key(r)} /\ \A k \in DOMAIN said' : said'[k] = IF k = Road!Key(r) THEN a ELSE said[k]
    BY DEF Road!Acted
  <2>7. \A k \in DOMAIN said : said[k].until # None => portal'.until # None /\ said[k].until <= portal'.until
    <3> SUFFICES ASSUME NEW k \in DOMAIN said, said[k].until # None
                 PROVE  portal'.until # None /\ said[k].until <= portal'.until
      OBVIOUS
    <3>1. portal # None /\ portal.until # None /\ said[k].until <= portal.until /\ said[k] \in Answers
      BY <1>4
    <3>2. portal'.until # None /\ portal.until <= portal'.until
      BY <2>2, <3>1
    <3>3. said[k].until \in Int /\ portal.until \in Int /\ portal'.until \in Int
      BY <1>2, <1>3, <2>2, <3>1, <3>2 DEF Answers, Road!Permits
    <3> QED BY <3>1, <3>2, <3>3
  <2>8. PortalFits'
    <3> HIDE DEF a
    <3>1. \A k \in DOMAIN said' : said'[k] \in Answers /\ (said'[k].until # None => portal'.until # None /\ said'[k].until <= portal'.until)
      BY <1>4, <2>4, <2>5, <2>6, <2>7
    <3> QED BY <1>2, <2>2, <2>3, <3>1 DEF PortalFits
  <2> QED BY <1>6, <2>1, <2>2, <2>3, <2>4, <2>5, <2>8
<1> QED BY <1>5, <1>6

\* The record after an answer is no more than the answer, nor says less of the permit.
LEMMA AskStep ==
  ASSUME RoadFits, NEW r \in Road!Requests, Road!Ask(r)
  PROVE  RoadFits'
<1> DEFINE a == Road!Answer(r)
<1>1. r.do \in Asked /\ r.with \in Callers \cup {None} /\ (r.do = "vehicle" => r.with \in Callers)
  BY WhatIsAsked
<1>2. /\ Road!MayAsk(r) /\ Road!Acted(r) /\ now' = now
      /\ permit' = Road!Written(r, a) /\ Road!MayStand(Road!Written(r, a))
      /\ drift' = IF Road!Known(r) THEN drift \cup Road!Touches(r) ELSE drift \ Road!Settles(r)
  BY DEF Road!Ask
<1>3. /\ PortalFits'
      /\ portal' # None /\ a \in Answers
      /\ portal # None /\ portal.until # None => portal'.until # None /\ portal.until <= portal'.until
      /\ portal # None /\ portal.vehicle # None => portal'.vehicle # None
      /\ a.until # None => portal'.until # None /\ a.until <= portal'.until
      /\ ~Road!Known(r) =>
           /\ portal' = Road!Done(r)
           /\ a = [status |-> portal'.status, at |-> portal'.at, until |-> portal'.until]
  BY <1>2, PortalStep
<1>4. IF r.do = "generate" THEN permit.status \in {"NONE", "FAILED"} /\ permit.raised = None
      ELSE permit.raised # None /\ portal # None
  BY <1>2, AskedIsThere
<1>5. permit \in Shown /\ (permit.raised # None => permit.status \in Road!Raised)
  BY DEF RoadFits, PermitFits
<1>6. a.at # None /\ a.status \in Road!Raised /\ a.until \in Road!Ticks \cup {None} /\ a.at \in Road!Ticks
  BY <1>3, GovernmentAssumption DEF Answers
<1>7. Road!Ticks \subseteq Int
  BY DEF Road!Ticks
<1>8. portal # None => portal \in Road!Permits
  BY DEF RoadFits, PortalFits
<1>9. /\ permit.until # None => portal.until # None /\ permit.until <= portal.until
      /\ permit.raised # None /\ "status" \notin drift => permit.status = portal.status /\ permit.until = portal.until
      /\ permit.raised # None /\ "vehicle" \notin drift => permit.vehicle = portal.vehicle
  BY DEF RoadFits, Road!PermitsAreReal
<1>a. portal' \in Road!Permits
  BY <1>3 DEF PortalFits
<1>10. /\ permit' \in Shown /\ permit'.raised # None /\ permit'.status \in Road!Raised
       /\ permit'.until \in {permit.until, a.until}
       /\ r.do = "generate" => permit'.until = a.until
       /\ r.do # "generate" => permit'.raised = permit.raised
  <2> HIDE DEF a
  <2>1. CASE r.do = "generate"
    <3>1. permit' = [status |-> IF r.with = None THEN "PART_A_ONLY" ELSE "ACTIVE", raised |-> a.at, until |-> a.until, vehicle |-> r.with]
      BY <1>2, <2>1 DEF Road!Written
    <3> QED BY <1>1, <1>6, <2>1, <3>1 DEF Shown, Road!Raised
  <2>2. CASE r.do = "vehicle"
    <3>1. permit' = [permit EXCEPT !.status = "ACTIVE", !.until = a.until, !.vehicle = r.with]
      BY <1>2, <2>2 DEF Road!Written
    <3> QED BY <1>1, <1>4, <1>5, <1>6, <2>2, <3>1 DEF Shown, Road!Raised
  <2>3. CASE r.do = "extend"
    <3>1. permit' = [permit EXCEPT !.status = "ACTIVE", !.until = a.until]
      BY <1>2, <2>3 DEF Road!Written
    <3> QED BY <1>1, <1>4, <1>5, <1>6, <2>3, <3>1 DEF Shown, Road!Raised
  <2>4. CASE r.do = "transporter"
    <3>1. permit' = [permit EXCEPT !.until = a.until]
      BY <1>2, <2>4 DEF Road!Written
    <3> QED BY <1>1, <1>4, <1>5, <1>6, <2>4, <3>1 DEF Shown, Road!Raised
  <2>5. CASE r.do \in {"cancel", "reject"}
    <3>1. PICK s \in Road!Ended : permit' = [permit EXCEPT !.status = s]
      BY <1>2, <2>5 DEF Road!Written, Road!Ended
    <3> QED BY <1>1, <1>4, <1>5, <1>6, <2>5, <3>1 DEF Shown, Road!Raised
  <2>6. CASE r.do = "fetch"
    <3>1. permit' = [permit EXCEPT !.status = a.status, !.until = a.until]
      BY <1>2, <2>6 DEF Road!Written
    <3> QED BY <1>1, <1>4, <1>5, <1>6, <2>6, <3>1 DEF Shown, Road!Raised
  <2> QED BY <1>1, <2>1, <2>2, <2>3, <2>4, <2>5, <2>6 DEF Asked
<1>11. permit'.until # None => portal'.until # None /\ permit'.until <= portal'.until
  <2> HIDE DEF a
  <2>1. CASE permit'.until = a.until
    BY <1>3, <2>1
  <2>2. CASE permit'.until = permit.until /\ r.do # "generate" /\ permit.until # None
    <3>1. portal # None /\ portal.until # None /\ permit.until <= portal.until /\ portal'.until # None /\ portal.until <= portal'.until
      BY <1>3, <1>4, <1>9, <2>2
    <3>2. permit.until \in Int /\ portal.until \in Int /\ portal'.until \in Int
      BY <1>5, <1>7, <1>8, <1>a, <2>2, <3>1 DEF Shown, Road!Permits
    <3> QED BY <2>2, <3>1, <3>2
  <2> QED BY <1>10, <2>1, <2>2
<1>12. permit'.status = "ACTIVE" => portal'.vehicle # None
  <2>1. permit'.status = "ACTIVE" => permit'.until # None
    BY <1>2 DEF Road!MayStand
  <2> QED BY <1>3, <1>11, <2>1 DEF PortalFits
<1>13. "status" \notin drift' => permit'.status = portal'.status /\ permit'.until = portal'.until
  <2> SUFFICES ASSUME "status" \notin drift' PROVE permit'.status = portal'.status /\ permit'.until = portal'.until
    OBVIOUS
  <2>1. ~Road!Known(r)
    BY <1>2 DEF Road!Touches
  <2>2. portal' = Road!Done(r) /\ a.status = portal'.status /\ a.until = portal'.until
    BY <1>3, <2>1
  <2> HIDE DEF a
  <2>3. CASE r.do = "generate"
    <3>1. permit'.status = (IF r.with = None THEN "PART_A_ONLY" ELSE "ACTIVE") /\ permit'.until = a.until
      BY <1>2, <2>3 DEF Road!Written
    <3>2. portal'.status = IF r.with = None THEN "PART_A_ONLY" ELSE "ACTIVE"
      BY <2>2, <2>3 DEF Road!Done
    <3> QED BY <2>2, <3>1, <3>2
  <2>4. CASE r.do \in {"vehicle", "extend"}
    <3>1. permit'.status = "ACTIVE" /\ permit'.until = a.until
      BY <1>2, <1>5, <2>4 DEF Road!Written, Shown
    <3>2. portal'.status = "ACTIVE"
      BY <1>4, <1>8, <2>2, <2>4 DEF Road!Done, Road!Permits
    <3> QED BY <2>2, <3>1, <3>2
  <2>5. CASE r.do = "fetch"
    BY <1>2, <1>5, <2>2, <2>5 DEF Road!Written, Shown
  <2>6. CASE r.do \in {"transporter", "cancel", "reject"}
    <3>1. permit.status = portal.status /\ permit.until = portal.until
      BY <1>2, <1>4, <1>9, <2>1, <2>6 DEF Road!Settles
    <3>2. CASE r.do = "transporter"
      <4>1. permit'.status = permit.status /\ permit'.until = a.until
        BY <1>2, <1>5, <3>2 DEF Road!Written, Shown
      <4>2. portal' = portal
        BY <2>2, <3>2 DEF Road!Done
      <4> QED BY <2>2, <3>1, <4>1, <4>2
    <3>3. CASE r.do = "cancel"
      <4>1. permit'.status = "CANCELLED" /\ permit'.until = permit.until
        BY <1>2, <1>5, <3>3 DEF Road!Written, Shown
      <4>2. portal'.status = "CANCELLED" /\ portal'.until = portal.until
        BY <1>4, <1>8, <2>2, <3>3 DEF Road!Done, Road!Permits
      <4> QED BY <2>2, <3>1, <4>1, <4>2
    <3>4. CASE r.do = "reject"
      <4>1. permit'.status = "REJECTED" /\ permit'.until = permit.until
        BY <1>2, <1>5, <3>4 DEF Road!Written, Shown
      <4>2. portal'.status = "REJECTED" /\ portal'.until = portal.until
        BY <1>4, <1>8, <2>2, <3>4 DEF Road!Done, Road!Permits
      <4> QED BY <2>2, <3>1, <4>1, <4>2
    <3> QED BY <2>6, <3>2, <3>3, <3>4
  <2> QED BY <1>1, <2>3, <2>4, <2>5, <2>6 DEF Asked
<1>14. "vehicle" \notin drift' => permit'.vehicle = portal'.vehicle
  <2> SUFFICES ASSUME "vehicle" \notin drift' PROVE permit'.vehicle = portal'.vehicle
    OBVIOUS
  <2> HIDE DEF a
  <2>3. CASE r.do = "generate"
    <3>1. ~Road!Known(r)
      BY <1>2, <2>3 DEF Road!Touches
    <3>2. permit'.vehicle = r.with
      BY <1>2, <2>3 DEF Road!Written
    <3>3. portal'.vehicle = r.with
      BY <1>3, <2>3, <3>1 DEF Road!Done
    <3> QED BY <3>2, <3>3
  <2>4. CASE r.do = "vehicle"
    <3>1. ~Road!Known(r)
      BY <1>2, <2>4 DEF Road!Touches
    <3>2. permit'.vehicle = r.with
      BY <1>2, <1>5, <2>4 DEF Road!Written, Shown
    <3>3. portal' = Road!Done(r) /\ portal \in Road!Permits
      BY <1>3, <1>4, <1>8, <2>4, <3>1
    <3>4. portal'.vehicle = r.with
      BY <2>4, <3>3 DEF Road!Done, Road!Permits
    <3> QED BY <3>2, <3>4
  <2>5. CASE r.do \in {"transporter", "extend", "cancel", "reject", "fetch"}
    <3>1. "vehicle" \notin drift
      BY <1>2, <2>5 DEF Road!Settles
    <3>2. permit'.vehicle = permit.vehicle
      BY <1>2, <1>5, <2>5 DEF Road!Written, Shown
    <3>3. portal'.vehicle = portal.vehicle
      <4>1. CASE Road!Known(r)
        BY <1>2, <4>1 DEF Road!Acted
      <4>2. CASE ~Road!Known(r)
        BY <1>3, <1>4, <1>8, <2>5, <4>2 DEF Road!Done, Road!Permits
      <4> QED BY <4>1, <4>2
    <3>4. permit.vehicle = portal.vehicle
      BY <1>4, <1>9, <2>5, <3>1
    <3> QED BY <3>2, <3>3, <3>4
  <2> QED BY <1>1, <2>3, <2>4, <2>5 DEF Asked
<1> HIDE DEF a
<1>15. PermitFits'
  BY <1>3, <1>10 DEF PermitFits
<1>16. Road!PermitsAreReal'
  BY <1>10, <1>11, <1>12, <1>13, <1>14 DEF Road!PermitsAreReal
<1> QED BY <1>3, <1>15, <1>16 DEF RoadFits

\* The portal acted and we do not know it, or do not know all of it.
LEMMA LoseStep ==
  ASSUME RoadFits, NEW r \in Road!Requests, Road!Lose(r)
  PROVE  RoadFits'
<1>1. r.do \in Asked /\ r.with \in Callers \cup {None} /\ (r.do = "vehicle" => r.with \in Callers)
  BY WhatIsAsked
<1>2. /\ Road!MayAsk(r) /\ Road!Acted(r) /\ ~Road!Known(r) /\ now' = now
      /\ permit' = permit \/ (r.do = "generate" /\ permit' = [permit EXCEPT !.status = "FAILED"])
      /\ drift' = IF r.do \in {"transporter", "fetch"} THEN drift ELSE drift \cup Road!Touches(r)
  BY DEF Road!Lose
<1>3. /\ PortalFits'
      /\ portal' # None
      /\ portal # None /\ portal.until # None => portal'.until # None /\ portal.until <= portal'.until
      /\ portal # None /\ portal.vehicle # None => portal'.vehicle # None
      /\ portal' = Road!Done(r)
  BY <1>2, PortalStep
<1>4. IF r.do = "generate" THEN permit.status \in {"NONE", "FAILED"} /\ permit.raised = None
      ELSE permit.raised # None /\ portal # None
  BY <1>2, AskedIsThere
<1>5. PermitFits /\ Road!PermitsAreReal /\ permit \in Shown
  BY DEF RoadFits, PermitFits
<1>6. PermitFits' /\ permit'.raised = permit.raised /\ permit'.vehicle = permit.vehicle /\ permit'.until = permit.until
  <2>1. CASE permit' = permit
    BY <1>3, <1>5, <2>1 DEF PermitFits
  <2>2. CASE r.do = "generate" /\ permit' = [permit EXCEPT !.status = "FAILED"]
    BY <1>3, <1>4, <1>5, <2>2 DEF PermitFits, Shown
  <2> QED BY <1>2, <2>1, <2>2
<1>7. CASE r.do = "generate"
  <2>1. permit'.raised = None /\ permit'.until = None /\ permit'.status \in {"NONE", "FAILED"} /\ drift' # {}
    BY <1>2, <1>4, <1>6, <1>7 DEF PermitFits, Road!Touches
  <2>2. Road!PermitsAreReal'
    BY <2>1 DEF Road!PermitsAreReal
  <2> QED BY <1>3, <1>6, <2>2 DEF RoadFits
<1>8. CASE r.do # "generate"
  <2>1. permit' = permit /\ permit.raised # None /\ portal # None /\ portal \in Road!Permits
    BY <1>2, <1>4, <1>8 DEF RoadFits, PortalFits
  <2>2. permit.until # None => portal'.until # None /\ permit.until <= portal'.until
    <3> SUFFICES ASSUME permit.until # None PROVE portal'.until # None /\ permit.until <= portal'.until
      OBVIOUS
    <3>1. portal.until # None /\ permit.until <= portal.until /\ portal'.until # None /\ portal.until <= portal'.until
      BY <1>3, <1>5, <2>1 DEF Road!PermitsAreReal
    <3>2. portal' \in Road!Permits
      BY <1>3 DEF PortalFits
    <3>3. permit.until \in Int /\ portal.until \in Int /\ portal'.until \in Int
      BY <1>5, <2>1, <3>1, <3>2 DEF Shown, Road!Permits, Road!Ticks
    <3> QED BY <3>1, <3>3
  <2>3. CASE r.do \in {"transporter", "fetch"}
    <3>1. portal' = portal /\ drift' = drift
      BY <1>2, <1>3, <2>3 DEF Road!Done
    <3> QED BY <1>3, <1>5, <1>6, <2>1, <3>1 DEF RoadFits, Road!PermitsAreReal
  <2>4. CASE r.do = "vehicle"
    <3>1. "status" \in drift' /\ "vehicle" \in drift'
      BY <1>2, <2>4 DEF Road!Touches
    <3>2. permit'.status = "ACTIVE" => portal'.vehicle # None
      BY <1>3, <1>5, <2>1 DEF Road!PermitsAreReal
    <3> QED BY <1>3, <1>6, <2>1, <2>2, <3>1, <3>2 DEF RoadFits, Road!PermitsAreReal
  <2>5. CASE r.do \in {"extend", "cancel", "reject"}
    <3>1. "status" \in drift' /\ ("vehicle" \notin drift' => "vehicle" \notin drift)
      BY <1>2, <2>5 DEF Road!Touches
    <3>2. portal'.vehicle = portal.vehicle
      BY <1>3, <2>1, <2>5 DEF Road!Done, Road!Permits
    <3>3. permit'.status = "ACTIVE" => portal'.vehicle # None
      BY <1>3, <1>5, <2>1 DEF Road!PermitsAreReal
    <3>4. "vehicle" \notin drift' => permit'.vehicle = portal'.vehicle
      BY <1>5, <2>1, <3>1, <3>2 DEF Road!PermitsAreReal
    <3> QED BY <1>3, <1>6, <2>1, <2>2, <3>1, <3>3, <3>4 DEF RoadFits, Road!PermitsAreReal
  <2> QED BY <1>1, <1>8, <2>3, <2>4, <2>5 DEF Asked
<1> QED BY <1>7, <1>8

\* What others do at the portal, and time.
LEMMA ElsewhereStep ==
  ASSUME RoadFits, Road!GenerateFails \/ (\E s \in Road!Ended : Road!Elsewhere(s)) \/ Road!Check \/ Road!Tick
  PROVE  RoadFits'
<1>0. PortalFits /\ PermitFits /\ Road!PermitsAreReal /\ permit \in Shown /\ (portal # None => portal \in Road!Permits)
  BY DEF RoadFits, PortalFits, PermitFits
<1>1. CASE Road!GenerateFails
  <2>1. permit' = [permit EXCEPT !.status = "FAILED"] /\ permit.status = "NONE" /\ UNCHANGED <<portal, said, now, drift>>
    BY <1>1 DEF Road!GenerateFails
  <2>2. permit.raised = None
    BY <1>0, <2>1 DEF PermitFits, Road!Raised, Road!Ended
  <2>3. permit' \in Shown /\ permit'.raised = None /\ permit'.until = permit.until /\ permit'.vehicle = permit.vehicle /\ permit'.status = "FAILED"
    BY <1>0, <2>1, <2>2 DEF Shown
  <2>4. PortalFits'
    BY <1>0, <2>1 DEF PortalFits
  <2> QED BY <1>0, <2>1, <2>2, <2>3, <2>4 DEF RoadFits, PermitFits, Road!PermitsAreReal
<1>2. CASE (\E s \in Road!Ended : Road!Elsewhere(s)) \/ Road!Check
  <2>1. /\ UNCHANGED <<permit, said, now>> /\ portal # None
        /\ \/ \E s \in Road!Ended : portal' = [portal EXCEPT !.status = s] /\ "status" \in drift' /\ drift' = drift \cup {"status"}
           \/ portal' = [portal EXCEPT !.checked = TRUE] /\ drift' = drift
    BY <1>2 DEF Road!Elsewhere, Road!Check
  <2>2. portal' \in Road!Permits /\ portal'.until = portal.until /\ portal'.vehicle = portal.vehicle
        /\ ("status" \notin drift' => portal'.status = portal.status /\ "status" \notin drift)
        /\ ("vehicle" \notin drift' => "vehicle" \notin drift)
    <3>1. CASE \E s \in Road!Ended : portal' = [portal EXCEPT !.status = s] /\ "status" \in drift' /\ drift' = drift \cup {"status"}
      BY <1>0, <2>1, <3>1 DEF Road!Permits, Road!Raised
    <3>2. CASE portal' = [portal EXCEPT !.checked = TRUE] /\ drift' = drift
      BY <1>0, <2>1, <3>2 DEF Road!Permits
    <3> QED BY <2>1, <3>1, <3>2
  <2>3. portal' # None
    BY <2>2, GovernmentAssumption
  <2>4. PortalFits'
    BY <1>0, <2>1, <2>2, <2>3 DEF PortalFits
  <2>5. PermitFits'
    BY <1>0, <2>1, <2>3 DEF PermitFits
  <2>6. drift' = {} => drift = {}
    BY <2>1
  <2>7. Road!PermitsAreReal'
    BY <1>0, <2>1, <2>2, <2>6 DEF Road!PermitsAreReal
  <2> QED BY <2>4, <2>5, <2>7 DEF RoadFits
<1>3. CASE Road!Tick
  <2>1. UNCHANGED <<permit, portal, said, drift>> /\ now' = now + 1 /\ now' \in 0..MaxNow /\ now \in Int
    BY <1>0, <1>3, GovernmentAssumption DEF Road!Tick, PortalFits
  <2>2. portal # None /\ portal.until # None => portal.until <= now' + Validity
    <3> SUFFICES ASSUME portal # None, portal.until # None PROVE portal.until <= now' + Validity
      OBVIOUS
    <3>1. portal.until \in Int /\ portal.until <= now + Validity
      BY <1>0 DEF PortalFits, Road!Permits, Road!Ticks
    <3> QED BY <2>1, <3>1, GovernmentAssumption
  <2>3. PortalFits'
    BY <1>0, <2>1, <2>2 DEF PortalFits
  <2> QED BY <1>0, <2>1, <2>3 DEF RoadFits, PermitFits, Road!PermitsAreReal
<1> QED BY <1>1, <1>2, <1>3

LEMMA RoadNext == RoadFits /\ [Road!Next]_(Road!vars) => RoadFits'
<1> SUFFICES ASSUME RoadFits, [Road!Next]_(Road!vars) PROVE RoadFits'
  OBVIOUS
<1>1. CASE UNCHANGED Road!vars
  BY <1>1 DEF Road!vars, RoadFits, PortalFits, PermitFits, Road!PermitsAreReal
<1>2. CASE Road!Next
  BY <1>2, AskStep, LoseStep, ElsewhereStep DEF Road!Next
<1> QED BY <1>1, <1>2

-----------------------------------------------------------------------------
(* The credit on what was bought (Credit), for any documents and months      *)

\* What is answered or prepared is of a month that is touched; a note is booked after its bill.
CreditTypes ==
  /\ book \in [Claims!Documents -> Months \cup {None}]
  /\ stated \in [Months -> [Purchases -> Claims!Statements \cup {None}]]
  /\ answer \in [Months -> [Claims!Documents -> {None} \cup Claims!Answers]]
  /\ accepted \in [Months -> SUBSET Claims!Documents]
  /\ claim \in [Claims!Documents -> Months \cup {None}]
  /\ return \in [Months -> [state : Claims!States, photo : Claims!Photos]]

MonthsTouched ==
  /\ \A d \in Claims!Documents, n \in Months : claim[d] = n => ~Claims!Untouched(n)
  /\ \A m \in Months : accepted[m] # {} => \E d \in Claims!Documents : answer[m][d] # None
  /\ \A n \in SentBack : book[n] # None => book[BillOf[n]] # None /\ book[BillOf[n]] <= book[n]

\* What is on a return, signed or not, is claimed for its month.
PhotosClaimed ==
  \A m \in Months : \A d \in Claims!Documents : return[m].photo[d] > 0 =>
    /\ claim[d] = m
    /\ d \in SentBack => return[m].photo[BillOf[d]] > 0 \/ Claims!ClaimedBefore(BillOf[d], m)

CreditFits == CreditTypes /\ MonthsTouched /\ PhotosClaimed

LEMMA CreditFirst == Claims!Init => CreditFits
<1> SUFFICES ASSUME Claims!Init PROVE CreditFits
  OBVIOUS
<1> USE DEF Claims!Init
<1>1. CreditTypes
  <2>1. [d \in Claims!Documents |-> 0] \in Claims!Photos
    BY DEF Claims!Photos
  <2>2. [state |-> "NONE", photo |-> [d \in Claims!Documents |-> 0]] \in [state : Claims!States, photo : Claims!Photos]
    BY <2>1 DEF Claims!States
  <2> QED BY <2>2 DEF CreditTypes
<1>2. MonthsTouched
  BY GovernmentAssumption DEF MonthsTouched, Claims!Documents
<1>3. PhotosClaimed
  BY DEF PhotosClaimed
<1> QED BY <1>1, <1>2, <1>3 DEF CreditFits

\* Of some months there is a last.
LEMMA LastOfMonths ==
  ASSUME NEW S \in SUBSET Months, S # {}
  PROVE  Claims!Max(S) \in S
<1> DEFINE Good == {n \in Nat : \A T \in SUBSET Months : T # {} /\ Cardinality(T) = n => \E x \in T : \A y \in T : y <= x}
<1>1. 0 \in Good
  <2>1. \A T \in SUBSET Months : Cardinality(T) = 0 => T = {}
    BY GovernmentAssumption, FS_Subset, FS_EmptySet
  <2> QED BY <2>1
<1>2. ASSUME NEW n \in Nat, n \in Good PROVE n + 1 \in Good
  <2> SUFFICES ASSUME NEW T \in SUBSET Months, T # {}, Cardinality(T) = n + 1
               PROVE  \E x \in T : \A y \in T : y <= x
    OBVIOUS
  <2>1. PICK z \in T : TRUE
    OBVIOUS
  <2>2. IsFiniteSet(T) /\ T \subseteq Int
    BY GovernmentAssumption, FS_Subset
  <2>3. Cardinality(T \ {z}) = n
    BY <2>1, <2>2, OneLess
  <2>4. CASE T \ {z} = {}
    <3>1. \A y \in T : y = z
      BY <2>4
    <3>2. \A t \in Int : t <= t
      OBVIOUS
    <3> QED BY <2>2, <3>1, <3>2
  <2>5. CASE T \ {z} # {}
    <3>1. PICK x \in T \ {z} : \A y \in T \ {z} : y <= x
      BY <1>2, <2>3, <2>5
    <3>2. x \in Int /\ z \in Int /\ \A y \in T : y \in Int
      BY <2>2
    <3>3. CASE z <= x
      BY <3>1, <3>3
    <3>4. CASE ~(z <= x)
      <4>1. \A y \in T : y <= z
        BY <3>1, <3>2, <3>4
      <4> QED BY <4>1
    <3> QED BY <3>3, <3>4
  <2> QED BY <2>4, <2>5
<1>3. \A n \in Nat : n \in Good
  <2> HIDE DEF Good
  <2> QED BY <1>1, <1>2, Induction
<1>4. IsFiniteSet(S) /\ Cardinality(S) \in Nat
  BY GovernmentAssumption, FS_Subset, FS_CardinalityType
<1>5. \E x \in S : \A y \in S : y <= x
  BY <1>3, <1>4
<1> QED BY <1>5 DEF Claims!Max

LEMMA EvidenceType ==
  ASSUME CreditTypes, NEW d \in Claims!Documents, NEW m \in Months
  PROVE  Claims!Evidence(d, m) \in Claims!Statements \cup {None}
<1> DEFINE spoken == IF d \in Purchases THEN {n \in Months : n <= m /\ stated[n][d] # None} ELSE {}
<1>1. Claims!Evidence(d, m) = IF spoken = {} THEN None ELSE stated[Claims!Max(spoken)][d]
  BY DEF Claims!Evidence
<1>2. CASE spoken = {}
  BY <1>1, <1>2
<1>3. CASE spoken # {}
  <2>1. d \in Purchases /\ spoken \in SUBSET Months
    BY <1>3
  <2>2. Claims!Max(spoken) \in Months
    <3> HIDE DEF spoken
    <3> QED BY <1>3, <2>1, LastOfMonths
  <2>3. stated[Claims!Max(spoken)][d] \in Claims!Statements \cup {None}
    <3> HIDE DEF spoken
    <3> QED BY <2>1, <2>2 DEF CreditTypes
  <2> QED BY <1>1, <1>3, <2>3
<1> QED BY <1>2, <1>3

\* What is taken is worth something, and what is on a return was taken.
LEMMA LinkageIs ==
  ASSUME NEW m \in Months
  PROVE  /\ Claims!Linkage(m) \in Claims!Photos
         /\ \A d \in Claims!Documents : Claims!Linkage(m)[d] > 0 => d \in Claims!TakenIn(m)
         /\ \A b \in Purchases : b \in Claims!TakenIn(m) => Claims!Linkage(m)[b] > 0
<1>1. \A d \in Claims!Documents : Tax[d] \in Nat /\ Tax[d] >= 1 /\ (d \in Purchases => Tax[d] >= 2)
  BY GovernmentAssumption DEF Claims!Documents
<1>2. \A d \in Claims!Documents : Claims!Claimable(d, m) \in Nat /\ (d \in Purchases => Claims!Claimable(d, m) > 0)
  BY <1>1 DEF Claims!Claimable
<1>3. \A b \in Purchases : b \in Claims!Documents
  BY DEF Claims!Documents
<1> QED BY <1>2, <1>3 DEF Claims!Linkage, Claims!Photos, Claims!TakenIn

\* In turn, what a month takes is claimed for it or for nothing yet.
LEMMA ClaimsInTurn ==
  ASSUME Orderly, CreditFits, NEW m \in Months, Claims!InTurn(m), NEW d \in Claims!TakenIn(m)
  PROVE  claim[d] \in {None, m} /\ Claims!Shown(d, m)
<1>1. d \in Claims!Documents /\ Claims!Shown(d, m)
  BY DEF Claims!TakenIn, Claims!Taken, Claims!BillTaken, Claims!NoteTaken
<1>2. ASSUME claim[d] # None PROVE claim[d] = m
  <2>1. claim[d] \in Months /\ ~Claims!Untouched(claim[d])
    BY <1>1, <1>2 DEF CreditFits, CreditTypes, MonthsTouched
  <2>2. ~(claim[d] < m) /\ ~(claim[d] > m)
    BY <1>1, <1>2, <2>1 DEF Claims!Shown, Claims!ClaimedBefore, Claims!InTurn
  <2>3. claim[d] \in Int /\ m \in Int
    BY <2>1, GovernmentAssumption
  <2>4. \A x, y \in Int : ~(x < y) /\ ~(x > y) => x = y
    OBVIOUS
  <2> QED BY <2>2, <2>3, <2>4
<1> QED BY <1>1, <1>2

\* A step that claims for a month whose turn it is keeps what was claimed.
LEMMA ClaimStep ==
  ASSUME Orderly, CreditFits, NEW m \in Months, Claims!InTurn(m), NEW taken \in SUBSET Claims!Documents,
         claim' = Claims!Recorded(taken, m)
  PROVE  /\ claim' \in [Claims!Documents -> Months \cup {None}]
         /\ \A d \in Claims!Documents : claim[d] # None => claim'[d] = claim[d]
         /\ \A d \in Claims!Documents : claim'[d] # claim[d] => claim'[d] = m /\ d \in taken
         /\ taken \subseteq Claims!TakenIn(m) => \A d \in taken : claim'[d] = m
<1>1. \A d \in Claims!Documents : claim'[d] = IF d \in taken /\ claim[d] = None THEN m ELSE claim[d]
  BY DEF Claims!Recorded
<1>2. claim' \in [Claims!Documents -> Months \cup {None}]
  BY <1>1 DEF CreditFits, CreditTypes, Claims!Recorded
<1>3. \A d \in Claims!TakenIn(m) : claim[d] \in {None, m}
  BY ClaimsInTurn
<1> QED BY <1>1, <1>2, <1>3

\* Photographs stay true of the claims, which only come to be.
LEMMA PhotosStay ==
  ASSUME Orderly, CreditFits, NEW m \in Months, NEW d \in Claims!Documents, return'[m].photo = return[m].photo, return[m].photo[d] > 0,
         \A c \in Claims!Documents : claim[c] # None => claim'[c] = claim[c]
  PROVE  /\ claim'[d] = m
         /\ d \in SentBack => return'[m].photo[BillOf[d]] > 0 \/ Claims!ClaimedBefore(BillOf[d], m)'
<1>1. claim[d] = m /\ (d \in SentBack => return[m].photo[BillOf[d]] > 0 \/ Claims!ClaimedBefore(BillOf[d], m))
  BY DEF CreditFits, PhotosClaimed
<1>2. m # None
  BY GovernmentAssumption
<1>3. ASSUME NEW b \in Claims!Documents, Claims!ClaimedBefore(b, m) PROVE Claims!ClaimedBefore(b, m)'
  BY <1>3 DEF Claims!ClaimedBefore
<1>4. d \in SentBack => BillOf[d] \in Claims!Documents
  BY GovernmentAssumption DEF Claims!Documents
<1> QED BY <1>1, <1>2, <1>3, <1>4

\* The month whose photograph is taken anew, with what it takes claimed for it.
LEMMA PhotoStep ==
  ASSUME Orderly, CreditFits, NEW m \in Months, NEW d \in Claims!Documents, Claims!InTurn(m), Claims!Linkage(m)[d] > 0,
         claim' = Claims!ClaimPeriod(m), return'[m].photo = Claims!Linkage(m)
  PROVE  /\ claim'[d] = m
         /\ d \in SentBack => return'[m].photo[BillOf[d]] > 0 \/ Claims!ClaimedBefore(BillOf[d], m)'
<1>1. d \in Claims!TakenIn(m)
  BY LinkageIs
<1>2. /\ claim'[d] = m
      /\ \A c \in Claims!Documents : claim[c] # None => claim'[c] = claim[c]
  <2>1. Claims!TakenIn(m) \in SUBSET Claims!Documents
    BY DEF Claims!TakenIn
  <2> QED BY <1>1, <2>1, ClaimStep DEF Claims!ClaimPeriod
<1>3. ASSUME d \in SentBack PROVE Claims!Linkage(m)[BillOf[d]] > 0 \/ Claims!ClaimedBefore(BillOf[d], m)'
  <2> DEFINE b == BillOf[d]
  <2>1. b \in Purchases /\ b \in Claims!Documents /\ d \notin Purchases
    BY <1>3, GovernmentAssumption DEF Claims!Documents
  <2>2. Claims!Shown(d, m) /\ (Claims!Shown(b, m) => Claims!BillTaken(b, m, answer[m]))
    BY <1>1, <2>1 DEF Claims!TakenIn, Claims!Taken, Claims!NoteTaken
  <2>3. CASE Claims!Shown(b, m)
    <3>1. b \in Claims!TakenIn(m)
      BY <2>1, <2>2, <2>3 DEF Claims!TakenIn, Claims!Taken
    <3> QED BY <2>1, <3>1, LinkageIs
  <2>4. CASE ~Claims!Shown(b, m)
    <3>1. book[d] # None /\ book[d] <= m /\ book[b] # None /\ book[b] <= book[d]
      BY <1>3, <2>2 DEF CreditFits, MonthsTouched, Claims!Shown
    <3>2. book[d] \in Int /\ book[b] \in Int /\ m \in Int
      BY <2>1, <3>1, GovernmentAssumption DEF CreditFits, CreditTypes
    <3>3. book[b] <= m
      <4> HIDE DEF b
      <4> QED BY <3>1, <3>2
    <3>4. Claims!ClaimedBefore(b, m)
      BY <2>4, <3>1, <3>3 DEF Claims!Shown
    <3>5. claim'[b] = claim[b]
      BY <1>2, <2>1, <3>4 DEF Claims!ClaimedBefore
    <3> QED BY <3>4, <3>5 DEF Claims!ClaimedBefore
  <2> QED BY <2>3, <2>4
<1> QED BY <1>2, <1>3

\* What any step must keep for the rest to follow.
LEMMA CreditStep ==
  ASSUME Orderly, CreditFits, CreditTypes',
         \A d \in Claims!Documents : claim[d] # None => claim'[d] = claim[d],
         \A d \in Claims!Documents, n \in Months : claim'[d] = n => claim[d] = n \/ ~Claims!Untouched(n)',
         \A n \in Months : ~Claims!Untouched(n) => ~Claims!Untouched(n)',
         \A m \in Months : accepted'[m] # {} => \E d \in Claims!Documents : answer'[m][d] # None,
         \A n \in SentBack : book'[n] # None => book'[BillOf[n]] # None /\ book'[BillOf[n]] <= book'[n],
         \A m \in Months : \/ return'[m].photo = return[m].photo
                           \/ /\ Claims!InTurn(m) /\ claim' = Claims!ClaimPeriod(m)
                              /\ return'[m].photo = Claims!Linkage(m)
  PROVE  CreditFits'
<1>1. MonthsTouched'
  BY DEF CreditFits, MonthsTouched
<1>2. PhotosClaimed'
  <2> SUFFICES ASSUME NEW m \in Months, NEW d \in Claims!Documents, return'[m].photo[d] > 0
               PROVE  /\ claim'[d] = m
                      /\ d \in SentBack => return'[m].photo[BillOf[d]] > 0 \/ Claims!ClaimedBefore(BillOf[d], m)'
    BY DEF PhotosClaimed
  <2>1. CASE return'[m].photo = return[m].photo
    BY <2>1, PhotosStay
  <2>2. CASE Claims!InTurn(m) /\ claim' = Claims!ClaimPeriod(m) /\ return'[m].photo = Claims!Linkage(m)
    BY <2>2, PhotoStep
  <2> QED BY <2>1, <2>2
<1> QED BY <1>1, <1>2 DEF CreditFits

LEMMA BooksStep ==
  ASSUME Orderly, CreditFits, NEW m \in Months,
         \/ \E d \in Claims!Documents : Claims!Post(d, m)
         \/ \E b \in Purchases, s \in Claims!Statements : Claims!ImportFile(m, b, s)
  PROVE  CreditFits'
<1>1. UNCHANGED <<answer, accepted, claim, return>>
  BY DEF Claims!Post, Claims!ImportFile
<1>2. CreditTypes /\ MonthsTouched
  BY DEF CreditFits
<1>3. CreditTypes'
  <2>2. CASE \E d \in Claims!Documents : Claims!Post(d, m)
    BY <1>1, <1>2, <2>2 DEF Claims!Post, CreditTypes
  <2>3. CASE \E b \in Purchases, s \in Claims!Statements : Claims!ImportFile(m, b, s)
    <3>1. PICK b \in Purchases, s \in Claims!Statements : stated' = [stated EXCEPT ![m][b] = s]
      BY <2>3 DEF Claims!ImportFile
    <3>2. stated \in [Months -> [Purchases -> Claims!Statements \cup {None}]]
      BY <1>2 DEF CreditTypes
    <3>3. [stated[m] EXCEPT ![b] = s] \in [Purchases -> Claims!Statements \cup {None}]
      BY <3>2
    <3>4. stated' \in [Months -> [Purchases -> Claims!Statements \cup {None}]]
      BY <3>1, <3>2, <3>3
    <3>5. book' = book
      BY <2>3 DEF Claims!ImportFile
    <3> QED BY <1>1, <1>2, <3>4, <3>5 DEF CreditTypes
  <2> QED BY <2>2, <2>3
<1>4. \A n \in SentBack : book'[n] # None => book'[BillOf[n]] # None /\ book'[BillOf[n]] <= book'[n]
  <2>1. CASE book' = book
    BY <1>2, <2>1 DEF MonthsTouched
  <2>2. CASE \E d \in Claims!Documents : Claims!Post(d, m)
    <3>1. PICK d \in Claims!Documents : Claims!Post(d, m)
      BY <2>2
    <3>2. book[d] = None /\ (d \in SentBack => book[BillOf[d]] # None /\ book[BillOf[d]] <= m) /\ book' = [book EXCEPT ![d] = m]
      BY <3>1 DEF Claims!Post
    <3>3. \A c \in Claims!Documents : book'[c] = IF c = d THEN m ELSE book[c]
      BY <1>2, <3>2 DEF CreditTypes
    <3>4. \A n \in SentBack : n \in Claims!Documents /\ BillOf[n] \in Claims!Documents /\ BillOf[n] # n
      BY GovernmentAssumption DEF Claims!Documents
    <3> QED BY <1>2, <3>2, <3>3, <3>4 DEF MonthsTouched
  <2> QED BY <2>1, <2>2 DEF Claims!ImportFile
<1> QED BY <1>1, <1>2, <1>3, <1>4, CreditStep DEF MonthsTouched, Claims!Untouched

LEMMA DecideStep ==
  ASSUME Orderly, CreditFits, NEW m \in Months, NEW d \in Claims!Documents,
         Claims!DecideAgain(m, d) \/ \E kind \in Claims!Kinds : Claims!Decide(m, d, kind)
  PROVE  CreditFits'
<1>1. CreditTypes /\ MonthsTouched
  BY DEF CreditFits
<1>2. CASE Claims!DecideAgain(m, d)
  <2>1. UNCHANGED <<book, stated, answer, accepted, return>> /\ Claims!InTurn(m) /\ d \in accepted[m]
        /\ claim' = Claims!Recorded({d} \cap Claims!TakenIn(m), m)
    BY <1>2 DEF Claims!DecideAgain
  <2>2. {d} \cap Claims!TakenIn(m) \in SUBSET Claims!Documents
    OBVIOUS
  <2>3. /\ claim' \in [Claims!Documents -> Months \cup {None}]
        /\ \A c \in Claims!Documents : claim[c] # None => claim'[c] = claim[c]
        /\ \A c \in Claims!Documents : claim'[c] # claim[c] => claim'[c] = m
    BY <2>1, <2>2, ClaimStep
  <2>4. ~Claims!Untouched(m)'
    BY <1>1, <2>1 DEF MonthsTouched, Claims!Untouched
  <2>5. \A c \in Claims!Documents, n \in Months : claim'[c] = n => claim[c] = n \/ ~Claims!Untouched(n)'
    BY <2>3, <2>4
  <2>6. CreditTypes'
    BY <1>1, <2>1, <2>3 DEF CreditTypes
  <2> QED BY <1>1, <2>1, <2>3, <2>5, <2>6, CreditStep DEF MonthsTouched, Claims!Untouched
<1>3. CASE \E kind \in Claims!Kinds : Claims!Decide(m, d, kind)
  <2>1. PICK kind \in Claims!Kinds : Claims!Decide(m, d, kind)
    BY <1>3
  <2> DEFINE given == [kind |-> kind, about |-> Claims!Evidence(d, m)]
             taken == IF kind = "ACCEPT" /\ Claims!Taken(d, m, answer'[m]) THEN {d} ELSE {}
  <2>2. /\ UNCHANGED <<book, stated, return>> /\ Claims!InTurn(m)
        /\ answer' = [answer EXCEPT ![m][d] = given]
        /\ accepted' = IF kind = "ACCEPT" THEN [accepted EXCEPT ![m] = @ \cup {d}] ELSE accepted
        /\ claim' = Claims!Recorded(taken, m)
    BY <2>1 DEF Claims!Decide
  <2>3. given \in Claims!Answers /\ given # None
    BY <1>1, EvidenceType, GovernmentAssumption DEF Claims!Answers
  <2>4. taken \in SUBSET Claims!Documents
    OBVIOUS
  <2> HIDE DEF given, taken
  <2>5. /\ claim' \in [Claims!Documents -> Months \cup {None}]
        /\ \A c \in Claims!Documents : claim[c] # None => claim'[c] = claim[c]
        /\ \A c \in Claims!Documents : claim'[c] # claim[c] => claim'[c] = m
    BY <2>2, <2>4, ClaimStep
  <2>6. /\ answer' \in [Months -> [Claims!Documents -> {None} \cup Claims!Answers]]
        /\ answer'[m][d] = given
        /\ \A n \in Months, c \in Claims!Documents : answer[n][c] # None => answer'[n][c] # None
    <3>1. answer \in [Months -> [Claims!Documents -> {None} \cup Claims!Answers]]
      BY <1>1 DEF CreditTypes
    <3>2. [answer[m] EXCEPT ![d] = given] \in [Claims!Documents -> {None} \cup Claims!Answers]
      BY <2>3, <3>1
    <3>3. answer' \in [Months -> [Claims!Documents -> {None} \cup Claims!Answers]]
      BY <2>2, <3>1, <3>2
    <3>4. answer'[m][d] = given
      BY <2>2, <3>1
    <3>5. \A n \in Months, c \in Claims!Documents : answer'[n][c] = answer[n][c] \/ answer'[n][c] = given
      BY <2>2, <3>1
    <3> QED BY <2>3, <3>3, <3>4, <3>5
  <2>7. \A n \in Months : ~Claims!Untouched(n) => ~Claims!Untouched(n)'
    BY <2>2, <2>6 DEF Claims!Untouched
  <2>8. ~Claims!Untouched(m)'
    BY <2>3, <2>6 DEF Claims!Untouched
  <2>9. \A c \in Claims!Documents, n \in Months : claim'[c] = n => claim[c] = n \/ ~Claims!Untouched(n)'
    BY <2>5, <2>8
  <2>10. accepted' \in [Months -> SUBSET Claims!Documents] /\ \A n \in Months : n # m => accepted'[n] = accepted[n]
    BY <1>1, <2>2 DEF CreditTypes
  <2>11. \A n \in Months : accepted'[n] # {} => \E c \in Claims!Documents : answer'[n][c] # None
    <3> SUFFICES ASSUME NEW n \in Months, accepted'[n] # {} PROVE \E c \in Claims!Documents : answer'[n][c] # None
      OBVIOUS
    <3>1. CASE n = m
      BY <2>3, <2>6, <3>1
    <3>2. CASE n # m
      BY <1>1, <2>6, <2>10, <3>2 DEF MonthsTouched
    <3> QED BY <3>1, <3>2
  <2>12. CreditTypes'
    BY <1>1, <2>2, <2>5, <2>6, <2>10 DEF CreditTypes
  <2> QED BY <1>1, <2>2, <2>5, <2>7, <2>9, <2>11, <2>12, CreditStep DEF MonthsTouched
<1> QED BY <1>2, <1>3

LEMMA ReturnStep ==
  ASSUME Orderly, CreditFits, NEW m \in Months, Claims!Prepare(m) \/ Claims!PrepareAgain(m) \/ Claims!Approve(m) \/ Claims!Reopen(m)
  PROVE  CreditFits'
<1>1. CreditTypes /\ MonthsTouched
  BY DEF CreditFits
<1>2. UNCHANGED <<book, stated, answer, accepted>> /\ Claims!InTurn(m)
  BY DEF Claims!Prepare, Claims!PrepareAgain, Claims!Approve, Claims!Reopen
<1>3. PICK s \in {"DRAFT", "APPROVED"}, photo \in Claims!Photos :
        /\ \/ return' = [return EXCEPT ![m] = [state |-> s, photo |-> photo]]
           \/ return' = return /\ return[m].state # "NONE" /\ photo = return[m].photo
        /\ \/ photo = return[m].photo
           \/ claim' = Claims!ClaimPeriod(m) /\ photo = Claims!Linkage(m)
  <2>0. Claims!Linkage(m) \in Claims!Photos /\ return[m] \in [state : Claims!States, photo : Claims!Photos]
    BY <1>1, LinkageIs DEF CreditTypes
  <2>1. CASE Claims!Prepare(m)
    BY <2>0, <2>1 DEF Claims!Prepare, Claims!Photograph
  <2>2. CASE Claims!PrepareAgain(m)
    BY <2>0, <2>2 DEF Claims!PrepareAgain
  <2>3. CASE Claims!Approve(m)
    BY <2>0, <2>3 DEF Claims!Approve, Claims!Photograph
  <2>4. CASE Claims!Reopen(m)
    <3>1. return' = [return EXCEPT ![m].state = "DRAFT"]
      BY <2>4 DEF Claims!Reopen
    <3>2. [return[m] EXCEPT !.state = "DRAFT"] = [state |-> "DRAFT", photo |-> return[m].photo]
      BY <2>0
    <3>3. return' = [return EXCEPT ![m] = [state |-> "DRAFT", photo |-> return[m].photo]]
      BY <3>1, <3>2
    <3> QED BY <2>0, <3>3
  <2> QED BY <2>1, <2>2, <2>3, <2>4
<1>4. claim' = claim \/ claim' = Claims!ClaimPeriod(m)
  BY DEF Claims!Prepare, Claims!PrepareAgain, Claims!Approve, Claims!Reopen
<1>5. Claims!TakenIn(m) \in SUBSET Claims!Documents
  BY DEF Claims!TakenIn
<1>6. /\ claim' \in [Claims!Documents -> Months \cup {None}]
      /\ \A c \in Claims!Documents : claim[c] # None => claim'[c] = claim[c]
      /\ \A c \in Claims!Documents : claim'[c] # claim[c] => claim'[c] = m
  <2>1. CASE claim' = claim
    BY <1>1, <2>1 DEF CreditTypes
  <2>2. CASE claim' = Claims!ClaimPeriod(m)
    BY <1>2, <1>5, <2>2, ClaimStep DEF Claims!ClaimPeriod
  <2> QED BY <1>4, <2>1, <2>2
<1>7. /\ return' \in [Months -> [state : Claims!States, photo : Claims!Photos]] /\ return'[m].state # "NONE" /\ return'[m].photo = photo
      /\ \A n \in Months : n # m => return'[n] = return[n]
  <2>1. return \in [Months -> [state : Claims!States, photo : Claims!Photos]]
    BY <1>1 DEF CreditTypes
  <2>2. [state |-> s, photo |-> photo] \in [state : Claims!States, photo : Claims!Photos]
    BY DEF Claims!States
  <2> QED BY <1>3, <2>1, <2>2
<1>8. ~Claims!Untouched(m)' /\ \A n \in Months : ~Claims!Untouched(n) => ~Claims!Untouched(n)'
  BY <1>2, <1>7 DEF Claims!Untouched
<1>9. \A c \in Claims!Documents, n \in Months : claim'[c] = n => claim[c] = n \/ ~Claims!Untouched(n)'
  BY <1>6, <1>8
<1>10. CreditTypes'
  BY <1>1, <1>2, <1>6, <1>7 DEF CreditTypes
<1>11. \A n \in Months : \/ return'[n].photo = return[n].photo
                         \/ /\ Claims!InTurn(n) /\ claim' = Claims!ClaimPeriod(n)
                            /\ return'[n].photo = Claims!Linkage(n)
  BY <1>2, <1>3, <1>7
<1> QED BY <1>1, <1>2, <1>6, <1>8, <1>9, <1>10, <1>11, CreditStep DEF MonthsTouched

LEMMA CreditNext ==
  ASSUME Orderly, CreditFits, [Claims!Next]_(Claims!vars)
  PROVE  CreditFits'
<1>1. CASE UNCHANGED Claims!vars
  BY <1>1 DEF Claims!vars, CreditFits, CreditTypes, MonthsTouched, PhotosClaimed, Claims!Untouched, Claims!ClaimedBefore
<1>2. CASE Claims!YearEnds
  BY <1>2 DEF Claims!YearEnds, CreditFits, CreditTypes, MonthsTouched, PhotosClaimed, Claims!Untouched, Claims!ClaimedBefore
<1> QED BY <1>1, <1>2, BooksStep, DecideStep, ReturnStep DEF Claims!Next

LEMMA CreditHolds == CreditFits => Claims!CreditAddsUp
<1> SUFFICES ASSUME CreditFits PROVE Claims!TakenOnce /\ Claims!CreditFollowsClaims
  BY DEF Claims!CreditAddsUp
<1>1. Claims!CreditFollowsClaims
  BY DEF CreditFits, PhotosClaimed, Claims!CreditFollowsClaims
<1>2. \A m \in Months, d \in Claims!Documents : return[m].photo[d] = 0 \/ return[m].photo[d] > 0
  BY DEF CreditFits, CreditTypes, Claims!Photos
<1>3. Claims!TakenOnce
  BY <1>2 DEF CreditFits, PhotosClaimed, Claims!TakenOnce
<1> QED BY <1>1, <1>3

-----------------------------------------------------------------------------
(* The instances together                                                    *)

\* Whichever case a behaviour looks at, the others stand still.
LEMMA BesideEachOther ==
  [MCNext]_<<vars, case, line, challans, road, credit>> =>
    [Line!Next]_(Line!vars) /\ [Road!Next]_(Road!vars) /\ [Claims!Next]_(Claims!vars)
<1> SUFFICES ASSUME [MCNext]_<<vars, case, line, challans, road, credit>>
             PROVE  [Line!Next]_(Line!vars) /\ [Road!Next]_(Road!vars) /\ [Claims!Next]_(Claims!vars)
  OBVIOUS
<1>1. UNCHANGED line => UNCHANGED Line!vars
  BY DEF line, Line!vars
<1>2. UNCHANGED road => UNCHANGED Road!vars
  BY DEF road, Road!vars
<1>3. UNCHANGED credit => UNCHANGED Claims!vars
  BY DEF credit, Claims!vars
<1> QED BY <1>1, <1>2, <1>3 DEF MCNext

PortalsFit == LineFits /\ RoadFits

LEMMA PortalsFirst == MCInit => PortalsFit
BY LineFirst, RoadFirst DEF MCInit, PortalsFit

LEMMA PortalsNext == PortalsFit /\ [MCNext]_<<vars, case, line, challans, road, credit>> => PortalsFit'
BY BesideEachOther, LineNext, RoadNext DEF PortalsFit

\* Whatever order answers, callbacks and reconciliations come in, an answer that
\* disagrees with one we hold is in front of a person; and whatever the portal loses,
\* repeats or is told elsewhere, no permit is shown that is more than it gave
\* (webhooks.ts:26, transport/service.ts:5-13).
THEOREM PortalsAlwaysFollowed == MCSpec => [](Line!DisagreementsAreAsked /\ Road!PermitsAreReal)
<1>1. PortalsFit => Line!DisagreementsAreAsked /\ Road!PermitsAreReal
  BY LineHolds DEF PortalsFit, RoadFits
<1> QED BY <1>1, PortalsFirst, PortalsNext, PTL DEF MCSpec

\* So it is with credit, on one signed return and claimed for its month, on a
\* condition the code does not enforce: that months are worked in turn and what is
\* approved is what was prepared (itc.ts:680).  Without it the same credit is on two
\* returns (TakenOnce in MCCredit).
THEOREM GovernmentIsFollowedInTurn ==
  ASSUME Orderly
  PROVE  MCSpec => []GovernmentIsFollowed
<1>1. MCInit => PortalsFit /\ CreditFits
  BY PortalsFirst, CreditFirst DEF MCInit
<1>2. PortalsFit /\ CreditFits /\ [MCNext]_<<vars, case, line, challans, road, credit>> => PortalsFit' /\ CreditFits'
  BY PortalsNext, BesideEachOther, CreditNext
<1>3. PortalsFit /\ CreditFits => GovernmentIsFollowed
  BY LineHolds, CreditHolds DEF PortalsFit, RoadFits, GovernmentIsFollowed
<1> QED BY <1>1, <1>2, <1>3, PTL DEF MCSpec

\* The number we hold for a document is never replaced, and what we recorded as
\* refused is not turned round by a later message (webhooks.ts:24).
THEOREM AnswersAlwaysStand == MCSpec => Line!AnswersStand
<1>1. PortalsFit /\ [MCNext]_<<vars, case, line, challans, road, credit>> =>
        [\A c \in Attempts :
           /\ row[c].ref # None => row'[c].ref = row[c].ref
           /\ row[c].outcome \in {"REJECTED", "REFUSED"} => row'[c] = row[c]
           /\ row[c].outcome = "ACCEPTED" => row'[c].outcome = "ACCEPTED"]_(Line!vars)
  BY BesideEachOther, LineNext, LineStands DEF PortalsFit
<1> QED BY <1>1, PortalsFirst, PortalsNext, PTL DEF MCSpec, Line!AnswersStand

-----------------------------------------------------------------------------
(* Requests each in one unit of work, for any bills and callers              *)

OnlyWaiting(bs, holds, S) == \A b \in S : holds[b] # 0 => bs[b].state = "PENDING_APPROVAL"

GoodsLeft(bs, gone) ==
  /\ bs \in [Bills -> Bill] /\ gone \in [Bills -> Nat]
  /\ \A b \in Bills : gone[b] = IF bs[b].state = "FINAL" THEN bs[b].says.qty ELSE 0

AtRest(bs, holds, gone) ==
  GoodsLeft(bs, gone) /\ holds \in [Bills -> Nat] /\ OnlyWaiting(bs, holds, Bills)

\* Only the request's own bill may differ from what it was when the request
\* began, and holds what its next step is for.
Served(t, was) ==
  LET b == t.bill
      mine == bills[b]
  IN /\ \A o \in Bills \ {b} : bills[o] = was[o]
     /\ OnlyWaiting(bills, held, Bills \ {b})
     /\ Issued(mine) \/ mine.state = "PENDING_APPROVAL" => mine = was[b]
     /\ t.kind \notin {"look", "put back"}
     /\ t.kind = "insert" => mine.state = "NONE" /\ t.copy.state = "DRAFT"
     /\ t.kind # "insert" => t.copy = mine
     /\ t.kind = "cancel" => mine.state = "FINAL"
     /\ t.kind \notin {"insert", "cancel"} => Editable(mine) \/ (mine.state = "PENDING_APPROVAL" /\ t.then = "issue")
     /\ t.kind \in {"price", "edit", "let go", "clear", "park", "discard", "remove"} => t.then # "issue"
     /\ t.kind \in {"hold", "short"} => t.then # "end"
     /\ t.kind \in {"let go", "park", "issue"} => held[b] = mine.says.qty
     /\ t.kind \in {"short", "clear", "remove"} => held[b] = 0
     /\ t.kind \in {"insert", "price", "edit", "hold", "discard", "cancel"} => (held[b] # 0 => mine.state = "PENDING_APPROVAL")

RequestsFit ==
  /\ task \in [Callers -> Tasks \cup {Idle}] /\ owner \in Callers \cup {NoOne}
  /\ GoodsLeft(bills, out) /\ held \in [Bills -> Nat]
  /\ owner = NoOne => OnlyWaiting(bills, held, Bills)
  /\ \A c \in Callers : task[c] # Idle =>
       owner = c /\ AtRest(before.bills, before.held, before.out) /\ Served(task[c], before.bills)

\* What a step may not do to a bill that is issued, or that waits.
Keeps ==
  \A b \in Bills :
    /\ Issued(bills[b]) =>
         \/ bills'[b] = bills[b]
         \/ bills[b].state = "FINAL" /\ bills'[b] = [Bumped(bills[b]) EXCEPT !.state = "CANCELLED"]
    /\ bills[b].state = "PENDING_APPROVAL" => bills'[b].state \notin {"NONE", "GONE"}

LEMMA TaskIsNotIdle == \A t \in Tasks : t # Idle
<1>1. Idle.kind \notin Kinds
  BY DEF Idle, Kinds
<1> QED BY <1>1 DEF Tasks

LEMMA RequestsFirst == Init => RequestsFit
<1> SUFFICES ASSUME Init PROVE RequestsFit
  OBVIOUS
<1>1. Absent("NONE") \in Bill /\ Absent("NONE").state = "NONE"
  BY DEF Absent, Bill, BillStates, Nothing, Users
<1>2. bills = [b \in Bills |-> Absent("NONE")] /\ held = [b \in Bills |-> 0] /\ out = [b \in Bills |-> 0]
      /\ task = [c \in Callers |-> Idle] /\ owner = NoOne
  BY DEF Init
<1>3. GoodsLeft(bills, out)
  BY <1>1, <1>2 DEF GoodsLeft
<1>4. held \in [Bills -> Nat] /\ OnlyWaiting(bills, held, Bills)
  BY <1>2 DEF OnlyWaiting
<1> QED BY <1>2, <1>3, <1>4 DEF RequestsFit

LEMMA RequestBegins ==
  ASSUME RequestsFit, NEW c \in Callers, InOneUnit!Begin(c), UNCHANGED tables,
         NEW t \in Tasks, task' = [task EXCEPT ![c] = t], owner = NoOne => Served(t, bills)
  PROVE  RequestsFit' /\ Keeps
<1>1. owner = NoOne /\ owner' = c /\ before' = InOneUnit!Snapshot /\ task[c] = Idle
  BY DEF InOneUnit!Begin, InOneUnit!Idle, InOneUnit!NoOne, Idle, NoOne
<1>2. UNCHANGED <<bills, held, out>>
  BY DEF tables
<1>3. \A o \in Callers : task[o] = Idle
  BY <1>1, SalesAssumption DEF RequestsFit
<1>4. before'.bills = bills /\ before'.held = held /\ before'.out = out
  BY <1>1 DEF InOneUnit!Snapshot
<1>5. AtRest(bills, held, out)
  BY <1>1 DEF RequestsFit, AtRest
<1>6. task' \in [Callers -> Tasks \cup {Idle}] /\ task'[c] = t /\ \A o \in Callers \ {c} : task'[o] = Idle
  BY <1>3 DEF RequestsFit
<1>7. Served(t, before.bills)' /\ AtRest(before.bills, before.held, before.out)'
  BY <1>1, <1>2, <1>4, <1>5 DEF Served, AtRest, GoodsLeft, OnlyWaiting, Exists
<1>8. \A o \in Callers : task'[o] # Idle => owner' = o /\ (AtRest(before.bills, before.held, before.out) /\ Served(task[o], before.bills))'
  BY <1>1, <1>6, <1>7
<1>9. GoodsLeft(bills, out)' /\ held' \in [Bills -> Nat] /\ (owner' # NoOne)
  BY <1>1, <1>2, SalesAssumption DEF RequestsFit, GoodsLeft
<1> QED BY <1>1, <1>2, <1>6, <1>8, <1>9 DEF RequestsFit, Keeps, Issued

\* A step within a request.
LEMMA RequestGoesOn ==
  ASSUME RequestsFit, NEW c \in Callers, task[c] # Idle, NEW t \in Tasks, InOneUnit!Then(c, t),
         GoodsLeft(bills, out)', held' \in [Bills -> Nat], Served(t, before.bills)'
  PROVE  RequestsFit'
<1>1. task' = [task EXCEPT ![c] = t] /\ UNCHANGED <<owner, before>>
  BY DEF InOneUnit!Then
<1>2. owner = c /\ AtRest(before.bills, before.held, before.out) /\ owner # NoOne
  BY SalesAssumption DEF RequestsFit
<1>3. \A o \in Callers \ {c} : task[o] = Idle
  BY <1>2 DEF RequestsFit
<1>4. task' \in [Callers -> Tasks \cup {Idle}] /\ task'[c] = t /\ \A o \in Callers \ {c} : task'[o] = Idle
  BY <1>1, <1>3 DEF RequestsFit
<1>5. AtRest(before.bills, before.held, before.out)'
  BY <1>1, <1>2 DEF AtRest, GoodsLeft, OnlyWaiting
<1>6. \A o \in Callers : task'[o] # Idle => owner' = o /\ (AtRest(before.bills, before.held, before.out) /\ Served(task[o], before.bills))'
  BY <1>1, <1>2, <1>4, <1>5
<1> QED BY <1>1, <1>2, <1>4, <1>6 DEF RequestsFit

\* The last step of a request, and its death.
LEMMA RequestEnds ==
  ASSUME RequestsFit, NEW c \in Callers, task[c] # Idle, task' = [task EXCEPT ![c] = Idle], owner' = NoOne,
         AtRest(bills, held, out)'
  PROVE  RequestsFit'
<1>1. \A o \in Callers : task'[o] = Idle
  BY SalesAssumption DEF RequestsFit
<1>2. task' \in [Callers -> Tasks \cup {Idle}]
  BY DEF RequestsFit
<1> QED BY <1>1, <1>2 DEF RequestsFit, AtRest

\* A request that fails leaves what was there when it began.
LEMMA RequestFails ==
  ASSUME RequestsFit, NEW c \in Callers, task[c] # Idle, InOneUnit!Restore
  PROVE  AtRest(bills, held, out)' /\ Keeps
<1>1. bills' = before.bills /\ held' = before.held /\ out' = before.out
  BY DEF InOneUnit!Restore
<1>2. AtRest(before.bills, before.held, before.out) /\ Served(task[c], before.bills)
  BY DEF RequestsFit
<1>3. AtRest(bills, held, out)'
  BY <1>1, <1>2 DEF AtRest, GoodsLeft, OnlyWaiting
<1>4. Keeps
  BY <1>1, <1>2 DEF Served, Keeps, Issued
<1> QED BY <1>3, <1>4

\* What a request starts with is a task of the tables as they are.
LEMMA WorkToServe ==
  ASSUME RequestsFit, owner = NoOne, NEW b \in Bills, NEW t \in Tasks, t.bill = b, t.copy = bills[b],
         \/ t.kind = "cancel" /\ bills[b].state = "FINAL"
         \/ t.kind \in {"price", "edit", "discard"} /\ t.then = "end" /\ Editable(bills[b])
         \/ t.kind = "hold" /\ t.then \in {"let go", "park"} /\ Editable(bills[b])
         \/ t.kind = "hold" /\ t.then = "issue" /\ bills[b].state \in {"DRAFT", "PENDING_APPROVAL"}
  PROVE  Served(t, bills)
<1>1. OnlyWaiting(bills, held, Bills)
  BY DEF RequestsFit
<1>2. OnlyWaiting(bills, held, Bills \ {b}) /\ (held[b] # 0 => bills[b].state = "PENDING_APPROVAL")
  BY <1>1 DEF OnlyWaiting
<1> QED BY <1>2 DEF Served, Editable

LEMMA WorkIs ==
  ASSUME NEW kind \in Kinds, NEW b \in Bills, NEW copy \in Bill
  PROVE  /\ InOneUnit!Work(kind, b, copy) = Work(kind, b, copy) /\ Work(kind, b, copy) \in Tasks
         /\ \A then \in {"let go", "park", "issue"} : [Work(kind, b, copy) EXCEPT !.then = then] \in Tasks
         /\ \A then \in {"let go", "park", "issue"} : \A user \in Users :
              [Work(kind, b, copy) EXCEPT !.then = then, !.user = user] \in Tasks
         /\ \A says \in Contents : [Work(kind, b, copy) EXCEPT !.says = says] \in Tasks
BY DEF InOneUnit!Work, InOneUnit!NoOne, InOneUnit!Nothing, Work, NoOne, Nothing, Tasks, Users

LEMMA RequestsStart ==
  ASSUME RequestsFit, NEW c \in Callers, NEW b \in Bills,
         \/ \E says \in Contents : InOneUnit!StartDraft(c, b, says) \/ InOneUnit!StartEdit(c, b, says)
         \/ InOneUnit!StartCheck(c, b) \/ InOneUnit!StartSubmit(c, b)
         \/ InOneUnit!StartCancel(c, b) \/ InOneUnit!StartDiscard(c, b)
         \/ \E user \in InOneUnit!Users : InOneUnit!StartIssue(c, b, user)
  PROVE  RequestsFit' /\ Keeps
<1>0. bills[b] \in Bill /\ \A kind \in Kinds : InOneUnit!Work(kind, b, bills[b]) = Work(kind, b, bills[b])
  BY WorkIs DEF RequestsFit, GoodsLeft
<1>1. ASSUME NEW says \in Contents, InOneUnit!StartDraft(c, b, says) PROVE RequestsFit' /\ Keeps
  <2>0. InOneUnit!Begin(c) /\ UNCHANGED tables
    BY <1>1 DEF InOneUnit!StartDraft, InOneUnit!tables, tables
  <2>1. CASE bills[b].state = "NONE" /\ task' = [task EXCEPT ![c] = InOneUnit!Work("insert", b, InOneUnit!NewDraft(says))]
    <3>1. InOneUnit!NewDraft(says) \in Bill /\ InOneUnit!NewDraft(says).state = "DRAFT"
      BY DEF InOneUnit!NewDraft, InOneUnit!NoOne, NoOne, Bill, BillStates, Users
    <3> DEFINE t == Work("insert", b, InOneUnit!NewDraft(says))
    <3>2. t \in Tasks /\ task' = [task EXCEPT ![c] = t]
      BY <2>1, <3>1, WorkIs DEF Kinds
    <3>3. t.kind = "insert" /\ t.bill = b /\ t.copy = InOneUnit!NewDraft(says)
      BY DEF Work
    <3> HIDE DEF t
    <3>4. ASSUME owner = NoOne PROVE Served(t, bills)
      <4>1. OnlyWaiting(bills, held, Bills)
        BY <3>4 DEF RequestsFit
      <4> QED BY <2>1, <3>1, <3>3, <4>1 DEF Served, OnlyWaiting, Issued
    <3> QED BY <2>0, <3>2, <3>4, RequestBegins
  <2>2. CASE bills[b].state = "DRAFT" /\ task' = [task EXCEPT ![c] = InOneUnit!Work("price", b, bills[b])]
    <3> DEFINE t == Work("price", b, bills[b])
    <3>1. t \in Tasks /\ task' = [task EXCEPT ![c] = t]
      BY <1>0, <2>2, WorkIs DEF Kinds
    <3>2. t.kind = "price" /\ t.bill = b /\ t.copy = bills[b] /\ t.then = "end"
      BY DEF Work
    <3> HIDE DEF t
    <3> QED BY <2>0, <2>2, <3>1, <3>2, RequestBegins, WorkToServe DEF Editable
  <2> QED BY <1>1, <2>1, <2>2 DEF InOneUnit!StartDraft
<1>2. ASSUME NEW says \in Contents, InOneUnit!StartEdit(c, b, says) PROVE RequestsFit' /\ Keeps
  <2> DEFINE t == [Work("edit", b, bills[b]) EXCEPT !.says = says]
  <2>0. t \in Tasks
    BY <1>0, WorkIs DEF Kinds
  <2>1. task' = [task EXCEPT ![c] = t] /\ Editable(bills[b]) /\ InOneUnit!Begin(c) /\ UNCHANGED tables
    BY <1>0, <1>2 DEF InOneUnit!StartEdit, InOneUnit!Editable, InOneUnit!tables, tables, Editable, Kinds
  <2>2. t.kind = "edit" /\ t.bill = b /\ t.copy = bills[b] /\ t.then = "end"
    BY DEF Work
  <2> HIDE DEF t
  <2> QED BY <2>0, <2>1, <2>2, RequestBegins, WorkToServe
<1>3. ASSUME InOneUnit!StartCheck(c, b) PROVE RequestsFit' /\ Keeps
  <2> DEFINE t == [Work("hold", b, bills[b]) EXCEPT !.then = "let go"]
  <2>1. t \in Tasks
    BY <1>0, WorkIs DEF Kinds, Users
  <2>2. task' = [task EXCEPT ![c] = t] /\ Editable(bills[b]) /\ InOneUnit!Begin(c) /\ UNCHANGED tables
    BY <1>0, <1>3 DEF InOneUnit!StartCheck, InOneUnit!Editable, InOneUnit!tables, tables, Editable, Kinds
  <2>3. t.kind = "hold" /\ t.bill = b /\ t.copy = bills[b] /\ t.then = "let go"
    BY DEF Work
  <2> HIDE DEF t
  <2> QED BY <2>1, <2>2, <2>3, RequestBegins, WorkToServe
<1>4. ASSUME InOneUnit!StartSubmit(c, b) PROVE RequestsFit' /\ Keeps
  <2> DEFINE t == [Work("hold", b, bills[b]) EXCEPT !.then = "park"]
  <2>1. t \in Tasks
    BY <1>0, WorkIs DEF Kinds, Users
  <2>2. task' = [task EXCEPT ![c] = t] /\ bills[b].state = "DRAFT" /\ InOneUnit!Begin(c) /\ UNCHANGED tables
    BY <1>0, <1>4 DEF InOneUnit!StartSubmit, InOneUnit!tables, tables, Kinds
  <2>3. t.kind = "hold" /\ t.bill = b /\ t.copy = bills[b] /\ t.then = "park"
    BY DEF Work
  <2> HIDE DEF t
  <2> QED BY <2>1, <2>2, <2>3, RequestBegins, WorkToServe DEF Editable
<1>5. ASSUME InOneUnit!StartCancel(c, b) PROVE RequestsFit' /\ Keeps
  <2> DEFINE t == Work("cancel", b, bills[b])
  <2>1. t \in Tasks
    BY <1>0, WorkIs DEF Kinds
  <2>2. task' = [task EXCEPT ![c] = t] /\ bills[b].state = "FINAL" /\ InOneUnit!Begin(c) /\ UNCHANGED tables
    BY <1>0, <1>5 DEF InOneUnit!StartCancel, InOneUnit!tables, tables, Kinds
  <2>3. t.kind = "cancel" /\ t.bill = b /\ t.copy = bills[b]
    BY DEF Work
  <2> HIDE DEF t
  <2> QED BY <2>1, <2>2, <2>3, RequestBegins, WorkToServe
<1>6. ASSUME InOneUnit!StartDiscard(c, b) PROVE RequestsFit' /\ Keeps
  <2> DEFINE t == Work("discard", b, bills[b])
  <2>1. t \in Tasks
    BY <1>0, WorkIs DEF Kinds
  <2>2. task' = [task EXCEPT ![c] = t] /\ Editable(bills[b]) /\ InOneUnit!Begin(c) /\ UNCHANGED tables
    BY <1>0, <1>6 DEF InOneUnit!StartDiscard, InOneUnit!Editable, InOneUnit!tables, tables, Editable, Kinds
  <2>3. t.kind = "discard" /\ t.bill = b /\ t.copy = bills[b] /\ t.then = "end"
    BY DEF Work
  <2> HIDE DEF t
  <2> QED BY <2>1, <2>2, <2>3, RequestBegins, WorkToServe
<1>7. ASSUME NEW user \in Users, InOneUnit!StartIssue(c, b, user) PROVE RequestsFit' /\ Keeps
  <2> DEFINE t == [Work("hold", b, bills[b]) EXCEPT !.then = "issue", !.user = user]
  <2>1. t \in Tasks
    BY <1>0, WorkIs DEF Kinds
  <2>2. task' = [task EXCEPT ![c] = t] /\ bills[b].state \in {"DRAFT", "PENDING_APPROVAL"} /\ InOneUnit!Begin(c) /\ UNCHANGED tables
    BY <1>0, <1>7 DEF InOneUnit!StartIssue, InOneUnit!tables, tables, Kinds
  <2>3. t.kind = "hold" /\ t.bill = b /\ t.copy = bills[b] /\ t.then = "issue"
    BY DEF Work
  <2> HIDE DEF t
  <2> QED BY <2>1, <2>2, <2>3, RequestBegins, WorkToServe
<1> QED BY <1>1, <1>2, <1>3, <1>4, <1>5, <1>6, <1>7 DEF InOneUnit!Users, Users

LEMMA InRequest ==
  ASSUME RequestsFit, NEW c \in Callers, task[c].kind # "idle"
  PROVE  /\ task[c] \in Tasks /\ task[c] # Idle /\ Served(task[c], before.bills)
         /\ task[c].bill \in Bills /\ bills[task[c].bill] \in Bill /\ task[c].copy \in Bill
         /\ GoodsLeft(bills, out) /\ held \in [Bills -> Nat]
<1>1. task[c] # Idle
  BY DEF Idle
<1> QED BY <1>1 DEF RequestsFit, GoodsLeft, Tasks

\* The request's bill is written, and is no issued bill.
LEMMA BillRewritten ==
  ASSUME RequestsFit, NEW b \in Bills, NEW x \in Bill, bills' = [bills EXCEPT ![b] = x], UNCHANGED <<held, out>>,
         OnlyWaiting(bills, held, Bills \ {b}), ~Issued(bills[b]), x.state # "FINAL",
         bills[b].state = "PENDING_APPROVAL" => x.state \notin {"NONE", "GONE"}
  PROVE  /\ GoodsLeft(bills, out)' /\ held' \in [Bills -> Nat] /\ Keeps /\ bills'[b] = x
         /\ \A o \in Bills \ {b} : bills'[o] = bills[o]
         /\ OnlyWaiting(bills, held, Bills \ {b})'
         /\ held[b] = 0 \/ x.state = "PENDING_APPROVAL" => AtRest(bills, held, out)'
<1>1. bills'[b] = x /\ \A o \in Bills \ {b} : bills'[o] = bills[o]
  BY DEF RequestsFit, GoodsLeft
<1>2. GoodsLeft(bills, out)'
  BY <1>1 DEF RequestsFit, GoodsLeft, Issued
<1>3. OnlyWaiting(bills, held, Bills \ {b})'
  BY <1>1 DEF OnlyWaiting
<1>4. Keeps
  BY <1>1 DEF Keeps
<1>5. held[b] = 0 \/ x.state = "PENDING_APPROVAL" => AtRest(bills, held, out)'
  BY <1>1, <1>2, <1>3 DEF RequestsFit, AtRest, OnlyWaiting
<1> QED BY <1>1, <1>2, <1>3, <1>4, <1>5 DEF RequestsFit

\* The request's hold is taken or let go.
LEMMA HoldChanged ==
  ASSUME RequestsFit, NEW b \in Bills, NEW n \in Nat, held' = [held EXCEPT ![b] = n], UNCHANGED <<bills, out>>,
         OnlyWaiting(bills, held, Bills \ {b})
  PROVE  /\ GoodsLeft(bills, out)' /\ held' \in [Bills -> Nat] /\ Keeps /\ held'[b] = n
         /\ OnlyWaiting(bills, held, Bills \ {b})'
         /\ n = 0 => AtRest(bills, held, out)'
<1>1. held' \in [Bills -> Nat] /\ held'[b] = n /\ \A o \in Bills \ {b} : held'[o] = held[o]
  BY DEF RequestsFit
<1>2. GoodsLeft(bills, out)' /\ Keeps
  BY DEF RequestsFit, GoodsLeft, Keeps
<1>3. OnlyWaiting(bills, held, Bills \ {b})'
  BY <1>1 DEF OnlyWaiting
<1> QED BY <1>1, <1>2, <1>3 DEF AtRest, OnlyWaiting

LEMMA RequestEnded ==
  ASSUME RequestsFit, NEW c \in Callers, task[c].kind # "idle", InOneUnit!End(c), AtRest(bills, held, out)'
  PROVE  RequestsFit'
<1>1. task' = [task EXCEPT ![c] = Idle] /\ owner' = NoOne
  BY DEF InOneUnit!End, InOneUnit!Idle, InOneUnit!NoOne, Idle, NoOne
<1> QED BY <1>1, InRequest, RequestEnds

LEMMA RequestFailed ==
  ASSUME RequestsFit, NEW c \in Callers, task[c].kind # "idle", InOneUnit!Fail(c)
  PROVE  RequestsFit' /\ Keeps
<1>1. InOneUnit!Restore /\ InOneUnit!End(c)
  BY DEF InOneUnit!Fail, InOneUnit!Undone
<1>2. AtRest(bills, held, out)' /\ Keeps
  BY <1>1, InRequest, RequestFails
<1> QED BY <1>1, <1>2, RequestEnded

LEMMA RequestCrashed ==
  ASSUME RequestsFit, NEW c \in Callers, InOneUnit!Crash(c)
  PROVE  RequestsFit' /\ Keeps
<1>1. task[c] # Idle /\ InOneUnit!Restore /\ task' = [task EXCEPT ![c] = Idle] /\ owner' = NoOne
  BY DEF InOneUnit!Crash, InOneUnit!Undone, InOneUnit!Idle, InOneUnit!NoOne, Idle, NoOne
<1>2. AtRest(bills, held, out)' /\ Keeps
  BY <1>1, RequestFails
<1> QED BY <1>1, <1>2, RequestEnds

LEMMA RequestCounts ==
  ASSUME RequestsFit, NEW n \in Counts, InOneUnit!Count(n)
  PROVE  RequestsFit' /\ Keeps
<1>1. owner = NoOne /\ UNCHANGED <<bills, held, out, task, owner, before>>
  BY DEF InOneUnit!Count, InOneUnit!NoOne, NoOne
<1>2. \A o \in Callers : task[o] = Idle
  BY <1>1, SalesAssumption DEF RequestsFit
<1>3. GoodsLeft(bills, out)' /\ OnlyWaiting(bills, held, Bills)' /\ Keeps
  BY <1>1 DEF RequestsFit, GoodsLeft, OnlyWaiting, Keeps
<1> QED BY <1>1, <1>2, <1>3 DEF RequestsFit

LEMMA SameOperators ==
  /\ \A x : InOneUnit!Bumped(x) = Bumped(x)
  /\ \A x : InOneUnit!Priced(x) = Priced(x)
BY DEF InOneUnit!Bumped, InOneUnit!Priced, Bumped, Priced

\* The steps that write a bill nobody has issued: price, edit, find goods short,
\* clear, park.
LEMMA RequestInserts ==
  ASSUME RequestsFit, NEW c \in Callers, InOneUnit!Insert(c)
  PROVE  RequestsFit' /\ Keeps
<1>1. task[c].kind = "insert"
  BY DEF InOneUnit!Insert, InOneUnit!At
<1>2. PICK b \in Bills, x \in Bill : b = task[c].bill /\ x = task[c].copy /\ bills[b] \in Bill
  BY <1>1, InRequest
<1>3. task[c] # Idle /\ Served(task[c], before.bills)
  BY <1>1, InRequest
<1>4. /\ bills[b].state = "NONE" /\ x.state = "DRAFT" /\ OnlyWaiting(bills, held, Bills \ {b}) /\ held[b] = 0
      /\ \A o \in Bills \ {b} : bills[o] = before.bills[o]
  BY <1>1, <1>2, <1>3 DEF Served
<1>5. bills' = [bills EXCEPT ![b] = x] /\ UNCHANGED <<held, out>> /\ InOneUnit!Then(c, InOneUnit!Work("price", b, x))
  BY <1>2, <1>4 DEF InOneUnit!Insert, InOneUnit!stock
<1>k. "price" \in Kinds
  BY DEF Kinds
<1>6. PICK t \in Tasks : t = Work("price", b, x) /\ t = InOneUnit!Work("price", b, x)
  BY <1>k, WorkIs
<1>7. t.kind = "price" /\ t.bill = b /\ t.copy = x /\ t.then = "end"
  BY <1>6 DEF Work
<1>8. /\ GoodsLeft(bills, out)' /\ held' \in [Bills -> Nat] /\ Keeps /\ bills'[b] = x
      /\ (\A o \in Bills \ {b} : bills'[o] = bills[o]) /\ OnlyWaiting(bills, held, Bills \ {b})'
  <2>1. ~Issued(bills[b]) /\ bills[b].state # "PENDING_APPROVAL" /\ x.state # "FINAL"
    BY <1>4 DEF Issued
  <2> QED BY <1>4, <1>5, <2>1, BillRewritten
<1>9. held'[b] = 0 /\ before' = before
  BY <1>4, <1>5 DEF InOneUnit!Then
<1>10. Served(t, before.bills)'
  BY <1>4, <1>7, <1>8, <1>9 DEF Served, Editable, Issued
<1>11. InOneUnit!Then(c, t)
  BY <1>5, <1>6
<1> QED BY <1>3, <1>8, <1>10, <1>11, RequestGoesOn

LEMMA RequestPrices ==
  ASSUME RequestsFit, NEW c \in Callers, InOneUnit!Price(c)
  PROVE  RequestsFit' /\ Keeps
<1> DEFINE b == task[c].bill
<1>1. task[c].kind = "price"
  BY DEF InOneUnit!Price, InOneUnit!At
<1>2. task[c] \in Tasks /\ Served(task[c], before.bills) /\ b \in Bills /\ bills[b] \in Bill
  BY <1>1, InRequest
<1>3. task[c].copy = bills[b] /\ Editable(bills[b]) /\ OnlyWaiting(bills, held, Bills \ {b}) /\ held[b] = 0
  BY <1>1, <1>2 DEF Served, Editable
<1>4. PICK x \in Bill : x = Priced(bills[b]) /\ x.state \in {"DRAFT", "NEEDS_INFO"} /\ ~Issued(bills[b])
  BY <1>2, <1>3, PricedDraft
<1>5. bills' = [bills EXCEPT ![b] = x] /\ UNCHANGED <<held, out>> /\ InOneUnit!End(c)
  BY <1>3, <1>4, SameOperators DEF InOneUnit!Price, InOneUnit!Save, InOneUnit!stock
<1> HIDE DEF b
<1>6. AtRest(bills, held, out)' /\ Keeps
  BY <1>2, <1>3, <1>4, <1>5, BillRewritten
<1> QED BY <1>1, <1>5, <1>6, RequestEnded

LEMMA RequestEdits ==
  ASSUME RequestsFit, NEW c \in Callers, InOneUnit!Edit(c)
  PROVE  RequestsFit' /\ Keeps
<1>1. task[c].kind = "edit"
  BY DEF InOneUnit!Edit, InOneUnit!At
<1>2. task[c] \in Tasks /\ task[c] # Idle /\ Served(task[c], before.bills) /\ task[c].says \in Contents \cup {Nothing}
  BY <1>1, InRequest DEF Tasks
<1>3. PICK b \in Bills : b = task[c].bill /\ bills[b] \in Bill
  BY <1>1, InRequest
<1>4. /\ task[c].copy = bills[b] /\ Editable(bills[b]) /\ OnlyWaiting(bills, held, Bills \ {b}) /\ held[b] = 0
      /\ \A o \in Bills \ {b} : bills[o] = before.bills[o]
  BY <1>1, <1>2, <1>3 DEF Served, Editable
<1>5. PICK x \in Bill : x = [Bumped(bills[b]) EXCEPT !.state = "DRAFT", !.says = task[c].says]
                       /\ x.state = "DRAFT" /\ ~Issued(bills[b])
  BY <1>2, <1>3, <1>4, EditedDraft
<1>6. bills' = [bills EXCEPT ![b] = x] /\ UNCHANGED <<held, out>> /\ InOneUnit!Then(c, InOneUnit!Work("price", b, x))
  BY <1>3, <1>4, <1>5, SameOperators DEF InOneUnit!Edit, InOneUnit!Save, InOneUnit!stock
<1>k. "price" \in Kinds
  BY DEF Kinds
<1>7. PICK t \in Tasks : t = Work("price", b, x) /\ t = InOneUnit!Work("price", b, x)
  BY <1>k, WorkIs
<1>8. t.kind = "price" /\ t.bill = b /\ t.copy = x /\ t.then = "end"
  BY <1>7 DEF Work
<1>9. /\ GoodsLeft(bills, out)' /\ held' \in [Bills -> Nat] /\ Keeps /\ bills'[b] = x
      /\ (\A o \in Bills \ {b} : bills'[o] = bills[o]) /\ OnlyWaiting(bills, held, Bills \ {b})'
  <2>1. bills[b].state # "PENDING_APPROVAL"
    BY <1>4 DEF Editable
  <2> QED BY <1>4, <1>5, <1>6, <2>1, BillRewritten
<1>10. held'[b] = 0 /\ before' = before
  BY <1>4, <1>6 DEF InOneUnit!Then
<1>11. Served(t, before.bills)'
  BY <1>4, <1>5, <1>8, <1>9, <1>10 DEF Served, Editable, Issued
<1>12. InOneUnit!Then(c, t)
  BY <1>6, <1>7
<1> QED BY <1>2, <1>9, <1>11, <1>12, RequestGoesOn

LEMMA RequestShort ==
  ASSUME RequestsFit, NEW c \in Callers, InOneUnit!Short(c)
  PROVE  RequestsFit' /\ Keeps
<1> DEFINE b == task[c].bill
<1>1. task[c].kind = "short" /\ InOneUnit!End(c)
  BY DEF InOneUnit!Short, InOneUnit!At
<1>2. task[c] \in Tasks /\ task[c] # Idle /\ Served(task[c], before.bills) /\ b \in Bills /\ bills[b] \in Bill
  BY <1>1, InRequest
<1>3. CASE task[c].then = "issue"
  <2>1. InOneUnit!Restore
    BY <1>3 DEF InOneUnit!Short
  <2>2. AtRest(bills, held, out)' /\ Keeps
    BY <1>2, <2>1, RequestFails
  <2> QED BY <1>1, <2>2, RequestEnded
<1>4. CASE task[c].then # "issue"
  <2>1. task[c].copy = bills[b] /\ Editable(bills[b]) /\ OnlyWaiting(bills, held, Bills \ {b}) /\ held[b] = 0
    BY <1>1, <1>2, <1>4 DEF Served, Editable
  <2>2. PICK x \in Bill : x = [Bumped(bills[b]) EXCEPT !.state = "NEEDS_INFO"] /\ x.state = "NEEDS_INFO"
    <3>1. "NEEDS_INFO" \in BillStates
      BY DEF BillStates
    <3> QED BY <1>2, <3>1, InState
  <2>3. bills' = [bills EXCEPT ![b] = x] /\ UNCHANGED <<held, out>>
    BY <1>4, <2>1, <2>2, SameOperators DEF InOneUnit!Short, InOneUnit!Save, InOneUnit!stock
  <2> HIDE DEF b
  <2>4. AtRest(bills, held, out)' /\ Keeps
    BY <1>2, <2>1, <2>2, <2>3, BillRewritten DEF Editable, Issued
  <2> QED BY <1>1, <2>4, RequestEnded
<1> QED BY <1>3, <1>4

LEMMA RequestClears ==
  ASSUME RequestsFit, NEW c \in Callers, InOneUnit!Clear(c)
  PROVE  RequestsFit' /\ Keeps
<1> DEFINE b == task[c].bill
<1>1. task[c].kind = "clear" /\ InOneUnit!End(c)
  BY DEF InOneUnit!Clear, InOneUnit!At
<1>2. task[c] \in Tasks /\ Served(task[c], before.bills) /\ b \in Bills /\ bills[b] \in Bill
  BY <1>1, InRequest
<1>3. task[c].copy = bills[b] /\ Editable(bills[b]) /\ OnlyWaiting(bills, held, Bills \ {b}) /\ held[b] = 0
  BY <1>1, <1>2 DEF Served, Editable
<1>4. PICK x \in Bill : x = [Bumped(bills[b]) EXCEPT !.state = "DRAFT"] /\ x.state = "DRAFT"
  <2>1. "DRAFT" \in BillStates
    BY DEF BillStates
  <2> QED BY <1>2, <2>1, InState
<1>5. bills' = [bills EXCEPT ![b] = x] /\ UNCHANGED <<held, out>>
  BY <1>3, <1>4, SameOperators DEF InOneUnit!Clear, InOneUnit!Save, InOneUnit!stock
<1> HIDE DEF b
<1>6. AtRest(bills, held, out)' /\ Keeps
  BY <1>2, <1>3, <1>4, <1>5, BillRewritten DEF Editable, Issued
<1> QED BY <1>1, <1>6, RequestEnded

LEMMA RequestParks ==
  ASSUME RequestsFit, NEW c \in Callers, InOneUnit!Park(c)
  PROVE  RequestsFit' /\ Keeps
<1> DEFINE b == task[c].bill
<1>1. task[c].kind = "park" /\ InOneUnit!End(c)
  BY DEF InOneUnit!Park, InOneUnit!At
<1>2. task[c] \in Tasks /\ Served(task[c], before.bills) /\ b \in Bills /\ bills[b] \in Bill
  BY <1>1, InRequest
<1>3. task[c].copy = bills[b] /\ Editable(bills[b]) /\ OnlyWaiting(bills, held, Bills \ {b})
  BY <1>1, <1>2 DEF Served, Editable
<1>4. PICK x \in Bill : x = [Bumped(bills[b]) EXCEPT !.state = "PENDING_APPROVAL"] /\ x.state = "PENDING_APPROVAL"
  BY <1>2, InState DEF BillStates
<1>5. bills' = [bills EXCEPT ![b] = x] /\ UNCHANGED <<held, out>>
  BY <1>3, <1>4, SameOperators DEF InOneUnit!Park, InOneUnit!Save, InOneUnit!stock
<1> HIDE DEF b
<1>6. AtRest(bills, held, out)' /\ Keeps
  BY <1>2, <1>3, <1>4, <1>5, BillRewritten DEF Editable, Issued
<1> QED BY <1>1, <1>6, RequestEnded

\* Taking a hold: all that the bill asks for, or the bill is short.
LEMMA RequestHolds ==
  ASSUME RequestsFit, NEW c \in Callers, InOneUnit!Hold(c)
  PROVE  RequestsFit' /\ Keeps
<1>1. task[c].kind = "hold"
  BY DEF InOneUnit!Hold, InOneUnit!At
<1>2. task[c] \in Tasks /\ task[c] # Idle /\ Served(task[c], before.bills)
  BY <1>1, InRequest
<1>3. PICK b \in Bills : b = task[c].bill /\ bills[b] \in Bill
  BY <1>1, InRequest
<1>4. /\ task[c].copy = bills[b] /\ OnlyWaiting(bills, held, Bills \ {b}) /\ task[c].then # "end"
      /\ Editable(bills[b]) \/ (bills[b].state = "PENDING_APPROVAL" /\ task[c].then = "issue")
      /\ bills[b].state = "PENDING_APPROVAL" => bills[b] = before.bills[b]
      /\ \A o \in Bills \ {b} : bills[o] = before.bills[o]
  BY <1>1, <1>2, <1>3 DEF Served, Editable
<1>5. PICK n \in Nat : /\ held' = [held EXCEPT ![b] = n] /\ n \in {0, bills[b].says.qty}
                      /\ UNCHANGED <<bills, out>>
                      /\ InOneUnit!Then(c, [task[c] EXCEPT !.kind = IF held'[b] = 0 THEN "short" ELSE task[c].then])
  <2>1. bills[b].says.qty \in Nat
    BY <1>3, SalesAssumption DEF Bill, Nothing
  <2>2. /\ InOneUnit!Reserve(b, bills[b].says.qty) /\ UNCHANGED bills
        /\ InOneUnit!Then(c, [task[c] EXCEPT !.kind = IF held'[b] = 0 THEN "short" ELSE task[c].then])
    BY <1>3, <1>4 DEF InOneUnit!Hold
  <2>3. /\ UNCHANGED out
        /\ held' = [held EXCEPT ![b] = 0] \/ held' = [held EXCEPT ![b] = bills[b].says.qty]
    BY <2>2 DEF InOneUnit!Reserve
  <2> QED BY <2>1, <2>2, <2>3
<1>6. /\ GoodsLeft(bills, out)' /\ held' \in [Bills -> Nat] /\ Keeps /\ held'[b] = n
      /\ OnlyWaiting(bills, held, Bills \ {b})'
  BY <1>4, <1>5, HoldChanged
<1>7. PICK t : t = [task[c] EXCEPT !.kind = IF n = 0 THEN "short" ELSE task[c].then] /\ InOneUnit!Then(c, t)
  BY <1>5, <1>6
<1>8. /\ t \in Tasks /\ t.bill = b /\ t.copy = bills[b] /\ t.then = task[c].then
      /\ t.kind = IF n = 0 THEN "short" ELSE task[c].then
  BY <1>2, <1>3, <1>4, <1>7 DEF Tasks, Kinds
<1>9. task[c].then \in {"let go", "park", "issue"}
  BY <1>2, <1>4 DEF Tasks
<1>10. before' = before
  BY <1>7 DEF InOneUnit!Then
<1>11. Served(t, before.bills)'
  <2>1. ~Issued(bills[b])
    BY <1>4 DEF Editable, Issued
  <2> QED BY <1>4, <1>5, <1>6, <1>8, <1>9, <1>10, <2>1 DEF Served, Editable, Issued
<1> QED BY <1>2, <1>6, <1>7, <1>8, <1>11, RequestGoesOn

LEMMA RequestLetsGo ==
  ASSUME RequestsFit, NEW c \in Callers, InOneUnit!LetGo(c)
  PROVE  RequestsFit' /\ Keeps
<1>1. task[c].kind = "let go"
  BY DEF InOneUnit!LetGo, InOneUnit!At
<1>2. task[c] \in Tasks /\ task[c] # Idle /\ Served(task[c], before.bills)
  BY <1>1, InRequest
<1>3. PICK b \in Bills : b = task[c].bill /\ bills[b] \in Bill
  BY <1>1, InRequest
<1>4. /\ task[c].copy = bills[b] /\ OnlyWaiting(bills, held, Bills \ {b}) /\ task[c].then # "issue" /\ Editable(bills[b])
      /\ \A o \in Bills \ {b} : bills[o] = before.bills[o]
  BY <1>1, <1>2, <1>3 DEF Served, Editable
<1>5. /\ held' = [held EXCEPT ![b] = 0] /\ UNCHANGED <<bills, out>>
      /\ (InOneUnit!End(c) \/ InOneUnit!Then(c, [task[c] EXCEPT !.kind = "clear"]))
  BY <1>3 DEF InOneUnit!LetGo, InOneUnit!Release
<1>6. /\ GoodsLeft(bills, out)' /\ held' \in [Bills -> Nat] /\ Keeps /\ held'[b] = 0
      /\ OnlyWaiting(bills, held, Bills \ {b})' /\ AtRest(bills, held, out)'
  BY <1>4, <1>5, HoldChanged
<1>7. CASE InOneUnit!End(c)
  BY <1>1, <1>6, <1>7, RequestEnded
<1>8. CASE InOneUnit!Then(c, [task[c] EXCEPT !.kind = "clear"])
  <2>1. PICK t : t = [task[c] EXCEPT !.kind = "clear"]
    OBVIOUS
  <2>2. t \in Tasks /\ t.bill = b /\ t.copy = bills[b] /\ t.then = task[c].then /\ t.kind = "clear"
    BY <1>2, <1>3, <1>4, <2>1 DEF Tasks, Kinds
  <2>3. before' = before
    BY <1>8 DEF InOneUnit!Then
  <2>4. Served(t, before.bills)'
    BY <1>4, <1>5, <1>6, <2>2, <2>3 DEF Served, Editable, Issued
  <2>5. InOneUnit!Then(c, t)
    BY <1>8, <2>1
  <2> QED BY <1>2, <1>6, <2>2, <2>4, <2>5, RequestGoesOn
<1> QED BY <1>5, <1>7, <1>8

LEMMA RequestDiscards ==
  ASSUME RequestsFit, NEW c \in Callers, InOneUnit!Discard(c)
  PROVE  RequestsFit' /\ Keeps
<1>1. task[c].kind = "discard"
  BY DEF InOneUnit!Discard, InOneUnit!At
<1>2. task[c] \in Tasks /\ task[c] # Idle /\ Served(task[c], before.bills)
  BY <1>1, InRequest
<1>3. PICK b \in Bills : b = task[c].bill /\ bills[b] \in Bill
  BY <1>1, InRequest
<1>4. /\ task[c].copy = bills[b] /\ OnlyWaiting(bills, held, Bills \ {b}) /\ task[c].then # "issue" /\ Editable(bills[b])
      /\ \A o \in Bills \ {b} : bills[o] = before.bills[o]
  BY <1>1, <1>2, <1>3 DEF Served, Editable
<1>5. /\ held' = [held EXCEPT ![b] = 0] /\ UNCHANGED <<bills, out>>
      /\ InOneUnit!Then(c, [task[c] EXCEPT !.kind = "remove"])
  BY <1>3 DEF InOneUnit!Discard, InOneUnit!Release
<1>6. /\ GoodsLeft(bills, out)' /\ held' \in [Bills -> Nat] /\ Keeps /\ held'[b] = 0
      /\ OnlyWaiting(bills, held, Bills \ {b})'
  BY <1>4, <1>5, HoldChanged
<1>7. PICK t : t = [task[c] EXCEPT !.kind = "remove"]
  OBVIOUS
<1>8. t \in Tasks /\ t.bill = b /\ t.copy = bills[b] /\ t.then = task[c].then /\ t.kind = "remove"
  BY <1>2, <1>3, <1>4, <1>7 DEF Tasks, Kinds
<1>9. before' = before
  BY <1>5 DEF InOneUnit!Then
<1>10. Served(t, before.bills)'
  BY <1>4, <1>5, <1>6, <1>8, <1>9 DEF Served, Editable, Issued
<1>11. InOneUnit!Then(c, t)
  BY <1>5, <1>7
<1> QED BY <1>2, <1>6, <1>8, <1>10, <1>11, RequestGoesOn

\* The bill's hold leaves the godown, all of it.
LEMMA RequestIssues ==
  ASSUME RequestsFit, sequence \in Nat, NEW c \in Callers, InOneUnit!Issue(c)
  PROVE  RequestsFit' /\ Keeps
<1>1. task[c].kind = "issue"
  BY DEF InOneUnit!Issue, InOneUnit!At
<1>2. task[c] \in Tasks /\ task[c] # Idle /\ Served(task[c], before.bills)
  BY <1>1, InRequest
<1>3. PICK b \in Bills : b = task[c].bill /\ bills[b] \in Bill /\ GoodsLeft(bills, out) /\ held \in [Bills -> Nat]
  BY <1>1, InRequest
<1>4. /\ task[c].copy = bills[b] /\ OnlyWaiting(bills, held, Bills \ {b}) /\ held[b] = bills[b].says.qty
      /\ Editable(bills[b]) \/ bills[b].state = "PENDING_APPROVAL"
  BY <1>1, <1>2, <1>3 DEF Served, Editable
<1>5. InOneUnit!Current(c)
  BY <1>3, <1>4 DEF InOneUnit!Current, InOneUnit!Exists, Editable
<1>6. PICK who \in Users \cup {NoOne} :
        /\ bills' = [bills EXCEPT ![b] = [Bumped(bills[b]) EXCEPT !.state = "FINAL", !.number = sequence + 1, !.approvedBy = who]]
        /\ InOneUnit!IssueGoods(b) /\ InOneUnit!End(c)
  <2>1. InOneUnit!NoOne = NoOne /\ task[c].user \in Users \cup {NoOne}
    BY <1>2 DEF InOneUnit!NoOne, NoOne, Tasks
  <2> QED BY <1>3, <1>4, <1>5, <2>1, SameOperators DEF InOneUnit!Issue, InOneUnit!Save
<1>7. held' = [held EXCEPT ![b] = 0] /\ out' = [out EXCEPT ![b] = @ + held[b]]
  BY <1>6 DEF InOneUnit!IssueGoods
<1>8. out' \in [Bills -> Nat] /\ out'[b] = bills[b].says.qty /\ \A o \in Bills \ {b} : out'[o] = out[o]
  BY <1>3, <1>4, <1>7 DEF GoodsLeft, Editable
<1>9. PICK x : x = [Bumped(bills[b]) EXCEPT !.state = "FINAL", !.number = sequence + 1, !.approvedBy = who]
  OBVIOUS
<1>10. x \in Bill /\ x.state = "FINAL" /\ x.says = bills[b].says
  <2>1. PICK v \in Nat, n \in Nat : v = bills[b].version + 1 /\ n = sequence + 1
    BY <1>3 DEF Bill
  <2>2. x = [bills[b] EXCEPT !.version = v, !.state = "FINAL", !.number = n, !.approvedBy = who]
    BY <1>9, <2>1 DEF Bumped
  <2> QED BY <1>3, <2>2 DEF Bill, BillStates
<1>11. bills'[b] = x /\ bills' \in [Bills -> Bill] /\ \A o \in Bills \ {b} : bills'[o] = bills[o]
  BY <1>3, <1>6, <1>9, <1>10 DEF GoodsLeft
<1>12. held' \in [Bills -> Nat] /\ held'[b] = 0 /\ \A o \in Bills \ {b} : held'[o] = held[o]
  BY <1>3, <1>7
<1>13. GoodsLeft(bills, out)'
  BY <1>3, <1>8, <1>10, <1>11 DEF GoodsLeft
<1>14. AtRest(bills, held, out)'
  BY <1>4, <1>11, <1>12, <1>13 DEF AtRest, OnlyWaiting
<1>15. Keeps
  BY <1>4, <1>10, <1>11 DEF Keeps, Issued, Editable
<1> QED BY <1>1, <1>6, <1>14, <1>15, RequestEnded

LEMMA RequestCancels ==
  ASSUME RequestsFit, NEW c \in Callers, InOneUnit!Cancel(c)
  PROVE  RequestsFit' /\ Keeps
<1>1. task[c].kind = "cancel"
  BY DEF InOneUnit!Cancel, InOneUnit!At
<1>2. task[c] \in Tasks /\ task[c] # Idle /\ Served(task[c], before.bills)
  BY <1>1, InRequest
<1>3. PICK b \in Bills : b = task[c].bill /\ bills[b] \in Bill /\ GoodsLeft(bills, out) /\ held \in [Bills -> Nat]
  BY <1>1, InRequest
<1>4. /\ task[c].copy = bills[b] /\ OnlyWaiting(bills, held, Bills \ {b}) /\ held[b] = 0
      /\ bills[b].state = "FINAL"
  BY <1>1, <1>2, <1>3 DEF Served
<1>5. PICK x \in Bill : x = [Bumped(bills[b]) EXCEPT !.state = "CANCELLED"] /\ x.state = "CANCELLED"
  <2>1. "CANCELLED" \in BillStates
    BY DEF BillStates
  <2> QED BY <1>3, <2>1, InState
<1>6. /\ bills' = [bills EXCEPT ![b] = x] /\ held' = held /\ out' = [out EXCEPT ![b] = 0] /\ InOneUnit!End(c)
  BY <1>3, <1>4, <1>5, SameOperators DEF InOneUnit!Cancel, InOneUnit!Save, InOneUnit!ReturnGoods
<1>7. bills'[b] = x /\ bills' \in [Bills -> Bill] /\ \A o \in Bills \ {b} : bills'[o] = bills[o]
  BY <1>3, <1>6 DEF GoodsLeft
<1>8. out' \in [Bills -> Nat] /\ out'[b] = 0 /\ \A o \in Bills \ {b} : out'[o] = out[o]
  BY <1>3, <1>6 DEF GoodsLeft
<1>9. GoodsLeft(bills, out)'
  BY <1>3, <1>5, <1>7, <1>8 DEF GoodsLeft
<1>10. AtRest(bills, held, out)'
  BY <1>3, <1>4, <1>6, <1>7, <1>9 DEF AtRest, OnlyWaiting
<1>11. Keeps
  BY <1>4, <1>5, <1>7 DEF Keeps
<1> QED BY <1>1, <1>6, <1>10, <1>11, RequestEnded

LEMMA RequestRemoves ==
  ASSUME RequestsFit, NEW c \in Callers, InOneUnit!Remove(c)
  PROVE  RequestsFit' /\ Keeps
<1>1. task[c].kind = "remove" /\ InOneUnit!End(c)
  BY DEF InOneUnit!Remove, InOneUnit!At
<1>2. task[c] \in Tasks /\ Served(task[c], before.bills)
  BY <1>1, InRequest
<1>3. PICK b \in Bills : b = task[c].bill /\ bills[b] \in Bill
  BY <1>1, InRequest
<1>4. OnlyWaiting(bills, held, Bills \ {b}) /\ held[b] = 0 /\ Editable(bills[b])
  BY <1>1, <1>2, <1>3 DEF Served, Editable
<1>5. PICK x \in Bill : x = Absent("GONE") /\ x.state = "GONE" /\ x = InOneUnit!Absent("GONE")
  BY DEF InOneUnit!Absent, InOneUnit!NoOne, InOneUnit!Nothing, Absent, NoOne, Nothing, Bill, BillStates
<1>6. bills' = [bills EXCEPT ![b] = x] /\ UNCHANGED <<held, out>>
  BY <1>3, <1>5 DEF InOneUnit!Remove, InOneUnit!stock
<1>7. AtRest(bills, held, out)' /\ Keeps
  <2>1. ~Issued(bills[b]) /\ bills[b].state # "PENDING_APPROVAL"
    BY <1>4 DEF Editable, Issued
  <2> QED BY <1>4, <1>5, <1>6, <2>1, BillRewritten
<1> QED BY <1>1, <1>7, RequestEnded

\* With one request at a time nobody loses a race.
LEMMA NobodyLoses ==
  ASSUME RequestsFit, NEW c \in Callers
  PROVE  ~InOneUnit!Look(c) /\ ~InOneUnit!PutBack(c)
<1>1. task[c].kind \notin {"look", "put back"}
  BY InRequest DEF Served
<1> QED BY <1>1 DEF InOneUnit!Look, InOneUnit!PutBack, InOneUnit!At

LEMMA RequestRefused ==
  ASSUME RequestsFit, NEW c \in Callers,
         InOneUnit!IssueRefused(c) \/ InOneUnit!Stale(c) \/ InOneUnit!RemoveRefused(c)
  PROVE  RequestsFit' /\ Keeps
<1>1. task[c].kind # "idle" /\ InOneUnit!Fail(c)
  BY DEF InOneUnit!IssueRefused, InOneUnit!Stale, InOneUnit!RemoveRefused, InOneUnit!At
<1> QED BY <1>1, RequestFailed

LEMMA RequestContinues ==
  ASSUME RequestsFit, sequence \in Nat, NEW c \in Callers, InOneUnit!Continue(c)
  PROVE  RequestsFit' /\ Keeps
BY NobodyLoses, RequestInserts, RequestPrices, RequestEdits, RequestHolds, RequestShort, RequestLetsGo,
   RequestClears, RequestParks, RequestIssues, RequestCancels, RequestDiscards, RequestRemoves, RequestRefused
   DEF InOneUnit!Continue

LEMMA RequestsNext ==
  RequestsFit /\ sequence \in Nat /\ [InOneUnit!Next]_vars => RequestsFit' /\ [Keeps]_vars
<1> SUFFICES ASSUME RequestsFit, sequence \in Nat, [InOneUnit!Next]_vars
             PROVE  RequestsFit' /\ [Keeps]_vars
  OBVIOUS
<1>1. CASE UNCHANGED vars
  <2>1. UNCHANGED <<bills, held, out, task, owner, before>>
    BY <1>1 DEF vars, tables
  <2>2. ASSUME NEW c \in Callers, task'[c] # Idle
        PROVE  owner' = c /\ (AtRest(before.bills, before.held, before.out) /\ Served(task[c], before.bills))'
    <3>1. owner = c /\ AtRest(before.bills, before.held, before.out) /\ Served(task[c], before.bills)
      BY <2>1, <2>2 DEF RequestsFit
    <3>2. Served(task[c], before.bills)'
      BY <2>1, <3>1 DEF Served, OnlyWaiting
    <3> QED BY <2>1, <3>1, <3>2 DEF AtRest, GoodsLeft, OnlyWaiting
  <2>3. GoodsLeft(bills, out)' /\ (owner' = NoOne => OnlyWaiting(bills, held, Bills)')
    BY <2>1 DEF RequestsFit, GoodsLeft, OnlyWaiting
  <2>4. RequestsFit'
    BY <2>1, <2>2, <2>3 DEF RequestsFit
  <2> QED BY <1>1, <2>4
<1>2. CASE InOneUnit!Next
  BY <1>2, RequestsStart, RequestContinues, RequestCrashed, RequestCounts DEF InOneUnit!Next
<1> QED BY <1>1, <1>2

\* The numbers drawn are numbers, also those put back.
Drawn == sequence \in Nat /\ \A c \in Callers : task[c] # Idle => before.sequence \in Nat

\* A step of a request leaves the sequence, draws from it or puts it back.
Draws(c) ==
  /\ task[c].kind # "idle" /\ sequence' \in {sequence, sequence + 1, before.sequence}
  /\ (\E t : InOneUnit!Then(c, t)) \/ InOneUnit!End(c)

LEMMA DrawsOrNot ==
  ASSUME RequestsFit, Drawn, NEW c \in Callers, Draws(c)
  PROVE  Drawn'
<1>1. sequence' \in Nat
  BY InRequest DEF Drawn, Draws
<1>2. \A o \in Callers \ {c} : task[o] = Idle
  BY SalesAssumption, InRequest DEF RequestsFit, Draws
<1>3. CASE \E t : InOneUnit!Then(c, t)
  <2>1. before' = before /\ \A o \in Callers \ {c} : task'[o] = Idle
    BY <1>2, <1>3 DEF InOneUnit!Then, RequestsFit
  <2>2. before.sequence \in Nat
    BY InRequest DEF Drawn, Draws
  <2> QED BY <1>1, <2>1, <2>2 DEF Drawn
<1>4. CASE InOneUnit!End(c)
  <2>1. task' = [task EXCEPT ![c] = Idle]
    BY <1>4 DEF InOneUnit!End, InOneUnit!Idle, Idle
  <2>2. \A o \in Callers : task'[o] = Idle
    BY <1>2, <2>1 DEF RequestsFit
  <2> QED BY <1>1, <2>2 DEF Drawn
<1> QED BY <1>3, <1>4 DEF Draws

LEMMA SequenceContinues ==
  ASSUME RequestsFit, NEW c \in Callers, InOneUnit!Continue(c)
  PROVE  Draws(c)
<1>1. CASE InOneUnit!Insert(c)
  BY <1>1 DEF InOneUnit!Insert, InOneUnit!At, InOneUnit!books, InOneUnit!tables, Draws
<1>2. CASE InOneUnit!Price(c) \/ InOneUnit!Clear(c) \/ InOneUnit!Park(c)
  BY <1>2 DEF InOneUnit!Price, InOneUnit!Clear, InOneUnit!Park, InOneUnit!At, InOneUnit!books, Draws
<1>3. CASE InOneUnit!Edit(c) \/ InOneUnit!Hold(c) \/ InOneUnit!LetGo(c) \/ InOneUnit!Discard(c)
  BY <1>3 DEF InOneUnit!Edit, InOneUnit!Hold, InOneUnit!LetGo, InOneUnit!Discard, InOneUnit!At, InOneUnit!books, Draws
<1>4. CASE InOneUnit!Short(c)
  BY <1>4 DEF InOneUnit!Short, InOneUnit!Restore, InOneUnit!At, InOneUnit!books, Draws
<1>5. CASE InOneUnit!Issue(c)
  BY <1>5 DEF InOneUnit!Issue, InOneUnit!At, InOneUnit!tables, Draws
<1>6. CASE InOneUnit!Cancel(c) \/ InOneUnit!Remove(c)
  BY <1>6 DEF InOneUnit!Cancel, InOneUnit!Remove, InOneUnit!At, InOneUnit!books, Draws
<1>7. CASE InOneUnit!IssueRefused(c) \/ InOneUnit!Stale(c) \/ InOneUnit!RemoveRefused(c)
  BY <1>7 DEF InOneUnit!IssueRefused, InOneUnit!Stale, InOneUnit!RemoveRefused, InOneUnit!Fail, InOneUnit!Undone,
     InOneUnit!Restore, InOneUnit!At, Draws
<1> QED BY <1>1, <1>2, <1>3, <1>4, <1>5, <1>6, <1>7, NobodyLoses DEF InOneUnit!Continue

LEMMA SequenceNext ==
  RequestsFit /\ Drawn /\ [InOneUnit!Next]_vars => Drawn'
<1> SUFFICES ASSUME RequestsFit, Drawn, [InOneUnit!Next]_vars
             PROVE  Drawn'
  OBVIOUS
<1>1. ASSUME NEW c \in Callers, InOneUnit!Begin(c), UNCHANGED sequence PROVE Drawn'
  <2>1. before'.sequence = sequence
    BY <1>1 DEF InOneUnit!Begin, InOneUnit!Snapshot
  <2> QED BY <1>1, <2>1 DEF Drawn
<1>2. ASSUME NEW c \in Callers, NEW b \in Bills,
             \/ \E says \in Contents : InOneUnit!StartDraft(c, b, says) \/ InOneUnit!StartEdit(c, b, says)
             \/ InOneUnit!StartCheck(c, b) \/ InOneUnit!StartSubmit(c, b)
             \/ InOneUnit!StartCancel(c, b) \/ InOneUnit!StartDiscard(c, b)
             \/ \E user \in InOneUnit!Users : InOneUnit!StartIssue(c, b, user)
      PROVE  Drawn'
  <2>1. InOneUnit!Begin(c) /\ UNCHANGED InOneUnit!tables
    BY <1>2 DEF InOneUnit!StartDraft, InOneUnit!StartEdit, InOneUnit!StartCheck, InOneUnit!StartSubmit,
       InOneUnit!StartCancel, InOneUnit!StartDiscard, InOneUnit!StartIssue
  <2> QED BY <1>1, <2>1 DEF InOneUnit!tables
<1>3. ASSUME NEW c \in Callers, InOneUnit!Crash(c) PROVE Drawn'
  <2>1. task[c] # Idle /\ sequence' = before.sequence /\ task' = [task EXCEPT ![c] = Idle]
    BY <1>3 DEF InOneUnit!Crash, InOneUnit!Undone, InOneUnit!Restore, InOneUnit!Idle, Idle
  <2>2. \A o \in Callers : task'[o] = Idle
    BY <2>1, SalesAssumption DEF RequestsFit
  <2> QED BY <2>1, <2>2 DEF Drawn
<1>4. ASSUME NEW n \in Counts, InOneUnit!Count(n) PROVE Drawn'
  BY <1>4 DEF InOneUnit!Count, InOneUnit!books, Drawn
<1>5. CASE UNCHANGED vars
  BY <1>5 DEF vars, tables, Drawn
<1> QED BY <1>2, <1>3, <1>4, <1>5, SequenceContinues, DrawsOrNot DEF InOneUnit!Next

-----------------------------------------------------------------------------
(* The challans, for any number of them, of bills and of goods               *)

Covered == lost = 0 => SumOver(kept, Callers) <= onHand

DeskFits ==
  /\ challan \in [Callers -> Desk!Papers \cup {None}] /\ sale \in [Bills -> Desk!Sales \cup {None}]
  /\ onHand \in Int /\ lost \in Nat /\ kept \in [Callers -> Nat]
  /\ \A c \in Callers : kept[c] = IF Desk!Open(c) THEN challan[c].qty ELSE 0
  /\ Desk!BilledIsOnRecord
  /\ Covered

LEMMA HeldIsSum == Desk!Held = SumOver(kept, Callers)
BY DEF Desk!Held, Desk!MapThenSumSet, Desk!MapThenFoldSet, SumOver, MapThenSumSet, MapThenFoldSet

LEMMA KeptMoves ==
  ASSUME kept \in [Callers -> Nat], NEW c \in Callers, NEW n \in Nat, kept' = [kept EXCEPT ![c] = n]
  PROVE  /\ SumOver(kept', Callers) = SumOver(kept, Callers) - kept[c] + n
         /\ SumOver(kept, Callers) \in Int
<1>1. PICK f, g : f = kept /\ g = kept'
  OBVIOUS
<1>2. IsFiniteSet(Callers) /\ (\A d \in Callers : f[d] \in Int /\ g[d] \in Int) /\ g[c] = n
      /\ \A d \in Callers \ {c} : f[d] = g[d]
  BY <1>1, GovernmentAssumption
<1>3. SumOver(g, Callers) = SumOver(f, Callers) - f[c] + g[c] /\ SumOver(f, Callers) \in Int
  BY <1>2, SumChanges
<1> QED BY <1>1, <1>2, <1>3

LEMMA DeskFirst == Desk!Init => DeskFits
<1> SUFFICES ASSUME Desk!Init PROVE DeskFits
  OBVIOUS
<1>1. /\ challan = [c \in Callers |-> None] /\ sale = [b \in Bills |-> None]
      /\ onHand = 3 /\ kept = [c \in Callers |-> 0] /\ lost = 0
  BY DEF Desk!Init
<1>2. SumOver(kept, Callers) = 0
  BY <1>1, GovernmentAssumption, SumOfNothings
<1> QED BY <1>1, <1>2 DEF DeskFits, Covered, Desk!Open, Desk!Made, Desk!BilledIsOnRecord

\* A challan is written, and its hold with it; no bill goes.
LEMMA PaperWritten ==
  ASSUME DeskFits, NEW c \in Callers, NEW x \in Desk!Papers, challan' = [challan EXCEPT ![c] = x],
         sale' \in [Bills -> Desk!Sales \cup {None}],
         \A b \in Bills : sale[b] # None => sale'[b] # None /\ sale'[b].qty = sale[b].qty,
         kept' = [kept EXCEPT ![c] = IF x.state = "ISSUED" THEN x.qty ELSE 0],
         onHand' \in Int, lost' = lost, lost = 0 => onHand' >= SumOver(kept, Callers) - kept[c] + kept'[c],
         x.invoice # None => /\ x.state = "INVOICED" /\ x.invoiceFollows /\ sale'[x.invoice] # None
                             /\ sale'[x.invoice].qty < x.qty => x.differs
  PROVE  DeskFits'
<1>1. challan'[c] = x /\ x # None /\ (\A d \in Callers \ {c} : challan'[d] = challan[d])
      /\ challan' \in [Callers -> Desk!Papers \cup {None}]
  BY GovernmentAssumption DEF DeskFits
<1>2. PICK n \in Nat : n = IF x.state = "ISSUED" THEN x.qty ELSE 0
  BY DEF Desk!Papers, Desk!Pieces
<1>3. kept' = [kept EXCEPT ![c] = n] /\ kept' \in [Callers -> Nat] /\ kept'[c] = n /\ \A d \in Callers \ {c} : kept'[d] = kept[d]
  BY <1>2 DEF DeskFits
<1>4. Covered'
  BY <1>3, KeptMoves DEF DeskFits, Covered
<1>5. \A d \in Callers : kept'[d] = IF Desk!Open(d)' THEN challan'[d].qty ELSE 0
  BY <1>1, <1>2, <1>3 DEF DeskFits, Desk!Open, Desk!Made
<1>6. ASSUME NEW d \in Callers, challan'[d] # None, challan'[d].invoice # None
      PROVE  /\ challan'[d].state = "INVOICED" /\ challan'[d].invoiceFollows /\ sale'[challan'[d].invoice] # None
             /\ sale'[challan'[d].invoice].qty < challan'[d].qty => challan'[d].differs
  <2>1. CASE d = c
    BY <1>1, <2>1, <1>6
  <2>2. CASE d # c
    <3>1. challan'[d] = challan[d] /\ challan[d] \in Desk!Papers /\ challan[d].invoice \in Bills
      BY <1>1, <1>6, <2>2 DEF DeskFits, Desk!Papers
    <3>2. /\ challan[d].state = "INVOICED" /\ challan[d].invoiceFollows /\ sale[challan[d].invoice] # None
          /\ sale[challan[d].invoice].qty < challan[d].qty => challan[d].differs
      BY <1>6, <3>1 DEF DeskFits, Desk!BilledIsOnRecord, Desk!Made
    <3> QED BY <3>1, <3>2
  <2> QED BY <2>1, <2>2
<1> QED BY <1>1, <1>3, <1>4, <1>5, <1>6 DEF DeskFits, Desk!BilledIsOnRecord, Desk!Made

\* The challans stay; no bill goes.
LEMMA SaleWritten ==
  ASSUME DeskFits, UNCHANGED <<challan, kept>>,
         sale' \in [Bills -> Desk!Sales \cup {None}],
         \A b \in Bills : sale[b] # None => sale'[b] # None /\ sale'[b].qty = sale[b].qty,
         onHand' \in Int, lost' \in Nat, lost' = 0 => lost = 0 /\ onHand' >= SumOver(kept, Callers)
  PROVE  DeskFits'
<1>1. SumOver(kept', Callers) = SumOver(kept, Callers) /\ SumOver(kept, Callers) \in Int
  <2>1. \A d \in Callers : kept[d] \in Int
    BY DEF DeskFits
  <2> QED BY <2>1, SumIsInt, GovernmentAssumption
<1>2. ASSUME NEW d \in Callers, challan'[d] # None, challan'[d].invoice # None
      PROVE  /\ challan'[d].state = "INVOICED" /\ challan'[d].invoiceFollows /\ sale'[challan'[d].invoice] # None
             /\ sale'[challan'[d].invoice].qty < challan'[d].qty => challan'[d].differs
  <2>1. challan'[d] = challan[d] /\ challan[d] \in Desk!Papers /\ challan[d].invoice \in Bills
    BY <1>2 DEF DeskFits, Desk!Papers
  <2>2. /\ challan[d].state = "INVOICED" /\ challan[d].invoiceFollows /\ sale[challan[d].invoice] # None
        /\ sale[challan[d].invoice].qty < challan[d].qty => challan[d].differs
    BY <1>2, <2>1 DEF DeskFits, Desk!BilledIsOnRecord, Desk!Made
  <2> QED BY <2>1, <2>2
<1>3. \A d \in Callers : kept'[d] = IF Desk!Open(d)' THEN challan'[d].qty ELSE 0
  BY DEF DeskFits, Desk!Open, Desk!Made
<1>4. Covered'
  BY <1>1 DEF Covered
<1> QED BY <1>2, <1>3, <1>4 DEF DeskFits, Desk!BilledIsOnRecord, Desk!Made

\* A challan that is out, and what it may become.
LEMMA PaperOut ==
  ASSUME DeskFits, NEW c \in Callers, Desk!Open(c)
  PROVE  /\ challan[c] \in Desk!Papers /\ challan[c].invoice = None /\ kept[c] = challan[c].qty /\ challan[c].qty \in Nat
         /\ [challan[c] EXCEPT !.ewayBill = TRUE] \in Desk!Papers
         /\ [challan[c] EXCEPT !.state = "CANCELLED"] \in Desk!Papers
         /\ \A b \in Bills, n \in Int :
              [challan[c] EXCEPT !.state = "INVOICED", !.invoice = b, !.differs = Desk!Differs(c, n)] \in Desk!Papers
<1>1. challan[c] \in Desk!Papers /\ challan[c].state = "ISSUED"
  BY DEF Desk!Open, Desk!Made, DeskFits
<1>2. challan[c].invoice = None
  BY <1>1 DEF Desk!Open, DeskFits, Desk!BilledIsOnRecord
<1>3. \A n \in Int : Desk!Differs(c, n) \in BOOLEAN
  BY DEF Desk!Differs
<1>4. kept[c] = challan[c].qty /\ challan[c].qty \in Nat
  BY <1>1 DEF DeskFits, Desk!Papers, Desk!Pieces
<1> QED BY <1>1, <1>2, <1>3, <1>4 DEF Desk!Papers

LEMMA SaleIs ==
  /\ \A n \in Desk!Pieces : LET x == [state |-> "FINAL", qty |-> n] IN x \in Desk!Sales /\ x # None
  /\ \A x \in Desk!Sales : LET y == [x EXCEPT !.state = "CANCELLED"] IN y \in Desk!Sales /\ y.qty = x.qty /\ y # None
<1>1. None \notin Desk!Sales
  BY GovernmentAssumption
<1>2. \A n \in Desk!Pieces : [state |-> "FINAL", qty |-> n] \in Desk!Sales
  BY DEF Desk!Sales
<1>3. \A x \in Desk!Sales : LET y == [x EXCEPT !.state = "CANCELLED"] IN y \in Desk!Sales /\ y.qty = x.qty
  BY DEF Desk!Sales
<1> QED BY <1>1, <1>2, <1>3

LEMMA ChallanIssued ==
  ASSUME DeskFits, NEW c \in Callers, NEW n \in Desk!Pieces, NEW follows \in BOOLEAN, Desk!Issue(c, n, follows)
  PROVE  DeskFits'
<1>1. PICK x \in Desk!Papers :
        /\ challan' = [challan EXCEPT ![c] = x] /\ x.state = "ISSUED" /\ x.qty = n /\ x.invoice = None
  <2>1. PICK x : x = [state |-> "ISSUED", qty |-> n, invoiceFollows |-> follows, ewayBill |-> FALSE, invoice |-> None, differs |-> FALSE]
    OBVIOUS
  <2>2. x \in Desk!Papers /\ x.state = "ISSUED" /\ x.qty = n /\ x.invoice = None
    BY <2>1 DEF Desk!Papers
  <2>3. challan' = [challan EXCEPT ![c] = x]
    BY <2>1 DEF Desk!Issue
  <2> QED BY <2>2, <2>3
<1>2. /\ challan[c] = None /\ n <= onHand - Desk!Held /\ kept' = [kept EXCEPT ![c] = n] /\ UNCHANGED <<sale, onHand, lost>>
      /\ n \in Nat
  BY DEF Desk!Issue, Desk!Check, Desk!Available, Desk!Pieces
<1>3. kept[c] = 0 /\ SumOver(kept, Callers) \in Int /\ kept'[c] = n
  BY <1>2, KeptMoves DEF DeskFits, Desk!Open, Desk!Made
<1>4. onHand' >= SumOver(kept, Callers) - kept[c] + kept'[c] /\ onHand' \in Int
  BY <1>2, <1>3, HeldIsSum DEF DeskFits
<1> QED BY <1>1, <1>2, <1>4, PaperWritten DEF DeskFits

LEMMA EwayAttached ==
  ASSUME DeskFits, NEW c \in Callers, Desk!AttachEwayBill(c)
  PROVE  DeskFits'
<1>1. Desk!Open(c) /\ challan' = [challan EXCEPT ![c] = [challan[c] EXCEPT !.ewayBill = TRUE]] /\ UNCHANGED <<sale, onHand, kept, lost>>
  BY DEF Desk!AttachEwayBill
<1>2. PICK x \in Desk!Papers : x = [challan[c] EXCEPT !.ewayBill = TRUE]
  BY <1>1, PaperOut
<1>3. x.state = "ISSUED" /\ x.qty = challan[c].qty /\ x.invoice = None /\ kept[c] = x.qty /\ x.qty \in Nat
  BY <1>1, <1>2, PaperOut DEF Desk!Open, Desk!Papers
<1>4. kept' = [kept EXCEPT ![c] = IF x.state = "ISSUED" THEN x.qty ELSE 0]
  BY <1>1, <1>3 DEF DeskFits
<1>5. SumOver(kept, Callers) \in Int /\ kept'[c] = kept[c]
  BY <1>1, <1>3, <1>4, KeptMoves DEF DeskFits
<1>6. onHand' \in Int /\ (lost = 0 => onHand' >= SumOver(kept, Callers) - kept[c] + kept'[c])
  BY <1>1, <1>3, <1>5 DEF DeskFits, Covered
<1> QED BY <1>1, <1>2, <1>3, <1>4, <1>6, PaperWritten DEF DeskFits

LEMMA ChallanLinked ==
  ASSUME DeskFits, NEW c \in Callers, NEW b \in Bills, NEW n \in Nat, Desk!Linked(c, b, n), lost' = lost, onHand' \in Int,
         sale' \in [Bills -> Desk!Sales \cup {None}], sale'[b] # None, sale'[b].qty = n,
         \A d \in Bills : sale[d] # None => sale'[d] # None /\ sale'[d].qty = sale[d].qty,
         lost = 0 => onHand' >= SumOver(kept, Callers) - challan[c].qty
  PROVE  DeskFits'
<1>1. /\ Desk!Open(c) /\ challan[c].invoiceFollows /\ kept' = [kept EXCEPT ![c] = 0]
      /\ challan' = [challan EXCEPT ![c] = [challan[c] EXCEPT !.state = "INVOICED", !.invoice = b, !.differs = Desk!Differs(c, n)]]
  BY DEF Desk!Linked, Desk!Release
<1>2. PICK x \in Desk!Papers : x = [challan[c] EXCEPT !.state = "INVOICED", !.invoice = b, !.differs = Desk!Differs(c, n)]
  <2>1. n \in Int
    OBVIOUS
  <2>2. [challan[c] EXCEPT !.state = "INVOICED", !.invoice = b, !.differs = Desk!Differs(c, n)] \in Desk!Papers
    BY <1>1, <2>1, PaperOut
  <2> QED BY <2>2
<1>3. challan[c] \in Desk!Papers /\ kept[c] = challan[c].qty /\ kept[c] \in Nat
  BY <1>1, PaperOut
<1>4. /\ x.state = "INVOICED" /\ x.qty = challan[c].qty /\ x.invoice = b /\ x.invoiceFollows
      /\ x.differs = (n < x.qty)
  BY <1>1, <1>2, <1>3 DEF Desk!Papers, Desk!Differs
<1>5. kept' = [kept EXCEPT ![c] = IF x.state = "ISSUED" THEN x.qty ELSE 0]
  BY <1>1, <1>4
<1>6. SumOver(kept, Callers) \in Int /\ kept'[c] = 0
  BY <1>1, KeptMoves DEF DeskFits
<1>7. lost = 0 => onHand' >= SumOver(kept, Callers) - kept[c] + kept'[c]
  BY <1>3, <1>6
<1>8. sale'[x.invoice].qty < x.qty => x.differs
  BY <1>4
<1> QED BY <1>1, <1>2, <1>4, <1>5, <1>7, <1>8, PaperWritten

LEMMA InvoiceLinked ==
  ASSUME DeskFits, NEW c \in Callers, NEW b \in Bills, Desk!LinkInvoice(c, b)
  PROVE  DeskFits'
<1>1. Desk!Final(b) /\ Desk!Linked(c, b, sale[b].qty) /\ UNCHANGED <<sale, onHand, lost>>
  BY DEF Desk!LinkInvoice
<1>2. sale[b] # None /\ sale[b].qty \in Nat
  BY <1>1 DEF Desk!Final, DeskFits, Desk!Sales, Desk!Pieces
<1>3. challan[c].qty \in Nat /\ SumOver(kept, Callers) \in Int
  <2>1. Desk!Open(c) /\ \A d \in Callers : kept[d] \in Int
    BY <1>1 DEF Desk!Linked, DeskFits
  <2> QED BY <2>1, PaperOut, SumIsInt, GovernmentAssumption
<1>4. onHand' \in Int /\ (lost = 0 => onHand' >= SumOver(kept, Callers) - challan[c].qty)
  BY <1>1, <1>3 DEF DeskFits, Covered
<1> QED BY <1>1, <1>2, <1>4, ChallanLinked DEF DeskFits

LEMMA ChallanBilled ==
  ASSUME DeskFits, NEW c \in Callers, NEW b \in Bills, Desk!BillChallan(c, b)
  PROVE  DeskFits'
<1>1. /\ Desk!Open(c) /\ Desk!Linked(c, b, challan[c].qty) /\ lost' = lost
      /\ sale[b] = None /\ sale' = [sale EXCEPT ![b] = [state |-> "FINAL", qty |-> challan[c].qty]] /\ onHand' = onHand - challan[c].qty
  BY DEF Desk!BillChallan, Desk!Billed
<1>2. challan[c].qty \in Nat /\ challan[c].qty \in Desk!Pieces
  BY <1>1, PaperOut DEF Desk!Papers
<1>3. PICK x \in Desk!Sales : x = [state |-> "FINAL", qty |-> challan[c].qty] /\ x.qty = challan[c].qty /\ x # None
  BY <1>2, SaleIs
<1>4. /\ sale' \in [Bills -> Desk!Sales \cup {None}] /\ sale'[b] # None /\ sale'[b].qty = challan[c].qty
      /\ \A d \in Bills : sale[d] # None => sale'[d] # None /\ sale'[d].qty = sale[d].qty
  BY <1>1, <1>3 DEF DeskFits
<1>5. SumOver(kept, Callers) \in Int
  <2>1. \A d \in Callers : kept[d] \in Int
    BY DEF DeskFits
  <2> QED BY <2>1, SumIsInt, GovernmentAssumption
<1>6. onHand' \in Int /\ (lost = 0 => onHand' >= SumOver(kept, Callers) - challan[c].qty)
  BY <1>1, <1>2, <1>5 DEF DeskFits, Covered
<1> QED BY <1>1, <1>2, <1>4, <1>6, ChallanLinked

LEMMA ChallanCancelled ==
  ASSUME DeskFits, NEW c \in Callers, NEW confirmed \in BOOLEAN, Desk!Cancel(c, confirmed)
  PROVE  DeskFits'
<1>1. /\ Desk!Open(c) /\ challan' = [challan EXCEPT ![c] = [challan[c] EXCEPT !.state = "CANCELLED"]]
      /\ kept' = [kept EXCEPT ![c] = 0] /\ UNCHANGED <<sale, onHand, lost>>
  BY DEF Desk!Cancel, Desk!MayCancel, Desk!Release
<1>2. PICK x \in Desk!Papers : x = [challan[c] EXCEPT !.state = "CANCELLED"]
  BY <1>1, PaperOut
<1>3. x.state = "CANCELLED" /\ x.invoice = None /\ kept[c] \in Nat
  BY <1>1, <1>2, PaperOut DEF Desk!Papers
<1>4. SumOver(kept, Callers) \in Int /\ kept'[c] = 0
  BY <1>1, KeptMoves DEF DeskFits
<1>5. lost = 0 => onHand' >= SumOver(kept, Callers) - kept[c] + kept'[c]
  BY <1>1, <1>3, <1>4 DEF DeskFits, Covered
<1> QED BY <1>1, <1>2, <1>3, <1>5, PaperWritten DEF DeskFits

LEMMA BesideChallans ==
  ASSUME DeskFits, (\E b \in Bills, n \in Desk!Pieces : Desk!RecordSale(b, n)) \/ (\E b \in Bills : Desk!CancelSale(b)) \/ Desk!Lose
  PROVE  DeskFits'
<1>0. SumOver(kept, Callers) \in Int
  <2>1. \A d \in Callers : kept[d] \in Int
    BY DEF DeskFits
  <2> QED BY <2>1, SumIsInt, GovernmentAssumption
<1>1. ASSUME NEW b \in Bills, NEW n \in Desk!Pieces, Desk!RecordSale(b, n) PROVE DeskFits'
  <2>1. /\ n <= onHand - Desk!Held /\ UNCHANGED <<challan, kept, lost>> /\ n \in Nat
        /\ sale[b] = None /\ sale' = [sale EXCEPT ![b] = [state |-> "FINAL", qty |-> n]] /\ onHand' = onHand - n
    BY <1>1 DEF Desk!RecordSale, Desk!Billed, Desk!Check, Desk!Available, Desk!Pieces
  <2>2. PICK x \in Desk!Sales : x = [state |-> "FINAL", qty |-> n] /\ x # None
    BY <1>1, SaleIs
  <2>3. /\ sale' \in [Bills -> Desk!Sales \cup {None}]
        /\ \A d \in Bills : sale[d] # None => sale'[d] # None /\ sale'[d].qty = sale[d].qty
    BY <2>1, <2>2 DEF DeskFits
  <2>4. onHand' \in Int /\ onHand' >= SumOver(kept, Callers)
    BY <1>0, <2>1, HeldIsSum DEF DeskFits
  <2> QED BY <2>1, <2>3, <2>4, SaleWritten DEF DeskFits
<1>2. ASSUME NEW b \in Bills, Desk!CancelSale(b) PROVE DeskFits'
  <2>1. /\ sale[b] # None /\ sale' = [sale EXCEPT ![b] = [sale[b] EXCEPT !.state = "CANCELLED"]]
        /\ onHand' = onHand + sale[b].qty /\ UNCHANGED <<challan, kept, lost>>
    BY <1>2 DEF Desk!CancelSale, Desk!Final
  <2>2. sale[b] \in Desk!Sales /\ sale[b].qty \in Nat
    BY <2>1 DEF DeskFits, Desk!Sales, Desk!Pieces
  <2>3. PICK x \in Desk!Sales : x = [sale[b] EXCEPT !.state = "CANCELLED"] /\ x # None /\ x.qty = sale[b].qty
    BY <2>2, SaleIs
  <2>4. /\ sale' \in [Bills -> Desk!Sales \cup {None}]
        /\ \A d \in Bills : sale[d] # None => sale'[d] # None /\ sale'[d].qty = sale[d].qty
    BY <2>1, <2>3 DEF DeskFits
  <2>5. onHand' \in Int /\ (lost' = 0 => lost = 0 /\ onHand' >= SumOver(kept, Callers))
    BY <1>0, <2>1, <2>2 DEF DeskFits, Covered
  <2> QED BY <2>1, <2>4, <2>5, SaleWritten DEF DeskFits
<1>3. ASSUME Desk!Lose PROVE DeskFits'
  <2>1. onHand' = onHand - 1 /\ lost' = lost + 1 /\ UNCHANGED <<challan, sale, kept>>
    BY <1>3 DEF Desk!Lose
  <2>2. onHand' \in Int /\ lost' \in Nat /\ lost' # 0
    BY <2>1 DEF DeskFits
  <2> QED BY <2>1, <2>2, SaleWritten DEF DeskFits
<1> QED BY <1>1, <1>2, <1>3

LEMMA DeskNext == DeskFits /\ [Desk!Next]_(Desk!vars) => DeskFits'
<1> SUFFICES ASSUME DeskFits, [Desk!Next]_(Desk!vars) PROVE DeskFits'
  OBVIOUS
<1>1. CASE UNCHANGED Desk!vars
  BY <1>1 DEF Desk!vars, DeskFits, Covered, Desk!Open, Desk!Made, Desk!BilledIsOnRecord
<1>2. CASE Desk!Next
  BY <1>2, ChallanIssued, EwayAttached, InvoiceLinked, ChallanBilled, ChallanCancelled, BesideChallans DEF Desk!Next
<1> QED BY <1>1, <1>2

LEMMA DeskHolds == DeskFits => Desk!OutIsKept /\ Desk!BilledIsOnRecord
<1> SUFFICES ASSUME DeskFits PROVE Desk!OutIsKept /\ Desk!BilledIsOnRecord
  OBVIOUS
<1>1. SumOver(kept, Callers) \in Int
  <2>1. \A d \in Callers : kept[d] \in Int
    BY DEF DeskFits
  <2> QED BY <2>1, SumIsInt, GovernmentAssumption
<1>2. lost = 0 => Desk!Available >= 0
  BY <1>1, HeldIsSum DEF DeskFits, Covered, Desk!Available
<1> QED BY <1>2 DEF DeskFits, Desk!OutIsKept

-----------------------------------------------------------------------------
(* All the cases of a shop together                                          *)

\* With a unit of work for each request, and without.
RequestsKept == case = "requests" => RequestsFit /\ Drawn
TillsKept == case # "requests" => IInv /\ IssuedBefore
ShopFits == RequestsKept /\ TillsKept /\ DeskFits

LEMMA ShopFirst == MCInit => ShopFits
<1>1. Init => IssuedBefore /\ Drawn
  BY DEF Init, IssuedBefore, Drawn
<1> QED BY <1>1, Initially, RequestsFirst, DeskFirst DEF MCInit, ShopFits, RequestsKept, TillsKept

LEMMA TillsNext ==
  IInv /\ IssuedBefore /\ [Next]_vars => IInv' /\ IssuedBefore' /\ [Stays]_vars
<1>1. IInv /\ IssuedBefore /\ Next => IssuedBefore' /\ Stays
  BY StepTreats, Treated
<1>2. IssuedBefore /\ UNCHANGED vars => IssuedBefore'
  BY DEF vars, tables, IssuedBefore, Issued
<1> QED BY <1>1, <1>2, Inductively

LEMMA ShopNext ==
  ShopFits /\ [MCNext]_<<vars, case, line, challans, road, credit>> =>
    /\ ShopFits'
    /\ [Stays]_vars /\ [case = "requests" => Keeps]_vars
<1> SUFFICES ASSUME ShopFits, [MCNext]_<<vars, case, line, challans, road, credit>>
             PROVE  ShopFits' /\ [Stays]_vars /\ [case = "requests" => Keeps]_vars
  OBVIOUS
<1>1. case' = case
  BY DEF MCNext
<1>2. (case = "requests" => [InOneUnit!Next]_vars) /\ (case # "requests" => [Next]_vars)
  BY DEF MCNext
<1>3. [Desk!Next]_(Desk!vars)
  <2>1. UNCHANGED challans => UNCHANGED Desk!vars
    BY DEF challans, Desk!vars
  <2> QED BY <2>1 DEF MCNext
<1>4. DeskFits'
  BY <1>3, DeskNext DEF ShopFits
<1>5. CASE case = "requests"
  <2>1. RequestsFit' /\ Drawn' /\ [Keeps]_vars
    BY <1>2, <1>5, RequestsNext, SequenceNext DEF ShopFits, RequestsKept, Drawn
  <2>2. Keeps => Stays
    BY DEF Keeps, Stays, Cancelled
  <2> QED BY <1>1, <1>4, <1>5, <2>1, <2>2 DEF ShopFits, RequestsKept, TillsKept
<1>6. CASE case # "requests"
  <2>1. IInv' /\ IssuedBefore' /\ [Stays]_vars
    BY <1>2, <1>6, TillsNext DEF ShopFits, TillsKept
  <2> QED BY <1>1, <1>4, <1>6, <2>1 DEF ShopFits, RequestsKept, TillsKept
<1> QED BY <1>5, <1>6

\* With each request in a unit of work of its own an issued bill's goods, all of
\* them and no more, have left the godown, and between requests only a bill that
\* waits for approval holds goods, whatever fails or dies (durable.ts:92); goods out
\* on a challan are kept off sale until their bill takes them, and that bill is on
\* record (challan-application.ts:226, 359-362).
THEOREM RequestsAlwaysMoveGoods == MCSpec => []RequestsMoveGoods
<1>1. ShopFits => RequestsMoveGoods
  BY DeskHolds
     DEF ShopFits, RequestsKept, RequestsFit, GoodsLeft, OnlyWaiting, RequestsMoveGoods, IssuedGoodsLeft, OnlyWaitingBillsHold
<1> QED BY <1>1, ShopFirst, ShopNext, PTL DEF MCSpec

\* Whoever races, fails or dies, with or without a unit of work around each request:
\* an issued bill stays, word for word, but that it may be cancelled once; a bill
\* that waits for approval stays until someone decides; and an answer of the
\* government that we hold is not replaced (service.ts:618, webhooks.ts:24).
THEOREM SettledAlwaysStays == MCSpec => WhatIsSettledStays
<1>1. ShopFits /\ [MCNext]_<<vars, case, line, challans, road, credit>> =>
        [\A b \in Bills : Issued(bills[b]) =>
           \/ bills'[b] = bills[b]
           \/ bills[b].state = "FINAL" /\ bills'[b] = [Bumped(bills[b]) EXCEPT !.state = "CANCELLED"]]_vars
  BY ShopNext DEF Stays, Cancelled
<1>2. ShopFits /\ [MCNext]_<<vars, case, line, challans, road, credit>> =>
        [case = "requests" => \A b \in Bills : bills[b].state = "PENDING_APPROVAL" => Exists(b)']_vars
  BY ShopNext DEF Keeps, Exists
<1> QED BY <1>1, <1>2, ShopFirst, ShopNext, AnswersAlwaysStand, PTL
        DEF MCSpec, WhatIsSettledStays, IssuedStays, RequestsKeepWaiting
=============================================================================
