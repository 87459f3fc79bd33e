------------------------------ MODULE Inventory ------------------------------
(***************************************************************************)
(* The stock ledger of one item (packages/inventory/src/service.ts):       *)
(* movements are only appended, every balance and value is computed from   *)
(* them, and what a movement does to the value of the stock is written     *)
(* into the books.  A document holds goods line by line, issues what it    *)
(* holds, and brings its goods back.                                       *)
(*                                                                         *)
(* A store transaction is one action.  A transfer is two transactions and  *)
(* a return is one for each movement, unless the caller has a unit of work *)
(* open; here it has none.  Quantities are whole base units and dates are  *)
(* numbers, so a movement may be dated before one already posted.          *)
(***************************************************************************)
EXTENDS Integers, Sequences, FiniteSets, FiniteSetsExt

CONSTANTS
  Godowns,
  Documents,
  Lines,       \* what each document asks for: document -> sequence of [godown, qty]
  Incoming,    \* receipts and counted gains: [key, godown, qty, cost, date]
  Outgoing,    \* counted losses and other movements out: [key, godown, qty, date]
  Transfers,   \* [key, from, to, qty, date]
  LastDate,
  MaxCrashes   \* bound on processes that die between two transactions

ASSUME InventoryAssumption ==
  /\ IsFiniteSet(Documents)
  /\ Lines \in [Documents -> Seq([godown : Godowns, qty : Nat \ {0}])]
  /\ LastDate \in Nat
  /\ MaxCrashes \in Nat
  /\ \A r \in Incoming : r.godown \in Godowns /\ r.qty \in Nat \ {0} /\ r.cost \in Nat /\ r.date \in 1..LastDate
  /\ \A o \in Outgoing : o.godown \in Godowns /\ o.qty \in Nat \ {0} /\ o.date \in 1..LastDate
  /\ \A t \in Transfers : /\ t.from \in Godowns /\ t.to \in Godowns /\ t.from # t.to
                          /\ t.qty \in Nat \ {0} /\ t.date \in 1..LastDate

VARIABLES
  moves,       \* stock_movements, in the order they were posted
  held,        \* documents whose lines are HELD: all of its lines are, or none
  booked,      \* value of the stock in the books, by godown
  task,        \* what the one caller with a command of several transactions does next
  crashes

vars == <<moves, held, booked, task, crashes>>

Idle == [kind |-> "idle"]
NoCost == -1
Places == DOMAIN moves

-----------------------------------------------------------------------------
(* Balances and value, folded from the movements *)

Total(f) == MapThenSumSet(LAMBDA x : f[x], DOMAIN f)

Signed(m) == IF m.direction = "IN" THEN m.qty ELSE -m.qty

Physical(g) == Total([i \in {p \in Places : moves[p].godown = g} |-> Signed(moves[i])])

Asked ==
  [d \in Documents |-> [g \in Godowns |->
     Total([i \in DOMAIN Lines[d] |-> IF Lines[d][i].godown = g THEN Lines[d][i].qty ELSE 0])]]

Reserved(documents, g) == Total([d \in documents |-> Asked[d][g]])

Abs(n) == IF n < 0 THEN -n ELSE n

\* Division of whole numbers as the program does it, towards nothing
Quotient(a, b) == IF (a < 0) = (b < 0) THEN Abs(a) \div Abs(b) ELSE -(Abs(a) \div Abs(b))

Average(stock) == IF stock.qty = 0 THEN NoCost ELSE Quotient(stock.value, stock.qty)

\* One movement of valueStock: in at its cost, out at the running average.
Valued(stock, m) ==
  IF m.direction = "IN"
  THEN [qty |-> stock.qty + m.qty,
        value |-> stock.value + (IF m.cost = NoCost THEN 0 ELSE m.cost * m.qty)]
  ELSE [qty |-> stock.qty - m.qty,
        value |-> stock.value - (IF stock.qty = 0 THEN 0 ELSE Average(stock) * m.qty)]

\* The movements of one day, in the order they were posted
OfDay(stock, ms, g, d) ==
  LET upTo[i \in 0..Len(ms)] ==
        IF i = 0 THEN stock
        ELSE IF ms[i].godown = g /\ ms[i].date = d THEN Valued(upTo[i - 1], ms[i]) ELSE upTo[i - 1]
  IN upTo[Len(ms)]

\* valueStock: weighted average, in the order of the documents' dates.
ValueOf(ms, g) ==
  LET until[d \in 0..LastDate] == IF d = 0 THEN [qty |-> 0, value |-> 0] ELSE OfDay(until[d - 1], ms, g, d)
  IN until[LastDate]

-----------------------------------------------------------------------------
Movement(key, direction, g, qty, cost, date, reverses) ==
  [key |-> key, direction |-> direction, godown |-> g, qty |-> qty, cost |-> cost,
   date |-> date, reverses |-> reverses]

HasKey(key) == \E i \in Places : moves[i].key = key

\* Goods that leave carry the average they left at.
Stamped(ms, m) ==
  IF m.direction = "OUT" /\ m.cost = NoCost
  THEN [m EXCEPT !.cost = Average(ValueOf(ms, m.godown))] ELSE m

After(new) ==
  LET upTo[i \in 0..Len(new)] == IF i = 0 THEN moves ELSE Append(upTo[i - 1], Stamped(upTo[i - 1], new[i]))
  IN upTo[Len(new)]

\* Bug: the books get the movements' own cost, whatever they did to the value.
InsertAtCost(new) ==
  /\ moves' = After(new)
  /\ booked' = [g \in Godowns |->
       booked[g] + Total([i \in (DOMAIN After(new)) \ Places |->
                     IF After(new)[i].godown = g THEN Signed(After(new)[i]) * After(new)[i].cost ELSE 0])]

\* #insert, for each new movement: the change in value between before and after
\* goes into the books.
Insert(new) ==
  /\ moves' = After(new)
  /\ booked' = [g \in Godowns |-> booked[g] + ValueOf(moves', g).value - ValueOf(moves, g).value]

\* #guardNegative
Enough(g, qty) == qty <= Physical(g)

Init ==
  /\ moves = <<>>
  /\ held = {}
  /\ booked = [g \in Godowns |-> 0]
  /\ task = Idle
  /\ crashes = 0

-----------------------------------------------------------------------------
(* Movements on their own *)

Command(r) == <<"command", r.key>>

Receive(r) ==
  /\ ~HasKey(Command(r))
  /\ Insert(<<Movement(Command(r), "IN", r.godown, r.qty, r.cost, r.date, 0)>>)
  /\ UNCHANGED <<held, task, crashes>>

\* Losses and other movements out ask what is there, not what is free.
Lose(o) ==
  /\ ~HasKey(Command(o))
  /\ Enough(o.godown, o.qty)
  /\ Insert(<<Movement(Command(o), "OUT", o.godown, o.qty, NoCost, o.date, 0)>>)
  /\ UNCHANGED <<held, task, crashes>>

(* Transfers *)

Leg(t, leg) == <<leg, t.key>>

\* Bug: a retry that finds the first movement takes the transfer for done.
TransferOutDone(t) ==
  /\ task = Idle
  /\ ~HasKey(Leg(t, "out"))
  /\ Enough(t.from, t.qty)
  /\ Insert(<<Movement(Leg(t, "out"), "OUT", t.from, t.qty, NoCost, t.date, 0)>>)
  /\ UNCHANGED <<held, task, crashes>>

\* The first transaction; a retry finds its movement and goes on.
TransferOut(t) ==
  /\ task = Idle
  /\ ~HasKey(Leg(t, "in"))
  /\ task' = [kind |-> "transfer", of |-> t]
  /\ IF HasKey(Leg(t, "out"))
     THEN UNCHANGED <<moves, booked>>
     ELSE /\ Enough(t.from, t.qty)
          /\ Insert(<<Movement(Leg(t, "out"), "OUT", t.from, t.qty, NoCost, t.date, 0)>>)
  /\ UNCHANGED <<held, crashes>>

CostOf(key) == moves[CHOOSE i \in Places : moves[i].key = key].cost

\* Bug: the goods arrive at no cost.
TransferInFree ==
  /\ task.kind = "transfer"
  /\ LET t == task.of IN
       Insert(<<Movement(Leg(t, "in"), "IN", t.to, t.qty, NoCost, t.date, 0)>>)
  /\ task' = Idle
  /\ UNCHANGED <<held, crashes>>

\* The second, at the cost the goods left at
TransferIn ==
  /\ task.kind = "transfer"
  /\ LET t == task.of IN
       Insert(<<Movement(Leg(t, "in"), "IN", t.to, t.qty, CostOf(Leg(t, "out")), t.date, 0)>>)
  /\ task' = Idle
  /\ UNCHANGED <<held, crashes>>

-----------------------------------------------------------------------------
(* Documents *)

Bare(d) == held \ {d}
Free(d, g) == Physical(g) - Reserved(Bare(d), g)

\* Bug: each line is checked on its own.
FillableLineByLine(d) == \A i \in DOMAIN Lines[d] : Lines[d][i].qty <= Free(d, Lines[d][i].godown)

\* Two lines for one godown cannot both claim the last box.
Fillable(d) == \A g \in Godowns : Asked[d][g] # 0 => Asked[d][g] <= Free(d, g)

\* reserve: the earlier hold is dropped even when the new one falls short.
Reserve(d) ==
  /\ held' = IF Fillable(d) THEN held \cup {d} ELSE Bare(d)
  /\ UNCHANGED <<moves, booked, task, crashes>>

\* release, and expireStaleReservations for a hold whose time is over
Release(d) ==
  /\ d \in held
  /\ held' = Bare(d)
  /\ UNCHANGED <<moves, booked, task, crashes>>

IssueKey(d, i) == <<"issue", d, i>>
Issued(d) == \E i \in DOMAIN Lines[d] : HasKey(IssueKey(d, i))
Leaving(d, date) ==
  [i \in DOMAIN Lines[d] |->
     Movement(IssueKey(d, i), "OUT", Lines[d][i].godown, Lines[d][i].qty, NoCost, date, 0)]

\* issue: what the document holds leaves, all its lines or none; lines that have
\* left before do not leave again.
Issue(d, date) ==
  /\ d \in held
  /\ held' = Bare(d)
  /\ IF Issued(d)
     THEN UNCHANGED <<moves, booked>>
     ELSE /\ \A g \in Godowns : Enough(g, Asked[d][g])
          /\ Insert(Leaving(d, date))
  /\ UNCHANGED <<task, crashes>>

ReturnKey(i) == <<"return", i>>
WentOut(d) == {i \in Places : \E l \in DOMAIN Lines[d] : moves[i].key = IssueKey(d, l)}

\* returnToStock reads what went out; the sale that is cancelled dates the return
\* as it dated the issue ...
ReturnBegin(d) ==
  /\ task = Idle
  /\ WentOut(d) # {}
  /\ \E i \in WentOut(d) : ~HasKey(ReturnKey(i))
  /\ task' = [kind |-> "return", left |-> WentOut(d)]
  /\ UNCHANGED <<moves, held, booked, crashes>>

\* Bug: the quantity is negated and the direction kept.
MirrorNegated(i) == [moves[i] EXCEPT !.key = ReturnKey(i), !.qty = -moves[i].qty, !.reverses = i]

Mirror(i) == [moves[i] EXCEPT !.key = ReturnKey(i), !.direction = "IN", !.reverses = i]

Earliest(i) == i \in task.left /\ \A j \in task.left : i <= j
Returned(i) == task' = IF task.left = {i} THEN Idle ELSE [task EXCEPT !.left = @ \ {i}]

\* Bug: a return that is retried starts over.
ReturnAgain ==
  /\ task.kind = "return"
  /\ \E i \in Places : Earliest(i) /\ Insert(<<Mirror(i)>>) /\ Returned(i)
  /\ UNCHANGED <<held, crashes>>

\* ... and mirrors each in a transaction, unless it has been mirrored before.
Return ==
  /\ task.kind = "return"
  /\ \E i \in Places :
       /\ Earliest(i)
       /\ IF HasKey(ReturnKey(i)) THEN UNCHANGED <<moves, booked>> ELSE Insert(<<Mirror(i)>>)
       /\ Returned(i)
  /\ UNCHANGED <<held, crashes>>

Crash ==
  /\ task # Idle
  /\ crashes < MaxCrashes
  /\ crashes' = crashes + 1
  /\ task' = Idle
  /\ UNCHANGED <<moves, held, booked>>

Next ==
  \/ \E r \in Incoming : Receive(r)
  \/ \E o \in Outgoing : Lose(o)
  \/ \E t \in Transfers : TransferOut(t)
  \/ TransferIn
  \/ \E d \in Documents : Reserve(d) \/ Release(d) \/ ReturnBegin(d)
  \/ \E d \in Documents, date \in 1..LastDate : Issue(d, date)
  \/ Return
  \/ Crash

Spec == Init /\ [][Next]_vars

-----------------------------------------------------------------------------
(* Properties *)

TypeOK ==
  /\ \A i \in Places :
       /\ moves[i].direction \in {"IN", "OUT"}
       /\ moves[i].godown \in Godowns
       /\ moves[i].qty \in Nat \ {0}
       /\ moves[i].date \in 1..LastDate
       /\ moves[i].reverses \in 0..i-1
  /\ held \subseteq Documents
  /\ booked \in [Godowns -> Int]
  /\ task.kind \in {"idle", "transfer", "return"}
  /\ crashes \in Nat

Stock == INSTANCE Godown WITH
  onHand <- [g \in Godowns |-> Physical(g)],
  promised <- [d \in Documents |-> IF d \in held THEN Asked[d] ELSE [g \in Godowns |-> 0]]

\* The movements and reservations keep the godown's promises: nothing goes below
\* nothing, nothing is promised twice, a document's goods leave together.
KeepsPromises == Stock!Spec

\* The entries in the books add up to the value the stock report works out, in
\* whatever order the movements are dated.
BooksMatchReport == \A g \in Godowns : booked[g] = ValueOf(moves, g).value

\* A line of a document leaves once, and comes back at most once, at the cost it left at.
LinesLeaveOnce ==
  \A i, j \in Places :
    /\ moves[i].key = moves[j].key => i = j
    /\ moves[i].reverses = j =>
         /\ moves[j].direction = "OUT"
         /\ moves[i].cost = moves[j].cost /\ moves[i].qty = moves[j].qty
         /\ moves[i].godown = moves[j].godown

\* What arrives by a transfer is what left, at the cost it left at.
ArrivalsLeft ==
  \A t \in Transfers : \A i \in Places : moves[i].key = Leg(t, "in") =>
    \E j \in 1..i-1 : moves[j].key = Leg(t, "out") /\ moves[j].qty = moves[i].qty /\ moves[j].cost = moves[i].cost

\* While no process dies no goods are on the way between commands: what left one
\* godown has reached the other.
NothingOnTheWay ==
  task = Idle /\ crashes = 0 => \A t \in Transfers : HasKey(Leg(t, "out")) => HasKey(Leg(t, "in"))

\* A transfer makes no goods and no value, and loses none unless the process
\* dies between its two transactions (transferStock).
TransfersPair == ArrivalsLeft /\ NothingOnTheWay

\* Whatever is retried, returned or cut short, goods that leave for a bill come
\* back at most once and goods that leave for another godown arrive there.
MovementsPair == LinesLeaveOnce /\ TransfersPair

=============================================================================
