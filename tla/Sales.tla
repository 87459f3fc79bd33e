-------------------------------- MODULE Sales --------------------------------
(***************************************************************************)
(* A bill from draft to issue, approval, cancellation or discard           *)
(* (packages/sales/src/service.ts), with the goods it holds and moves in   *)
(* the godown (packages/inventory/src/service.ts through sales-adapter.ts) *)
(* and the number, entry and reversal it makes in the books.               *)
(*                                                                         *)
(* A command reads the bill, then runs one or more store transactions, and *)
(* writes the bill only if its version is still the one it read.  With     *)
(* OneAction every command runs in one unit of work that holds the company *)
(* lock (apps/api/src/durable.ts, asOneAction): commands do not interleave *)
(* and a failed one leaves nothing.  Without it, as when the service is    *)
(* called with no unit of work open, each transaction is on its own.       *)
(*                                                                         *)
(* One item in one godown.  What a bill says is one of Contents: how many  *)
(* it asks for, whether its value needs approval, whether the calculator   *)
(* can price it.  Every bill is made by the user "maker".                  *)
(***************************************************************************)
EXTENDS Integers, FiniteSets, FiniteSetsExt

CONSTANTS
  Callers,      \* requests running at the same time
  Bills,        \* bills by idempotency key; a discarded one's key is not used again
  Contents,     \* what a bill may say: [qty, big, ok]
  Stock,        \* goods in the godown at the start
  Counts,       \* quantities a stock count may find missing
  OneAction,    \* one unit of work around each command
  MaxVersion,   \* bound: no change is begun on a bill at this version
  MaxCrashes    \* bound on requests that die

Users == {"maker", "other"}
NoOne == "no one"

ASSUME SalesAssumption ==
  /\ NoOne \notin Callers
  /\ IsFiniteSet(Bills)
  /\ Contents \subseteq [qty : Nat \ {0}, big : BOOLEAN, ok : BOOLEAN]
  /\ Stock \in Nat
  /\ Counts \subseteq Nat \ {0}
  /\ OneAction \in BOOLEAN
  /\ MaxVersion \in Nat
  /\ MaxCrashes \in Nat

VARIABLES
  bills,        \* sales_invoices
  held,         \* goods HELD by stock_reservations, by bill
  shelf,        \* goods physically in the godown
  out,          \* SALE_OUT movements less their REVERSAL_IN, by bill
  missing,      \* goods written off by counts
  sequence,     \* numbers drawn from the series
  posted,       \* bills with a voucher keyed sales:finalise:<id>
  reversed,     \* bills with a reversal keyed sales:cancel:<id>
  task,         \* what each caller does next
  owner,        \* the caller whose unit of work is open
  before,       \* the tables when it began
  crashes

tables == <<bills, held, shelf, out, missing, sequence, posted, reversed>>
stock == <<held, shelf, out, missing>>
books == <<sequence, posted, reversed>>
vars == <<tables, task, owner, before, crashes>>

Idle == [kind |-> "idle"]
Nothing == [qty |-> 0, big |-> FALSE, ok |-> FALSE]
Absent(s) == [state |-> s, version |-> 0, says |-> Nothing, priced |-> FALSE,
              number |-> 0, approvedBy |-> NoOne]

Exists(b) == bills[b].state \notin {"NONE", "GONE"}
Editable(x) == x.state \in {"DRAFT", "NEEDS_INFO"}
Issued(x) == x.state \in {"FINAL", "CANCELLED"}
Sum(f) == MapThenSumSet(LAMBDA b : f[b], Bills)

-----------------------------------------------------------------------------
(* How a command begins, goes on, ends and fails *)

NoTables == [open |-> FALSE]

Snapshot ==
  [open |-> TRUE, bills |-> bills, held |-> held, shelf |-> shelf, out |-> out, missing |-> missing,
   sequence |-> sequence, posted |-> posted, reversed |-> reversed]

Restore ==
  /\ bills' = before.bills
  /\ held' = before.held
  /\ shelf' = before.shelf
  /\ out' = before.out
  /\ missing' = before.missing
  /\ sequence' = before.sequence
  /\ posted' = before.posted
  /\ reversed' = before.reversed

Begin(c) ==
  /\ task[c] = Idle
  /\ OneAction => owner = NoOne
  /\ owner' = IF OneAction THEN c ELSE NoOne
  /\ before' = IF OneAction THEN Snapshot ELSE NoTables
  /\ UNCHANGED crashes

At(c, kind) == task[c].kind = kind

Then(c, next) ==
  /\ task' = [task EXCEPT ![c] = next]
  /\ UNCHANGED <<owner, before, crashes>>

End(c) ==
  /\ task' = [task EXCEPT ![c] = Idle]
  /\ owner' = NoOne
  /\ before' = NoTables
  /\ UNCHANGED crashes

\* An error leaves what earlier transactions committed, or with one unit of work
\* around the command, nothing.
Undone == IF OneAction THEN Restore ELSE UNCHANGED tables

Fail(c) == Undone /\ End(c)

\* The bill is still the one this caller read.
Current(c) == Exists(task[c].bill) /\ bills[task[c].bill].version = task[c].copy.version

Work(kind, b, copy) ==
  [kind |-> kind, bill |-> b, copy |-> copy, user |-> NoOne, then |-> "end", says |-> Nothing]

Bumped(x) == [x EXCEPT !.version = @ + 1]

\* Bug: the version the caller read is not compared.
SaveAnyway(c, x) ==
  /\ Exists(task[c].bill)
  /\ bills' = [bills EXCEPT ![task[c].bill] = x]

\* repository.update with the version that was read
Save(c, x) ==
  /\ Current(c)
  /\ bills' = [bills EXCEPT ![task[c].bill] = x]

-----------------------------------------------------------------------------
Init ==
  /\ bills = [b \in Bills |-> Absent("NONE")]
  /\ held = [b \in Bills |-> 0]
  /\ shelf = Stock
  /\ out = [b \in Bills |-> 0]
  /\ missing = 0
  /\ sequence = 0
  /\ posted = {}
  /\ reversed = {}
  /\ task = [c \in Callers |-> Idle]
  /\ owner = NoOne
  /\ before = NoTables
  /\ crashes = 0

(* Starting and changing a bill *)

NewDraft(says) ==
  [state |-> "DRAFT", version |-> 1, says |-> says, priced |-> FALSE,
   number |-> 0, approvedBy |-> NoOne]

\* createDraft looks for the key: a draft whose first attempt died before it was
\* priced is priced now, any other bill is handed back as it is.
StartDraft(c, b, says) ==
  /\ Begin(c)
  /\ \/ /\ bills[b].state = "NONE"
        /\ task' = [task EXCEPT ![c] = Work("insert", b, NewDraft(says))]
     \/ /\ bills[b].state = "DRAFT" /\ ~bills[b].priced /\ bills[b].says = says
        /\ task' = [task EXCEPT ![c] = Work("price", b, bills[b])]
  /\ UNCHANGED tables

\* The insert; whoever comes second is answered with the bill the first saved.
Insert(c) ==
  /\ At(c, "insert")
  /\ LET b == task[c].bill IN
       \/ /\ bills[b].state = "NONE"
          /\ bills' = [bills EXCEPT ![b] = task[c].copy]
          /\ Then(c, Work("price", b, task[c].copy))
          /\ UNCHANGED <<stock, books>>
       \/ /\ bills[b].state # "NONE"
          /\ UNCHANGED tables
          /\ End(c)

\* #priced
Priced(x) ==
  IF x.says.ok
  THEN [Bumped(x) EXCEPT !.state = IF @ = "NEEDS_INFO" THEN "DRAFT" ELSE @, !.priced = TRUE]
  ELSE [Bumped(x) EXCEPT !.state = "NEEDS_INFO", !.priced = FALSE]

Price(c) ==
  /\ At(c, "price")
  /\ Save(c, Priced(task[c].copy))
  /\ UNCHANGED <<stock, books>>
  /\ End(c)

StartEdit(c, b, says) ==
  /\ Begin(c)
  /\ Editable(bills[b]) /\ bills[b].version < MaxVersion
  /\ task' = [task EXCEPT ![c] = [Work("edit", b, bills[b]) EXCEPT !.says = says]]
  /\ UNCHANGED tables

\* updateDraft: the change, then the price worked out again.
Edit(c) ==
  /\ At(c, "edit")
  /\ LET next == [Bumped(task[c].copy) EXCEPT !.state = "DRAFT", !.says = task[c].says] IN
       /\ Save(c, next)
       /\ Then(c, Work("price", task[c].bill, next))
  /\ UNCHANGED <<stock, books>>

-----------------------------------------------------------------------------
(* Goods *)

\* Bug: the goods other bills hold count as available.
ReserveShelf(b, n) ==
  /\ held' = [held EXCEPT ![b] = IF n <= shelf THEN n ELSE 0]
  /\ UNCHANGED <<shelf, out, missing>>

\* inventory.reserve: this bill's earlier hold is dropped, and a new one taken if
\* all it asks for is available.
Reserve(b, n) ==
  /\ held' = [held EXCEPT ![b] = IF n <= shelf - (Sum(held) - held[b]) THEN n ELSE 0]
  /\ UNCHANGED <<shelf, out, missing>>

\* inventory.release
Release(b) ==
  /\ held' = [held EXCEPT ![b] = 0]
  /\ UNCHANGED <<shelf, out, missing>>

\* Bug: the godown may go below nothing.
IssueGoodsUnguarded(b) ==
  /\ shelf' = shelf - held[b]
  /\ out' = [out EXCEPT ![b] = @ + held[b]]
  /\ held' = [held EXCEPT ![b] = 0]
  /\ UNCHANGED missing

\* inventory.issue: what the bill holds now leaves the godown.
IssueGoods(b) ==
  /\ held[b] <= shelf
  /\ shelf' = shelf - held[b]
  /\ out' = [out EXCEPT ![b] = @ + held[b]]
  /\ held' = [held EXCEPT ![b] = 0]
  /\ UNCHANGED missing

\* Bug: nothing comes back.
ReturnNothing(b) == UNCHANGED stock

\* inventory.returnToStock: each movement out is mirrored, once.
ReturnGoods(b) ==
  /\ shelf' = shelf + out[b]
  /\ out' = [out EXCEPT ![b] = 0]
  /\ UNCHANGED <<held, missing>>

\* inventory.adjust, outwards: refused below nothing, blind to holds.
Count(n) ==
  /\ OneAction => owner = NoOne
  /\ n <= shelf
  /\ shelf' = shelf - n
  /\ missing' = missing + n
  /\ UNCHANGED <<bills, held, out, books, task, owner, before, crashes>>

\* #reserve, called by the stock check, by submitting and by issuing
Hold(c) ==
  /\ At(c, "hold")
  /\ LET b == task[c].bill
         copy == task[c].copy IN
       /\ Reserve(b, copy.says.qty)
       /\ Then(c, [task[c] EXCEPT !.kind = IF held'[b] = 0 THEN "short" ELSE task[c].then])
  /\ UNCHANGED <<bills, books>>

\* Too few goods: the bill says so, and issuing it fails.
Short(c) ==
  /\ At(c, "short")
  /\ Current(c)
  /\ IF task[c].then = "issue" /\ OneAction
     THEN Restore
     ELSE /\ Save(c, [Bumped(task[c].copy) EXCEPT !.state = "NEEDS_INFO"])
          /\ UNCHANGED <<stock, books>>
  /\ End(c)

StartCheck(c, b) ==
  /\ Begin(c)
  /\ Editable(bills[b]) /\ bills[b].priced /\ bills[b].version < MaxVersion
  /\ task' = [task EXCEPT ![c] = [Work("hold", b, bills[b]) EXCEPT !.then = "let go"]]
  /\ UNCHANGED tables

\* Bug: the check keeps its hold.
LetGoKeeping(c) ==
  /\ At(c, "let go")
  /\ IF task[c].copy.state = "DRAFT" THEN End(c) ELSE Then(c, [task[c] EXCEPT !.kind = "clear"])
  /\ UNCHANGED <<bills, stock, books>>

\* checkStock lets go what it held for the check ...
LetGo(c) ==
  /\ At(c, "let go")
  /\ Release(task[c].bill)
  /\ IF task[c].copy.state = "DRAFT" THEN End(c) ELSE Then(c, [task[c] EXCEPT !.kind = "clear"])
  /\ UNCHANGED <<bills, books>>

\* ... and a bill that was short may go forward again.
Clear(c) ==
  /\ At(c, "clear")
  /\ Save(c, [Bumped(task[c].copy) EXCEPT !.state = "DRAFT"])
  /\ UNCHANGED <<stock, books>>
  /\ End(c)

-----------------------------------------------------------------------------
(* Approval and issue *)

StartSubmit(c, b) ==
  /\ Begin(c)
  /\ bills[b].state = "DRAFT" /\ bills[b].priced /\ bills[b].version < MaxVersion
  /\ task' = [task EXCEPT ![c] = [Work("hold", b, bills[b]) EXCEPT !.then = "park"]]
  /\ UNCHANGED tables

Park(c) ==
  /\ At(c, "park")
  /\ Save(c, [Bumped(task[c].copy) EXCEPT !.state = "PENDING_APPROVAL"])
  /\ UNCHANGED <<stock, books>>
  /\ End(c)

\* Bug: whoever made the bill may approve it.
MayIssueOwn(x, user) == x.says.big => x.state = "PENDING_APPROVAL"

\* A bill above the limit waits for approval, by someone else.
MayIssue(x, user) ==
  /\ x.says.big => x.state = "PENDING_APPROVAL"
  /\ x.state = "PENDING_APPROVAL" => user # "maker"

\* Bug: a bill that needs no approval is issued without holding its goods first.
StartIssueUnheld(c, b, user) ==
  /\ Begin(c)
  /\ bills[b].state \in {"DRAFT", "PENDING_APPROVAL"} /\ bills[b].priced
  /\ MayIssue(bills[b], user)
  /\ task' = [task EXCEPT ![c] = [Work("issue", b, bills[b]) EXCEPT !.then = "issue", !.user = user]]
  /\ UNCHANGED tables

StartIssue(c, b, user) ==
  /\ Begin(c)
  /\ bills[b].state \in {"DRAFT", "PENDING_APPROVAL"} /\ bills[b].priced
  /\ MayIssue(bills[b], user)
  /\ task' = [task EXCEPT ![c] = [Work("hold", b, bills[b]) EXCEPT !.then = "issue", !.user = user]]
  /\ UNCHANGED tables

\* Bug: the number is drawn whether or not the bill can be saved.
IssueNumberFirst(c) ==
  /\ At(c, "issue")
  /\ sequence' = sequence + 1
  /\ LET b == task[c].bill
         copy == task[c].copy IN
       \/ /\ Save(c, [Bumped(copy) EXCEPT
                        !.state = "FINAL", !.number = sequence + 1,
                        !.approvedBy = IF copy.state = "PENDING_APPROVAL" THEN task[c].user ELSE NoOne])
          /\ IssueGoods(b)
          /\ posted' = posted \cup {b}
          /\ UNCHANGED reversed
          /\ End(c)
       \/ /\ Exists(b) /\ ~Current(c)
          /\ UNCHANGED <<bills, stock, posted, reversed>>
          /\ Then(c, [task[c] EXCEPT !.kind = "look"])

\* finalise, its one transaction: number, entry, goods and bill together, or an
\* edit by someone else undoes them all.
Issue(c) ==
  /\ At(c, "issue")
  /\ LET b == task[c].bill
         copy == task[c].copy IN
       \/ /\ Save(c, [Bumped(copy) EXCEPT
                        !.state = "FINAL", !.number = sequence + 1,
                        !.approvedBy = IF copy.state = "PENDING_APPROVAL" THEN task[c].user ELSE NoOne])
          /\ IssueGoods(b)
          /\ sequence' = sequence + 1
          /\ posted' = posted \cup {b}
          /\ UNCHANGED reversed
          /\ End(c)
       \/ /\ Exists(b) /\ ~Current(c) /\ held[b] <= shelf
          /\ UNCHANGED tables
          /\ Then(c, [task[c] EXCEPT !.kind = "look"])

\* The goods are no longer there, or the bill is not: nothing is issued.
IssueRefused(c) ==
  /\ At(c, "issue")
  /\ held[task[c].bill] > shelf \/ ~Exists(task[c].bill)
  /\ Fail(c)

\* The loser of two issues looks again: if the bill is issued, that is the answer,
\* once the goods it held for itself are back on the shelf.
Look(c) ==
  /\ At(c, "look")
  /\ bills[task[c].bill].state = "FINAL"
  /\ UNCHANGED tables
  /\ Then(c, [task[c] EXCEPT !.kind = "put back"])

PutBack(c) ==
  /\ At(c, "put back")
  /\ Release(task[c].bill)
  /\ UNCHANGED <<bills, books>>
  /\ End(c)

\* A version conflict, or a bill that is gone, ends a command with an error.
Stale(c) ==
  /\ \/ task[c].kind \in {"price", "edit", "short", "park", "clear", "cancel"} /\ ~Current(c)
     \/ At(c, "look") /\ bills[task[c].bill].state # "FINAL"
  /\ Fail(c)

-----------------------------------------------------------------------------
(* Cancelling and discarding *)

\* Bug: a bill that is cancelled is cancelled again.
StartCancelAgain(c, b) ==
  /\ Begin(c)
  /\ Issued(bills[b])
  /\ task' = [task EXCEPT ![c] = Work("cancel", b, bills[b])]
  /\ UNCHANGED tables

\* checkCancel, outside the transaction
StartCancel(c, b) ==
  /\ Begin(c)
  /\ bills[b].state = "FINAL"
  /\ task' = [task EXCEPT ![c] = Work("cancel", b, bills[b])]
  /\ UNCHANGED tables

Cancel(c) ==
  /\ At(c, "cancel")
  /\ LET b == task[c].bill IN
       /\ Save(c, [Bumped(task[c].copy) EXCEPT !.state = "CANCELLED"])
       /\ ReturnGoods(b)
       /\ reversed' = reversed \cup {b}
  /\ UNCHANGED <<sequence, posted>>
  /\ End(c)

\* Bug: only issued bills are kept from a discard.
StartDiscardUnissued(c, b) ==
  /\ Begin(c)
  /\ Exists(b) /\ ~Issued(bills[b])
  /\ task' = [task EXCEPT ![c] = Work("discard", b, bills[b])]
  /\ UNCHANGED tables

StartDiscard(c, b) ==
  /\ Begin(c)
  /\ Editable(bills[b])
  /\ task' = [task EXCEPT ![c] = Work("discard", b, bills[b])]
  /\ UNCHANGED tables

Discard(c) ==
  /\ At(c, "discard")
  /\ Release(task[c].bill)
  /\ UNCHANGED <<bills, books>>
  /\ Then(c, [task[c] EXCEPT !.kind = "remove"])

\* repository.remove looks at the number, not at the version or the state.
Remove(c) ==
  /\ At(c, "remove")
  /\ bills[task[c].bill].number = 0
  /\ bills' = [bills EXCEPT ![task[c].bill] = Absent("GONE")]
  /\ UNCHANGED <<stock, books>>
  /\ End(c)

RemoveRefused(c) ==
  /\ At(c, "remove")
  /\ bills[task[c].bill].number # 0
  /\ Fail(c)

-----------------------------------------------------------------------------
Crash(c) ==
  /\ task[c] # Idle
  /\ crashes < MaxCrashes
  /\ crashes' = crashes + 1
  /\ Undone
  /\ task' = [task EXCEPT ![c] = Idle]
  /\ owner' = NoOne
  /\ before' = NoTables

Continue(c) ==
  \/ Insert(c) \/ Price(c) \/ Edit(c)
  \/ Hold(c) \/ Short(c) \/ LetGo(c) \/ Clear(c)
  \/ Park(c) \/ Issue(c) \/ IssueRefused(c) \/ Look(c) \/ PutBack(c) \/ Stale(c)
  \/ Cancel(c) \/ Discard(c) \/ Remove(c) \/ RemoveRefused(c)

Next ==
  \/ \E c \in Callers, b \in Bills :
       \/ \E says \in Contents : StartDraft(c, b, says) \/ StartEdit(c, b, says)
       \/ StartCheck(c, b) \/ StartSubmit(c, b) \/ StartCancel(c, b) \/ StartDiscard(c, b)
       \/ \E user \in Users : StartIssue(c, b, user)
  \/ \E c \in Callers : Continue(c) \/ Crash(c)
  \/ \E n \in Counts : Count(n)

Spec == Init /\ [][Next]_vars

-----------------------------------------------------------------------------
(* Properties *)

BillStates == {"NONE", "GONE", "DRAFT", "NEEDS_INFO", "PENDING_APPROVAL", "FINAL", "CANCELLED"}

Bill == [state : BillStates, version : Nat, says : Contents \cup {Nothing}, priced : BOOLEAN,
         number : Nat, approvedBy : Users \cup {NoOne}]

TypeOK ==
  /\ bills \in [Bills -> Bill]
  /\ held \in [Bills -> Nat]
  /\ shelf \in Nat
  /\ out \in [Bills -> Nat]
  /\ missing \in Nat
  /\ sequence \in Nat
  /\ posted \subseteq Bills
  /\ reversed \subseteq Bills
  /\ owner \in Callers \cup {NoOne}
  /\ crashes \in Nat

\* Number, entry and bill stand or fall together, and so do cancellation and
\* reversal: no entry without a bill, no bill without an entry.
EntriesMatch ==
  \A b \in Bills :
    /\ Issued(bills[b]) <=> b \in posted
    /\ Issued(bills[b]) <=> bills[b].number # 0
    /\ bills[b].state = "CANCELLED" <=> b \in reversed

\* Issued bills are numbered from 1 without a gap or a repeat, whoever wins.
NumbersRun ==
  /\ {bills[b].number : b \in {x \in Bills : bills[x].number # 0}} = 1..sequence
  /\ \A a, b \in Bills : bills[a].number = bills[b].number /\ bills[a].number # 0 => a = b

\* Whoever wins, loses, retries or dies, a bill is issued whole: with its entry
\* and with the next number (issue, service.ts:618).
IssuedTogether == EntriesMatch /\ NumbersRun

\* Two tills never hold the same goods.
HoldsAreCovered == missing = 0 => Sum(held) <= shelf

\* Every piece is on the shelf, sold by a bill that stands, or counted missing;
\* and what is promised to bills is there as long as none was counted missing.
GoodsAccounted ==
  /\ HoldsAreCovered
  /\ shelf + Sum(out) + missing = Stock
  /\ \A b \in Bills : out[b] # 0 => bills[b].state = "FINAL"

\* A bill above the limit is issued only once someone who did not make it approved it.
ApprovedByAnother ==
  \A b \in Bills : Issued(bills[b]) /\ bills[b].says.big => bills[b].approvedBy = "other"

\* An issued bill is whole, and was approved by another where it had to be.
IssuedProperly == IssuedTogether /\ ApprovedByAnother

\* An issued bill is never edited, removed or issued again.
IssuedStays ==
  [][\A b \in Bills : Issued(bills[b]) =>
       \/ bills'[b] = bills[b]
       \/ bills[b].state = "FINAL" /\ bills'[b] = [Bumped(bills[b]) EXCEPT !.state = "CANCELLED"]]_vars

\* An issued bill's goods, all of them and no more, have left the godown.
IssuedGoodsLeft ==
  \A b \in Bills : bills[b].state = "FINAL" => out[b] = bills[b].says.qty

\* Between commands, only a bill that waits for approval holds goods.
OnlyWaitingBillsHold ==
  owner = NoOne => \A b \in Bills : held[b] # 0 => bills[b].state = "PENDING_APPROVAL"
=============================================================================
