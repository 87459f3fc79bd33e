------------------------------- MODULE Ledger -------------------------------
(***************************************************************************)
(* The books of one company (packages/ledger/src/service.ts) when several  *)
(* callers use the service at once.  Every store transaction holds the     *)
(* company lock (adapters/memory.ts, or the unit of work of                *)
(* platform/src/database.ts), so one transaction is one action; what the   *)
(* service does before, between and after its transactions interleaves:    *)
(* setPeriodState decides on a read made before its transaction,           *)
(* amendVoucher is two transactions, audit records follow the commit.      *)
(*                                                                         *)
(* A date is its month; all months are of one financial year.  A refused   *)
(* command changes nothing and is left out, except where a refusal comes   *)
(* after a first transaction has committed.                                *)
(***************************************************************************)
EXTENDS Integers, Sequences, FiniteSetsExt

CONSTANTS
  Callers,        \* actions running at the same time
  Months,
  BeforeStart,    \* months before booksStartDate
  Keys,           \* idempotency keys callers choose
  Entries,        \* line lists callers may hand over, valid or not
  Postable,       \* accounts that are active and not a heading
  MaxVouchers,    \* bound on the number of entries
  MaxCrashes      \* bound on processes that die

ASSUME LedgerAssumption ==
  /\ BeforeStart \subseteq Months
  /\ MaxVouchers \in Nat
  /\ MaxCrashes \in Nat
  /\ Entries \subseteq Seq([account : STRING, debit : Int, credit : Int])

VARIABLES
  books,          \* the vouchers in the order they were inserted; an id is a place
  remembered,     \* idempotency_record: key -> voucher, 0 when not recorded
  sequence,       \* ledger_sequence by voucher type
  period,         \* fiscal_period.state, NONE before the row exists
  task,           \* what each caller still has to do
  toAudit,        \* the voucher a caller has committed and not yet audited, or 0
  audits,         \* audit events written, by voucher
  crashes

vars == <<books, remembered, sequence, period, task, toAudit, audits, crashes>>
tables == <<books, remembered, sequence, period>>

Types == {"JOURNAL", "REVERSAL"}
States == {"NONE", "OPEN", "SOFT_LOCKED", "HARD_LOCKED"}
\* amendVoucher derives a key for each of its two transactions.
Reversal(k) == <<k, "reversal">>
Replacement(k) == <<k, "replacement">>
AllKeys == (Keys \X {"direct"}) \cup {Reversal(k) : k \in Keys} \cup {Replacement(k) : k \in Keys}

Idle == [kind |-> "idle"]
Ids == 1..Len(books)

Free(c) == task[c] = Idle /\ toAudit[c] = 0

-----------------------------------------------------------------------------
(* The posting rules *)

Total(f) == MapThenSumSet(LAMBDA x : f[x], DOMAIN f)

Debits(lines) == Total([i \in DOMAIN lines |-> lines[i].debit])
Credits(lines) == Total([i \in DOMAIN lines |-> lines[i].credit])

Balanced(lines) == Debits(lines) = Credits(lines)

\* validatePosting: at least two lines, each on exactly one side of an account
\* that takes postings, and the two sides equal.
Valid(lines) ==
  /\ Len(lines) >= 2
  /\ \A i \in DOMAIN lines :
       /\ lines[i].debit >= 0 /\ lines[i].credit >= 0
       /\ (lines[i].debit = 0) # (lines[i].credit = 0)
       /\ lines[i].account \in Postable
  /\ Balanced(lines)

\* Bug: an amount is negated instead of changing sides.
MirrorNegated(lines) ==
  [i \in DOMAIN lines |-> [lines[i] EXCEPT !.debit = -lines[i].debit, !.credit = -lines[i].credit]]

\* Bug: the reversal repeats the entry instead of mirroring it.
MirrorRepeated(lines) == lines

\* mirrorLines: every line changes sides.
Mirror(lines) ==
  [i \in DOMAIN lines |-> [lines[i] EXCEPT !.debit = lines[i].credit, !.credit = lines[i].debit]]

\* Bug: an override opens every lock.
CanPostOverriding(month, override) ==
  /\ month \notin BeforeStart
  /\ period[month] \in {"SOFT_LOCKED", "HARD_LOCKED"} => override

\* checkDatePostable: the override carries a reason and the permission.
CanPost(month, override) ==
  /\ month \notin BeforeStart
  /\ period[month] # "HARD_LOCKED"
  /\ period[month] = "SOFT_LOCKED" => override

\* ensurePeriod: a month nobody has closed gets its row.
Ensured(month) == [period EXCEPT ![month] = IF @ = "NONE" THEN "OPEN" ELSE @]

\* Bug: one sequence numbers all types.
VoucherOneSequence(type, month, lines, key, reverses) ==
  [type |-> type, number |-> Len(books) + 1, month |-> month, lines |-> lines,
   key |-> key, state |-> "FINAL", reversedBy |-> 0, reverses |-> reverses]

\* buildVoucher: the number comes from the sequence of its type.
Voucher(type, month, lines, key, reverses) ==
  [type |-> type, number |-> sequence[type] + 1, month |-> month, lines |-> lines,
   key |-> key, state |-> "FINAL", reversedBy |-> 0, reverses |-> reverses]

\* Bug: the key is not remembered.
InsertForgetting(v, marked) ==
  /\ Len(books) < MaxVouchers
  /\ books' = Append(marked, v)
  /\ sequence' = [sequence EXCEPT ![v.type] = v.number]
  /\ period' = Ensured(v.month)
  /\ UNCHANGED remembered

\* Insert, remember the key, count the number: the end of every posting.
Insert(v, marked) ==
  /\ Len(books) < MaxVouchers
  /\ books' = Append(marked, v)
  /\ remembered' = [remembered EXCEPT ![v.key] = Len(books) + 1]
  /\ sequence' = [sequence EXCEPT ![v.type] = v.number]
  /\ period' = Ensured(v.month)

-----------------------------------------------------------------------------
Init ==
  /\ books = <<>>
  /\ remembered = [k \in AllKeys |-> 0]
  /\ sequence = [t \in Types |-> 0]
  /\ period = [m \in Months |-> "NONE"]
  /\ task = [c \in Callers |-> Idle]
  /\ toAudit = [c \in Callers |-> 0]
  /\ audits = [i \in 1..MaxVouchers |-> 0]
  /\ crashes = 0

\* The transaction of postVoucher: a repeat of the key returns what it made before.
Post(key, month, lines, override) ==
  /\ remembered[key] = 0
  /\ CanPost(month, override)
  /\ Valid(lines)
  /\ Insert(Voucher("JOURNAL", month, lines, key, 0), books)

\* Bug: an entry that has been undone can be undone again.
UndoAgain(key, id, month, override) ==
  /\ remembered[key] = 0
  /\ CanPost(month, override)
  /\ Insert(Voucher("REVERSAL", month, Mirror(books[id].lines), key, id),
            [books EXCEPT ![id].state = "REVERSED", ![id].reversedBy = Len(books) + 1])

\* Bug: the original moves to the month of its reversal.
UndoRedating(key, id, month, override) ==
  /\ remembered[key] = 0
  /\ books[id].state = "FINAL"
  /\ CanPost(month, override)
  /\ Insert(Voucher("REVERSAL", month, Mirror(books[id].lines), key, id),
            [books EXCEPT ![id].state = "REVERSED", ![id].reversedBy = Len(books) + 1,
                          ![id].month = month])

\* The transaction of reverseVoucher: the mirror, dated now, and the mark on the
\* original.
Undo(key, id, month, override) ==
  /\ remembered[key] = 0
  /\ books[id].state = "FINAL"
  /\ books[id].reversedBy = 0
  /\ CanPost(month, override)
  /\ Insert(Voucher("REVERSAL", month, Mirror(books[id].lines), key, id),
            [books EXCEPT ![id].state = "REVERSED", ![id].reversedBy = Len(books) + 1])

\* What follows a committed posting, before its audit event is written.
Committed(c) == toAudit' = [toAudit EXCEPT ![c] = Len(books) + 1]

PostVoucher(c, k, month, lines, override) ==
  /\ Free(c)
  /\ Post(<<k, "direct">>, month, lines, override)
  /\ Committed(c)
  /\ UNCHANGED <<task, audits, crashes>>

ReverseVoucher(c, k, id, month, override) ==
  /\ Free(c)
  /\ Undo(<<k, "direct">>, id, month, override)
  /\ Committed(c)
  /\ UNCHANGED <<task, audits, crashes>>

Amending(k, month, lines, override) ==
  [kind |-> "amend", key |-> k, month |-> month, lines |-> lines, override |-> override]

\* amendVoucher, first transaction.  A retry of the same amendment finds its
\* reversal and goes on to the second.
AmendReverse(c, k, id, month, newMonth, lines, override) ==
  /\ Free(c)
  /\ task' = [task EXCEPT ![c] = Amending(k, newMonth, lines, override)]
  /\ IF remembered[Reversal(k)] = 0
     THEN Undo(Reversal(k), id, month, override) /\ Committed(c)
     ELSE UNCHANGED <<tables, toAudit>>
  /\ UNCHANGED <<audits, crashes>>

\* amendVoucher, second transaction: the corrected entry, unless this amendment
\* already made it.
AmendReplace(c) ==
  /\ task[c].kind = "amend"
  /\ toAudit[c] = 0
  /\ LET t == task[c] IN
       IF remembered[Replacement(t.key)] = 0
       THEN Post(Replacement(t.key), t.month, t.lines, t.override) /\ Committed(c)
       ELSE UNCHANGED <<tables, toAudit>>
  /\ task' = [task EXCEPT ![c] = Idle]
  /\ UNCHANGED <<audits, crashes>>

\* The corrected entry is refused; the reversal stays.
AmendRefused(c) ==
  /\ task[c].kind = "amend"
  /\ toAudit[c] = 0
  /\ remembered[Replacement(task[c].key)] = 0
  /\ ~(CanPost(task[c].month, task[c].override) /\ Valid(task[c].lines))
  /\ task' = [task EXCEPT ![c] = Idle]
  /\ UNCHANGED <<tables, toAudit, audits, crashes>>

\* Bug: the event is written and still counted as missing.
AuditKeeping(c) ==
  /\ toAudit[c] # 0
  /\ audits' = [audits EXCEPT ![toAudit[c]] = @ + 1]
  /\ UNCHANGED <<tables, task, toAudit, crashes>>

\* Bug: an amendment's reversal is audited only once the amendment is over.
AuditAtTheEnd(c) ==
  /\ toAudit[c] # 0
  /\ task[c] = Idle
  /\ audits' = [audits EXCEPT ![toAudit[c]] = @ + 1]
  /\ toAudit' = [toAudit EXCEPT ![c] = 0]
  /\ UNCHANGED <<tables, task, crashes>>

\* The audit event, after the commit.
Audit(c) ==
  /\ toAudit[c] # 0
  /\ audits' = [audits EXCEPT ![toAudit[c]] = @ + 1]
  /\ toAudit' = [toAudit EXCEPT ![c] = 0]
  /\ UNCHANGED <<tables, task, crashes>>

\* Bug: the month is not looked at first.
ReadPeriodUnchecked(c, month, state) ==
  /\ Free(c)
  /\ task' = [task EXCEPT ![c] = [kind |-> "period", month |-> month, state |-> state]]
  /\ UNCHANGED <<tables, toAudit, audits, crashes>>

\* setPeriodState looks at the month outside its transaction ...
ReadPeriod(c, month, state) ==
  /\ Free(c)
  /\ period[month] # "HARD_LOCKED"
  /\ task' = [task EXCEPT ![c] = [kind |-> "period", month |-> month, state |-> state]]
  /\ UNCHANGED <<tables, toAudit, audits, crashes>>

\* ... and sets the month inside it, whatever it is by then.
SetPeriod(c) ==
  /\ task[c].kind = "period"
  /\ period' = [period EXCEPT ![task[c].month] = task[c].state]
  /\ task' = [task EXCEPT ![c] = Idle]
  /\ UNCHANGED <<books, remembered, sequence, toAudit, audits, crashes>>

Crash(c) ==
  /\ ~Free(c)
  /\ crashes < MaxCrashes
  /\ crashes' = crashes + 1
  /\ task' = [task EXCEPT ![c] = Idle]
  /\ toAudit' = [toAudit EXCEPT ![c] = 0]
  /\ UNCHANGED <<tables, audits>>

\* What a caller does on its own once a command has begun
Continue(c) == AmendReplace(c) \/ AmendRefused(c) \/ Audit(c) \/ SetPeriod(c)

Next ==
  \E c \in Callers :
    \/ \E k \in Keys, m \in Months, e \in Entries, o \in BOOLEAN : PostVoucher(c, k, m, e, o)
    \/ \E k \in Keys, i \in Ids, m \in Months, o \in BOOLEAN : ReverseVoucher(c, k, i, m, o)
    \/ \E k \in Keys, i \in Ids, m, n \in Months, e \in Entries, o \in BOOLEAN :
         AmendReverse(c, k, i, m, n, e, o)
    \/ \E m \in Months, s \in States \ {"NONE"} : ReadPeriod(c, m, s)
    \/ Continue(c)
    \/ Crash(c)

Spec == Init /\ [][Next]_vars

\* A command that has begun goes on as long as its process lives.
Fairness == \A c \in Callers : WF_vars(Continue(c))
FairSpec == Spec /\ Fairness

-----------------------------------------------------------------------------
(* Properties *)

TypeOK ==
  /\ books \in Seq([type : Types, number : Nat, month : Months, key : AllKeys,
                    lines : Seq([account : STRING, debit : Nat, credit : Nat]),
                    state : {"FINAL", "REVERSED"}, reversedBy : Nat, reverses : Nat])
  /\ remembered \in [AllKeys -> Nat]
  /\ sequence \in [Types -> Nat]
  /\ period \in [Months -> States]
  /\ \A c \in Callers : task[c].kind \in {"idle", "amend", "period"}
  /\ toAudit \in [Callers -> Nat]
  /\ audits \in [1..MaxVouchers -> Nat]
  /\ crashes \in Nat

\* An entry is undone at most once, and the two entries name each other.
ReversalsPair ==
  \A i, j \in Ids :
    /\ books[i].reversedBy = j <=> books[j].reverses = i
    /\ books[i].state = "REVERSED" <=> books[i].reversedBy # 0

\* However often a command is retried, a key makes one entry, and the entry the
\* key is remembered for is the one that carries it.
OneEntryPerKey ==
  /\ \A i, j \in Ids : books[i].key = books[j].key => i = j
  /\ \A k \in AllKeys : remembered[k] # 0 =>
       remembered[k] \in Ids /\ books[remembered[k]].key = k
  /\ \A i \in Ids : remembered[books[i].key] = i

\* Numbers of a type run from 1 without a gap in the order the entries were made.
NumbersRun ==
  \A t \in Types :
    LET mine == {i \in Ids : books[i].type = t} IN
    /\ {books[i].number : i \in mine} = 1..sequence[t]
    /\ \A i, j \in mine : i < j => books[i].number < books[j].number

\* What an entry adds to the balance of an account
Net(i, a) ==
  LET lines == books[i].lines
  IN  Total([n \in DOMAIN lines |-> IF lines[n].account = a THEN lines[n].debit - lines[n].credit ELSE 0])

\* An entry stands unless it was undone and its undoing was not.
Stands[i \in Ids] == books[i].reversedBy = 0 \/ ~Stands[books[i].reversedBy]

\* The balance of an account over the entries of S
BalanceOf(S, a) == Total([i \in S |-> Net(i, a)])

\* Every entry balances, and the balance of an account is that of the entries
\* that were made by hand and stand, whatever was undone and undone again.
BooksShowWhatStands ==
  /\ \A i \in Ids : Balanced(books[i].lines)
  /\ \A a \in Postable :
       BalanceOf(Ids, a) = BalanceOf({i \in Ids : books[i].reverses = 0 /\ Stands[i]}, a)

\* No entry is audited twice, whatever is retried.
AuditedOnce == \A i \in 1..MaxVouchers : audits[i] <= 1

\* A month that is closed for good takes no entry, by any path, and the figures
\* reported from it never move.
NothingInClosedMonths ==
  \A i \in 1..Len(books') :
    i > Len(books) => period[books'[i].month] # "HARD_LOCKED"

\* An entry once made keeps its amounts, month and number for ever.
EntriesAreKept ==
  [][\A i \in Ids :
       /\ i <= Len(books')
       /\ books'[i] = [books[i] EXCEPT !.state = books'[i].state, !.reversedBy = books'[i].reversedBy]
       /\ books[i].reversedBy # 0 => books'[i] = books[i]]_vars

\* However often a command is retried, by whomever, it leaves one entry, one
\* number in its sequence and at most one audit event.
OnceEach == OneEntryPerKey /\ NumbersRun /\ AuditedOnce

\* The books balance and show what stands: an entry is undone at most once, by
\* its mirror, and no undoing of an undoing moves a balance it should not.
BooksHold == ReversalsPair /\ BooksShowWhatStands

\* While no process dies every entry gets its audit event.
EventuallyAudited == []<>(\A i \in Ids : audits[i] = 1)
=============================================================================
