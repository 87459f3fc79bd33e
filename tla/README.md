# Invoice-Product: models, checks and proofs

TLA+ models of the parts of Invoice-Product in which order, failure or
concurrency decides whether the figures are right: how a request writes to the
database, what a process keeps of it in memory, the outbox and the scheduled
work that run outside requests, the books, the bills, the stock, purchases,
money received and owed, what the government and the bank are told and answer,
and who may do what in a business. TLC checks them on small instances; TLAPS
proves the outbox, the unit of work, the bills, the ledger, the stock and the
team for every size.

Paths below are relative to the repository (`src/` in `PROJECT.json`).

    tlc -config Workers.cfg MCWorkers        # a run: PROJECT.json lists all twelve
    tlapm LedgerProofs.tla                   # proofs: the modules *Proofs and Sums

## 1. The system

A single TypeScript code base: domain packages (`packages/*`) with pure rules
and services, an API server and a worker (`apps/api`), operations tooling
(`ops/*`) and a browser client (`apps/web`).
PostgreSQL holds everything. Domain services are synchronous or take a store;
three ways of keeping state meet under them:

* relational stores (ledger, sales, inventory, e-invoices, outbox, recurring
  jobs): SQL inside the company's transaction;
* `DurableMap`s: maps in memory written through to one table, `app_records`;
* a process's copy of the master data, refreshed from an append-only table.

### How a request runs

`server.ts` authenticates the session and reads its permissions, checks the
route's gate, then opens `asOneAction` for a change and `asOneRead` for a read
(`apps/api/src/durable.ts`). `asOneAction` is one unit of work
(`platform/src/database.ts`): one connection, one transaction, one advisory
lock of the company taken on the first statement; a nested unit is a
savepoint. Messages for the outside world are rows of the outbox written in
the same transaction; a worker's relay sends them later. Scheduled jobs are
rows too; any worker may claim them. Audit events of the ledger are written
after its transaction.

### Components

| component | state | operations | interacts with |
|---|---|---|---|
| unit of work (`platform/database.ts`) | pool, company locks, frames of savepoints | open, nest, write, swallow an error, commit, roll back, lose the connection, time out | everything that writes |
| durable maps (`api/durable.ts`) | memory, `app_records`, loads in progress | set, delete, action, read, forget, reload | unit of work |
| master copy (`api/master-data.ts`) | rows, last number, stale mark, chain of refreshes | refresh, write a version, fail | unit of work, every synchronous reader |
| outbox (`platform/outbox.ts`) | message rows, claims, leases, attempts | enqueue, claim, call, save, fail, replay | handlers (e-invoice, notifications), worker |
| recurring work (`operations/recurring-postgres.ts`) | job rows, claims, kept slots | schedule, claim, run, record, replay | worker, unit of work |
| ledger (`packages/ledger`) | vouchers, keys, sequences, period locks, audit | post, reverse, amend, lock a period | sales, inventory, receivables |
| sales bills (`packages/sales`) | bills with versions, approvals | draft, edit, price, check stock, send for approval, decide, issue, cancel, discard | ledger, inventory |
| inventory (`packages/inventory`) | movements, holds | receive, count, move, transfer, hold, consume, release, return | ledger, sales |
| delivery challans (`sales/challan-service.ts`) | challans, their holds | issue, bill, link, cancel | inventory, sales |
| returns (`packages/returns`) | credit and debit notes of a bill | look, record goods, a whole bill, a price | sales, inventory, ledger |
| GST calculation (`packages/gst-calc`) | none | a bill's lines, taxes, charges, rounding, tables | sales, purchasing, returns |
| receivables (`packages/receivables`) | payments, allocations, cheques, advances | record, allocate, refund, bounce, write off, apply, reverse | ledger, sales |
| bank feeds and matching (`packages/bank-feeds`, `bank-reconciliation`) | connections, lines, matches | connect, sync, disconnect, run, confirm, undo | receivables, the bank |
| collections (`packages/collections`) | reminders, promises, disputes | plan, remind, escalate, retry | notifications, receivables |
| action agent (`packages/action-agent`) | plans, commands, reports | plan, approve, reject, execute | every service |
| purchasing (`packages/purchasing`) | orders, deliveries, bills, matches | place, receive, record, reverse, match, accept | inventory, ledger |
| purchase inbox (`purchasing/inbox.ts`) | documents held and filed, contents, drafts | take in, screen, scan, file, read, assign, retry | purchasing |
| migration (`packages/migration`) | batches, what they wrote | analyse, approve, commit, unwind, roll back | masters, inventory, ledger |
| e-invoices (`gst/einvoice-service.ts`) | registrations | prepare, ask, complete, retry, reconcile, cancel | outbox, portal |
| e-way bills (`packages/transport`) | permits, vehicles | raise, change vehicle, extend, cancel, reject, reconcile | portal |
| government channel (`packages/gsp`) | permission, call log, callbacks | ask for and confirm consent, call, apply a callback, reconcile | portal |
| input credit and returns (`packages/itc`, `gst-returns`) | statements, answers, claims, prepared months | import, decide, prepare, approve, reopen | purchasing, returns |
| team (`platform/team.ts`) | memberships, roles, invitations | invite, withdraw, accept, change role, remove, leave, hand over | sessions |
| sign-in sessions (`api/sign-in.ts`) | sessions | sign in, switch company, sign out | team |
| subscriptions, compliance calendar, onboarding, idempotent commands, support access | plans, due dates, steps, keys | renew, remind, set up, repeat, grant | ledger, platform |
| rules, rates, HSN, trade terms, money | none | pure functions | sales, purchasing |
| everything else (reports, templates, release gates, registers, clients) | none of its own | read, render, report | |

`PROJECT.json` lists 41 components with their files: two are modelled whole
(the outbox and the sales bills), 23 in part, each with a note of what is left
out, and 16 not at all, with the reason.

### What is hard

* **Interleaving.** Store transactions are serial per company, but a command is
  often several of them, with reads before the first one; two commands of the
  same company interleave between transactions unless the API's unit of work
  surrounds them. Memory and the master copy are shared by requests of a
  process without any lock. A bank, a provider and a scanner are asked outside
  any transaction.
* **Failure.** A statement may fail and be swallowed; COMMIT may be answered
  with ROLLBACK or not at all; a worker may die anywhere; a process may die
  after a commit and before what follows it; an answer of a portal may be lost
  after it acted; an import may fail at any row.
* **Time.** Leases, signals, back-off, session ends, schedule slots, windows of
  a permit; timers may be late, calls may outlive their leases.
* **Order.** Stock is valued by date and not by arrival; sequence numbers are
  drawn before they are committed; a request is authenticated before it waits;
  a person approves what the books may have left behind.
* **Sums that must agree over long sequences.** What is allocated, credited,
  sent back or claimed, over many documents, never exceeds what there is.

The list of hazards in `PROJECT.json` gives the line of each.

## 2. Modules

| module | models | abstract or composed with |
|---|---|---|
| `Outbox` | `OutboxRelay.drain`, `enqueue`, replay | implements `Delivery` |
| `Delivery` | what the outbox promises whoever puts a message in it | abstract specification |
| `Recurring` | `runRecurringJobs`: claim, run, record, replay | |
| `EInvoice` | a bill's number: message, person, retry, reconciliation, cancellation | the outbox's claim and lease, the company's lock, the portal |
| `UnitOfWork` | `inUnitOfWork`, nested units, the lock, the pool, units opened beside one | |
| `Durable` | `DurableMap`, `asOneAction`, `asOneRead`, `forgetUnsavedWrites` | the lock of `UnitOfWork` in one variable |
| `MasterView` | refresh, copy, failure hook | the same |
| `Ledger` | `postVoucher`, `reverseVoucher`, `amendVoucher`, `setPeriodState` | |
| `Receivables` | payments, allocations, cheques, refunds, advances, bad debts | the bills they settle |
| `Returns` | credit and debit notes of one bill | |
| `BankFeed` | permission, sync, reply, end of one connection | the bank |
| `BankMatch` | candidates, runs, confirmations, undoing | lines and receipts |
| `Sales` | every command of `SalesService` on a bill | the holds and movements of inventory, the entry of the ledger |
| `Challans` | challans and the holds the API's hooks keep for them | bills and stock |
| `Gsp` | permission, log of calls, callbacks, reconciliation | the provider |
| `EwayBill` | one permit and the portal that gives it | the portal |
| `Credit` | comparison, answers, claims, prepared and approved months | goods sent back |
| `Inventory` | the stock ledger of one item and its valuation | implements `Godown` |
| `Godown` | what inventory promises: goods on hand, goods promised | abstract specification |
| `Collections` | plan, reminders, the sending limit, escalation | notifications |
| `ActionAgent` | plans, approval by fingerprint, execution, the command beside each | the books as sums due |
| `Purchasing` | one order, its deliveries and bills, matching | stock and books |
| `Migration` | batches: analysis, commit row by row, unwinding, rollback | masters, stock, one voucher |
| `Tax` | lines, charges, totals, rounding, tables by code and item | reference sums |
| `Inbox` | suppliers' documents from delivery to draft | the scanner, the reader |
| `Team` | team service, roles, invitations | |
| `Session` | sign-in, switch, sign-out, removal | |
| `UnitOfWorkProofs`, `ReceivablesProofs` | theorems about the module of that name | extend it |
| `OutboxProofs` | theorems about `Outbox`, and about `EInvoice` and `Recurring` in `MCWorkers` | extends `MCWorkers` |
| `LedgerProofs` | theorems about `Ledger`, and about `BankFeed`, `BankMatch` and three instances of `Receivables` in `MCLedger` | extends `MCLedger` |
| `SalesProofs` | theorems about `Sales`, and about `Challans`, `Gsp`, `EwayBill` and `Credit` in `MCSales` | extends `MCSales` |
| `InventoryProofs` | theorems about `Inventory`, and about what stands beside it in `MCInventory` | extends `MCInventory` |
| `PeopleProofs` | theorems about `Team`, `Session` and the two of them in `MCPeople` | extends `MCPeople` |
| `Sums` | lemmas about sums over finite sets and functions defined by recursion | used by four of them |
| `MC*` | instances for TLC, several modules side by side | |

### How state and actions correspond

* **Outbox.** A message is a row; `due` is `available_at` as ticks left,
  `claim` its `claim_token`; `saves` counts the handler's `save` steps that
  committed. `pc` walks a relay through `drain`: `Claim` (the short
  transaction), `StartSend` and `HandlerOk`/`HandlerFail`/`Abort` (the
  handler's call and its signal), `SaveAndMark` or one of `SaveLosesClaim`,
  `SaveFails`, `SaveAnswerLost`, then `RecordFailure` where there was one, and
  `Finish`. A handler that ignores its signal goes on (`stray`). `Crash` ends
  a relay anywhere; `Replay` is the person's. A tick is 15 seconds. A token is
  taken again only once no row and no relay holds it, where a UUID is never
  used twice: that keeps the states finite and changes no behaviour.
  `Delivery` forgets relays, claims and leases: a message waits, may be
  answered any number of times, is saved once or given up, and is put back.
* **Recurring.** `row` is the job's row; a worker's `claim` is what it
  remembers from its claim transaction; `kept` and `done` are history, the
  slots whose run was saved in time and the last one recorded. Runs and the
  record of their results wait for the company's lock.
  `Pace` says how slow things may be: `"prompt"` (a run stops when told to),
  `"overruns"` (it may outlive the lease), `"any"`.
* **EInvoice.** `record` is the row of `e_invoices`, `portal` what the
  government holds, `call` what a relay or a request is waiting for. A relay
  holds nothing while the portal answers; a request is one unit of work, its
  portal call included. `drift` is history: the bills that differ from
  the portal because an answer was lost, or because a relay's late one was
  saved over a cancellation.
* **UnitOfWork.** `frames` are the writes of each open savepoint, `aborted` is
  PostgreSQL's failed-transaction state, `books` what is committed, `answer`
  what the caller is told. Locks are advisory locks, given to any of those who
  wait, with `lock_timeout`.
* **Durable.** `mem` and `rows` are a map and its rows; `queue`, `sets` and
  `sealing` the writes that start from synchronous code and land later; `todo`
  and `snap` a reload in progress, row by row. Opening a company for the first
  time is the initial state. Records frozen at load time and the privacy scrub
  are left out.
* **MasterView.** A version is its sequence number. `copies` are the copy in
  use and the one being built aside; `chain` the refreshes that take turns;
  `used` what an action has read. What a version says is left out.
* **Ledger.** `books` is the sequence of vouchers. `task` is a command between
  its two transactions, or with its read made: amendment and period change.
  A refused command changes nothing and has no action, unless an earlier
  transaction of it has committed.
* **Receivables.** `bill` has what is open on each document, `pay` the
  payments with what each allocates and settles, `party` the party's account
  in the books. A request is one unit of work, so an operation is one step;
  `Kinds` chooses which operations a case looks at.
* **Returns.** `note` has the note made under each key, `asked` what a request
  looked at and has not yet recorded; the recording works everything out
  again. A line's share is rounded as the code rounds it.
* **BankFeed, BankMatch.** A command reads in one unit of work, lets go, asks
  the bank, and writes in a second one that checks again. The bank numbers its
  lines and may send them again. A run compares lines and receipts it read
  before its unit of work.
* **Sales.** A bill's content is one of a few (quantity, value above the
  approval limit or not, priceable or not). A request reads the bill, then
  runs its transactions, each an action; the bill is written only if its
  version is still the one read. `OneAction` says whether the API's unit of
  work surrounds the request: then nobody else moves until it is over and a
  refusal undoes everything. Without it, as the service's own tests and
  tooling call it, transactions interleave. Both are checked, because the
  service's guarantees do not all survive without it (section 6).
* **Challans.** A challan and its hold belong to two services, joined by the
  hooks of the API, and both are here; a request is one step.
* **Gsp.** A call is logged before it is made and marked after it, in one unit
  of work; `stray` are requests that may still arrive. A callback is looked up
  by its process (`known`), waits for the lock, and is written (`stored`).
* **EwayBill.** Under a key it has answered before, the portal says what it
  said then and does nothing (`adapters.ts`); time runs in ticks through the
  windows in which a permit may be cancelled, rejected, extended.
* **Credit.** A month's comparison is an operator of the books, the statement
  and the answers; `claim` is `itc_claims`, and a return keeps the photograph
  it was made from.
* **Inventory.** `moves` is the movement table; a balance, a layer value and
  the stock report are computed from it as `balances.ts` does, in date order.
  One item in base units, no batches or serial numbers. `Godown` knows goods on
  hand and promised per document, and has one step for goods that move.
* **Collections, ActionAgent.** A message is sent from inside a unit of work:
  when that fails, what the provider delivered stays. A plan is expanded again
  when it is executed and runs only if it comes out the same.
  `report` says what the assistant was told of a step, `ran` which reminders went.
* **Purchasing.** Quantities are the order's, the deliveries' and the bills'. A
  bill has the delivery that brought its goods (`by`, a fact) and the one it names
  (`came`, what posting looks at); `Compared` are the deliveries a bill is matched
  with: its order's, all of its supplier's, or none.
* **Migration.** A row of a file is known by its place; `brought` says of each
  whether it is in, was taken out, or neither. A commit goes row by row and
  unwinds on failure, a rollback goes the other way. `disturbed` is history:
  the batches that may not know of a write, because a commit of them failed
  between a write and its record, or somebody took goods while they were being
  taken out.
* **Inbox.** A document moves from `held` to `stored`; each step saves what
  its process last knew of it.
* **Tax.** Amounts are paise, rates hundredths of a per cent, as integers; the
  result of a bill is a record, compared with sums taken independently.
* **Team.** A request is authenticated (its permissions are read), waits, and
  is served later on the members as they then are. `"custom"` stands for a
  member tailored permission by permission; what such a member holds is a
  constant.
* **Session.** Sign-in and switch are several statements; `asked` is what a
  request has yet to do. The idle end is left out, only the absolute one
  (`SESSION_ABSOLUTE_MS`) is modelled; codes and their provider are not.

The head of each module says what it leaves out.

## 3. Runs

Modules that share no state are checked in one run, side by side: a variable
`case` is chosen at the start and only the component of that case moves, the
others staying in their single initial state. It checks exactly what a run for
each would, `case` names the instance, and symmetry is used only where every
set it permutes is interchangeable in every case.

| run | instance and bounds | what it shows |
|---|---|---|
| `workers` | outbox: 2 messages, 2 relays, batch 2, 2 attempts, 1 crash or 1 replay, 2 failures, timers late, handler ignoring its signal (`outbox`); 2 workers, 2 jobs that stop in time (`prompt`); 2 workers, 1 job, anything slow, 1 crash (`late`); a bill's number asked for by 2 relays and a person, 2 losses, leases that hold (`held`) and that lapse (`lapsing`) | the outbox implements `Delivery`; no result saved twice, claims stand only for work to be done; a slot is run once; a bill shows what the government has but for an answer that was lost, or that a relay brought after the bill was cancelled |
| `ledger_books` | ledger: 3 entries, one caller over 2 months, of which one is closed, with every kind of entry (`alone`), 2 callers over 1 month, 1 crash (`together`); receivables: a sale and a purchase, 2 sales, or 3 payments (`both`, `customer`, `three`); 3 notes on a bill of 3 pieces and freight (`notes`); a bank of 2 lines, 2 callers, 2 keys, 1 lost call (`feed`); 2 lines and a receipt of both, at most 3 matches (`matching`) | keys, numbers and audit once each, reversals pair off, balances are those of the entries that stand, closed months take nothing; no rupee is spent twice and screens agree with the books; credit never outgrows the bill; bank lines come once and match once |
| `sales_bills` | 2 requests, 2 bills, 2 pieces: transactions interleaving with 1 crash, versions up to 3 and 2 (`tills`), with a stock count (`count`), one unit of work per request, versions up to 5 (`requests`); 1 call, 2 callbacks, 2 deliveries, 1 failure (`line`); 2 challans, 2 bills, 3 pieces, 1 lost (`challans`); a permit of 2 ticks, 2 vehicles, 3 keys, 1 loss (`road`); 1 bill and goods of it sent back over 2 months, 3 inputs (`credit`) | bill, number, entry and goods together; pieces accounted for; approval by another; a request leaves no hold behind; what the government said is what is shown, credit is taken once when months are worked in turn (`Orderly`), and what is settled stays |
| `inventory_stock` | 2 godowns, 2 receipts at different prices out of date order, a count, a transfer, 2 bills of 2 lines, 1 crash, at most 10 movements, which both receipts and both bills issued and returned take (`goods`); 1 or 2 bills chased over 3 days (`one bill`, `two bills`); 2 plans to 2 customers (`assistant`); an order of 2, 2 deliveries, 2 bills (`bought`, `compared`); 2 batches, 2 callers, 2 failures, versions up to 2 (`moving`) | the stock ledger implements `Godown`; the books equal the stock report; transfers and returns neither make nor lose goods; goods bought on bills that name their delivery come in once; customers hear a rung once and only of what was agreed; an import stands whole or is taken out whole |
| `database` | 2 units of one company with 2 writes and 2 savepoints each (`units`); 4 units of 2 companies on 2 connections (`pool`); a write and a read over the records of 2 companies, one value, 2 writes each (`memory`); an action here, one in another process, a read, over 3 versions in batches of 1 (`masters`); bills of up to 3 rows out of 11, 5 kinds of document (`tax`); one file delivered twice, to one business or a shared address, 2 processes, 1 crash (`resend`, `upload`, `shared`, `hasty`) | serial units, true answers, no ring of waits, memory equals the database but for what a failed read still writes, the copy skips nothing and is never wrong; a document is never lost, entered once, and only when clean; a bill adds up in every direction |
| `people` | 3 people, 2 requests, 1 invitation (`team`); 1 person, 2 companies, 3 sessions, 2 requests (`sessions`) | always an owner, only owners touch owners, an invitation's sender is still there, one usable session per sign-in, ended means ended |
| `live` | one smaller instance of each of six components, with crashes and failures | what was begun is finished; whoever asked is answered |
| `einvoice_cancelled`, `unit_beside`, `durable_refused`, `masterview_built`, `credit_twice` | see section 6 | five statements of the repository that the code does not keep |

Why the bounds are enough: the hazards are about two actors and one thing they
share (two relays and a row, two requests and a bill, a unit and its nested
one), about one failure at the worst moment, or about one retry after it; each
instance has a second actor, a second thing so that mixing them up shows, and
at least one failure of each kind. Stock and entries have two kinds where the
difference matters (two prices, two dates, balanced or not). A defect that needs
three actors at once would be missed by TLC; for the components of section 4
the proofs remove that doubt. Each property has at least one mutant, a plausible
slip in a modelled definition, that breaks it under the run's own instance; a
property made of several parts has one for each part.

`CHECK_DEADLOCK FALSE` appears where nothing is left to do once the bounds are
used up (messages, vouchers, bills, documents); elsewhere (`database`, `people`,
and `credit_twice`) a state without a successor is an error.

### Fairness

Liveness is stated as "again and again" (`[]<>`) of a state in which nothing is
left undone, on instances where the failures are bounded.

* Outbox: each relay's steps, its next drain included, and the clock are
  weakly fair. The worker calls `drain` in a loop with a timer, and a call is
  ended by its signal. Crashes, failures and replays are not fair.
* Ledger: a command that has begun goes on; its process may die only where the
  run allows it (the property is stated for runs without).
* UnitOfWork: a handler's code returns or throws, the server answers, and both
  15-second timers fire (`ConnectTimeout`, `LockTimeout`). Fairness on getting
  a connection or a lock is weak, so one that comes and goes is promised to
  nobody: it is the timers that end a wait, and the mutant without
  `LockTimeout` shows that the property depends on them.
* Durable, MasterView: a statement sent to the database is answered. Each
  request's own step is fair, not their order.
* Recurring: the clock, a worker's polling, its run and its record. A killed
  worker starts again with nothing. Since it alone has steps to take before
  anybody asks for anything, its fairness is stated for its own case.

No fairness is put on what a person or an outside service decides.

## 4. Proofs

Checked by tlapm 1.4.5 with its SMT backend, Zenon and LS4, for every value of
the constants. The assumptions are those the modules name, and TLC evaluates
each of them:

* of the components, `OutboxAssumption`, `UnitOfWorkAssumption`,
  `SalesAssumption`, `LedgerAssumption`, `InventoryAssumption` and
  `TeamAssumption`: markers outside the sets they mark, finitely many messages,
  bills and documents, limits and leases that are positive, entries that are
  sequences of lines, a transfer between two different godowns;
* of what stands beside them, `InvoiceAssumption` (`MCWorkers`: relays are not
  people), `MoneyAssumption` and `BankAssumption` (`MCLedger`: each business
  meets `ReceivablesAssumption`, and the bank's lines are finite),
  `GovernmentAssumption` (`MCSales`: credit notes belong to bills of the month,
  amounts are whole), `PurchasingAssumption`, `MigrationAssumption`,
  `TransfersAssumption`, `ChasingAssumption` and `AgentAssumption`
  (`MCInventory`: quantities are whole, a file is of one kind, a key names one
  transfer, a ladder is a sequence of days), `SessionsAssumption` (`MCPeople`).

Four have hypotheses of their own, given below: `NotDeadlocked` (no unit beside
another), `MovementsAddUp` (`Alone`), `GovernmentIsFollowedInTurn` (`Orderly`) and
those of `ReceivablesProofs` together (`ReceivablesAssumption`, which
`MoneyAssumption` supplies in `LedgerProofs`).

| module | obligations | theorems |
|---|---|---|
| `OutboxProofs` | 2400 | `TypeCorrect`, `SavedExactlyOnce`, `ClaimsStaySound`, `OwnersRelease`, `PromiseKept`; of e-invoices `BillsTell`; of recurring work `SlotsGoForward` |
| `UnitOfWorkProofs` | 870 | `TypeCorrect`, `NobodyBetween`, `AnswersAreTrue`, `NotDeadlocked` |
| `SalesProofs` | 4270 | `TypeCorrect`, `IssuedWhole`, `EveryPieceAccounted`, `IssuedRemains`; of requests in one unit and of challans `RequestsAlwaysMoveGoods`; of the government `PortalsAlwaysFollowed`, `GovernmentIsFollowedInTurn`, `AnswersAlwaysStand`; of all of them `SettledAlwaysStays` |
| `LedgerProofs` | 2110 | `TypeCorrect`, `BooksAlwaysHold`, `OnceEachAlways`, `EntriesKept`, `ClosedMonthsStay`; with the bank and the money `SpentOnceAlways`, `BooksAgreeAlways`, `HistoryAlwaysStands` |
| `InventoryProofs` | 5610 | `TypeCorrect`, `MovementsAddUp`, `PromisesKept`; of purchases `PurchasesAlwaysAddUp`; of imports `StockAlwaysAddsUp`; of reminders and the assistant `CustomersAreAlwaysSpared` |
| `ReceivablesProofs` | 2330 | `TypeCorrect`, `NeverSpentTwice`, `BooksAlwaysAgree` |
| `PeopleProofs` | 1200 | `TypeCorrect`, `OwnerStays`, `OwnershipIsHandedOver`, `OwnersAlone`, `SendersRemain`, `SignInsAreSingle`, `TypesCorrect` |
| `Sums` | 700 | lemmas only |

Each proof has the same shape: an invariant that holds initially and that every
step preserves (one lemma or step per action, one leaf for each conjunct the
action can disturb), and what it implies. A component that a run checks side by
side with others is proved about in that run's specification: of the step of
the joined specification, either the component's own next-state relation or
nothing of it moves, so its invariant is that of its case and the theorem names
the very property TLC checks. What each needed beyond the property itself is
where the difficulty lies.

**Outbox.** A result is saved by a relay whose lease may have lapsed long ago.
`SavedOnce` is not inductive: that a mark can only hit an unsent row follows
from `ClaimIsPending`, which needs the relay's token to be a real one
(`RelayShape`: a relay has a token exactly while it is in a drain, and a message
exactly while it works on one), and `ClaimIsOwned` needs two relays' tokens to
differ (`TokensDistinct`). `PromiseKept` is the refinement: every step of a
relay is a step of `Delivery` or none, whatever lapses and crashes. A message's
answer "may be saved" as long as some relay carries it; a relay that loses its
claim gives the answer up only if no other has one (`OneAnswer`, `SameAnswers`).
Nothing is claimed of how many relays send a row at once: with the twenty rows a
drain takes, two may (section 6), and what is proved holds although they do.

**E-invoices.** What the bill shows is compared with what the portal holds, and
in between a relay or a person waits for an answer about a state that may since
have changed. `InvoicesKept` says of every call in progress what its answer will
still be true of (`CallsTrue`), of every record that differs from the portal
that news is on its way, was lost, or came after a cancellation (`RecordsTrue`,
`NewsComing`), and of the
company's lock that whoever has it is at work (`LockWorks`). While leases hold,
`InvoicesSettled` adds that a relay at work still has its message and that a
sent message leaves no bill waiting. Both are needed: where leases lapse, the
second half is false, and the property is stated for each case accordingly.

**Recurring work.** A slot is one number, and a worker whose lease lapsed may
come back with any number it once had. `Slotted` keeps the last slot recorded as
done below the next one and below the one being run, whatever `next` and the
attempts do; that a claim never goes back follows (`SlotsGoForward`). The other
half of `SlotsRunOnce`, that workers that stop in time never run a slot together
(case `prompt`), depends on the numbers of the lease and on few jobs being
claimed at once; with many jobs it is false (section 6), and stays with TLC.

**Unit of work.** `NobodySavesBetween` needs to know that whoever commits holds
the lock (`LockOwned`: holders are exactly the units at work on a live
connection). `ToldTheTruth` needs what the books have of a unit in every phase
before it is told, hence what its savepoints hold: `FramesAddUp` says the open
frames share no write and hold together what was made and not undone, and the
lemmas on the stack (`FrontDrops`, `LastGrows`, `WriteGrows`) say what popping
one and writing into the last do to that. `NotDeadlocked` assumes `Beside = {}`:
where a unit opens another beside itself the run `unit_beside` shows the
contrary, so the hypothesis is the boundary and not a convenience.

**Sales bills.** With or without a unit of work around the commands. The heart
is `CopiesTrue`: a request works on a copy, and a copy with the bill's version
is the bill. It makes a save replace what it was computed from; `TasksFit` says
that what a request does next may be done to that copy (so an issue of a large
bill was approved by another), and `BeforeWhole` that the tables a failed
command puts back are as whole as the present ones. The goods are sums over all
bills (`SumMoves`).

**Requests and challans.** With one unit of work per request nobody else moves
until it is over, but the request itself still goes through many transactions
and may fail in any. `RequestsFit` says what makes that harmless: while a
request is served only its own bill may differ from what was there when it began
(`Served`), the hold on that bill is exactly what the next transaction is for,
and what a failure puts back is a state between requests (`AtRest`). It follows
that the code that answers a lost race ("look", "put back") is never reached.
For challans `DeskFits` ties each hold to the state of its challan, and the sum
of the holds to the goods in the godown (`Covered`): each of the hooks has to
leave the sum right although several challans may be linked to one bill.
`ShopFits` joins this with the invariant of `Sales` for the cases without a unit.

**Government.** *The line.* That a disagreement is in front of a person needs
what a callback's process knows before it is written (`EventsFit`) and which
calls may still arrive (`LogFits`): the same answer arrives by call, callback
and reconciliation, in any order. *The permit.* `PortalFits` is about the
portal's memory of keys: an answer it repeats was true once, so what we write
from it may be old but was never more than was given (`PermitFits`). *Credit.*
`MonthsTouched` and `PhotosClaimed` tie what is on a signed return to a claim of
that month; without it a note could be taken whose bill was never claimed. The
first two parts are proved of every behaviour (`PortalsAlwaysFollowed`). The third
has the hypothesis `Orderly`: months are worked in turn and what is approved is
what was prepared. Nothing in the code sees to that, and where it fails the run
`credit_twice` shows the contrary, so `GovernmentIsFollowedInTurn` is a theorem
about those who work that way and about no others.

**Ledger.** Balances are compared with the entries made by hand that stand,
over any sequence of reversals of reversals and amendments. `ShownWhatStands`
is the argument: an undone entry has a later one that mirrors it (`RefsFit`) and
stands exactly when that one does not (`StandsIs`, by induction from the last
entry back), so what an entry comes to is what it counts for if it stands, less
what its reversal counts for; summed over all entries, with the second part
reindexed by `reversedBy` (one to one, by `ReversalsPair`), only the entries
made by hand that stand are left. Numbers without a gap are `NumbersRun` per
type, and single audits need that two callers never owe the same one
(`AuditsFit`). `EntriesKept` and
`ClosedMonthsStay` are step properties under `IInv`; the latter although
`setPeriodState` decides on a month read earlier, because the posting looks at
the month again.

**Bank, matching and money beside the ledger.** A sync writes what it read before
it let go: `SyncsFit` bounds a page by what the cursor was and what the bank has
(`PageFits`), and that every line up to the cursor is on record once is the same
for any number of syncs. `MatchesFit` speaks of all groups ever offered, so that
a run's old candidates cannot match what was matched meanwhile. `MoneyFits`
applies `ReceivablesProofs` to each business of the run. `ServedAlone` is what
one caller at a time buys: no month read as open has been locked since, which
makes the whole of `HistoryStands` a theorem and shows where the guarantee ends.

**Receivables.** Any number of sales, purchases and payments, bills and payments
of any amount. `SpentOnce` speaks of one payment, but what was paid back out of
it is a sum over other payments: `Fit` says it of any set of payments, `Good`
that a refund belongs to a receipt, and the lemmas `AddsPayment`,
`ReplacesPayment`, `ClearsBill` and `TakesAhead` do the four things a step does
to the payments. That an advance is not applied and paid back twice needs
`AdvanceKept`: what the voucher says was used stays within its receipt, although
`allocate` may since have taken the money off that bill. `BooksAgree` compares
the party's account with the screens, which sum over open bills and over
payments; `Booked` is the inductive form, in which each payment has moved the
account by an amount of its own (`Moved`). `MovedIsShown` splits that amount
into what an open bill shows, what is on account and what nothing shows (a
settlement on a bill that is gone, money paid out that no bill has), and
`SumsExchange` turns the payments' rows into the bills' columns.

**Inventory.** `MovesFit` collects what the movement table must be: keys once, a
return later than the issue it mirrors, an arrival later than the departure of
its transfer and with the same quantity and cost.
`Welcome` says what a new movement has to satisfy, and each action is shown to
bring only welcome ones; `TaskFits` and `OnTheWay` tie a command between two
transactions to what it has already moved. `BooksFollow` shows that what is
booked after a movement, dated in the past or not, is what the report computes,
so the valuation itself need not be known: only that it is a function of the
movements that yields whole paise (`ValueIs`). `PromisesKept` maps each step to
`Godown`: a movement is a put or a take (`MovesOne`), a hold a promise
(`ReserveIsPromise`), an issue of a bill of any number of lines one shipment
(`IssueIsShip`). `MovementsAddUp` assumes that every transfer's key names no
other transfer (`Alone`): used again with another quantity, the key of a
half-done transfer lets the second quantity arrive (section 6).
`StockAlwaysAddsUp` takes the same from `TransfersAssumption`.

**Purchases.** `PurchasesAddUp` compares, per bill, what its entry brought in
with what deliveries did. `BuyingFits` adds that a bill or delivery not yet
recorded has no trace (`NothingBefore`) and that an approval carries the
fingerprint of differences somebody saw (`ApprovalsFit`): a bill or delivery
changed since must ask again. Posting looks only at the delivery a bill names, so
what is on hand or sold is what deliveries accepted and what the bills that name
none put there, whatever really brought their goods (`GoodsBalance`); that goods
come in once is stated where no bill has a delivery and names none.

**Imports.** Several requests read, write and unwind rows of several batches,
each row in a transaction of its own. `ImportsFit` follows every batch from its
file to its end (`BatchFits`) and every request by what it has done and has
still to do: `Placed` while committing, `Writing` between a write and its record,
`Unwinding` after a failure, `GoingBack` in a rollback (`CallersFit`), with one
writer per batch (`OneWriter`), and names shared by two files (`NamesFit`). The
attempt to prove `StandsWhole` showed that an earlier statement of it held only
because a run allowed one failure: with two, the failed commit of another import
can take goods while a rollback is under way, and the batch that comes out is
neither in nor out. The model was right and the exception too narrow; it was
made precise (`disturbed`, set by `TakeOut` and `Sell`), and the run allows two
failures since.

**Chasing and the assistant.** A unit of work that fails after the provider
delivered leaves no trace of it, so `Sound` bounds what a customer received by
what is on record and the requests lost. `Spaced` keeps gap and rungs apart for
messages planned on different days and sent later (`Ready`: what is planned was
the rung of its day). For the assistant, `PlanFits` says that a command is
approved only while the plan is the one agreed to, that what ran is part of it,
that there is one report, and that a reminder that went is in it: a plan is
carried out once, whatever is asked twice. That a step reported as done reached
anybody is not claimed, for it need not have. The theorem is about any bills, ladders and gaps; those of the run are
values of one parametrised instance, `Chase(d)`.

**Team.** The permissions a request carries are stale when it is served, and
the invariant (the type invariant and `AlwaysAnOwner`) says nothing of them: an
owner is removed, demoted or made only in a step whose guards read the members
again inside the unit of work, and that is enough. `SendersRemain` holds because
removing somebody withdraws their invitations in the same step, and sending one
reads the sender's membership again.

**Sessions.** `SignInsAreSingle` proves all three parts of `SignInsEnd`. That a
sign-in has at most one usable session is not inductive: a switch already under
way may open one more. `OneTicket` says what is: each sign-in has one ticket,
held by its live session or by the one switch that has ended it and not yet
opened the next, and never by both. It passes in `Close`, which takes it only
from a session it finds live (`sign-in.ts:145`), and goes back in `Open`;
everything else only ends rows (`OnlyEnds`, `RowsStep`). That a switch belongs to
the sign-in of the session it ends (`AskedWell`), and that a number is given to
a sign-in only with its first session (`Numbered`), connect the two. `StopStep`
needs that removing somebody ends their rows in the step that removes them.

**Sums.** The model's sums are folds (`MapThenSumSet`), whose order is a
`CHOOSE`. The library's induction theorems take an operator and no installed
prover can instantiate it, so `Induction` is stated with a set of numbers and
proved from the well-foundedness of `<`; `Recursion` shows that a function
defined by recursion on numbers is what its definition says; and from the two
come the lemmas the components cite: a sum over one element more, over disjoint
parts, of a function changed at one point, under a bijection, of non-negative
terms, and the rows of a table against its columns.

**Left to TLC**, and why:

* liveness everywhere: fairness and ENABLED are beyond the prover;
* `CreditsFitTheBill`: shares of a line are rounded quotients of products, and
  the obligations are not linear; the run checks amounts that do not divide;
* the prompt half of `SlotsRunOnce`, for the reason above;
* `MCDatabase` apart from the units of work: the copy of the masters, the memory
  of requests, the inbox, and the tables of `Tax`, which are built by recursion
  over the rows of a bill, an induction over data; bills are checked
  exhaustively within the bounds instead;
* the joined type invariants `TypesOK` of the `MC*` modules other than
  `MCPeople`: the theorems prove those of nine components, and for the others
  the part their invariants need;
* that the average cost computed from the movements is the right one: the
  proofs relate the books to the code's own report, not to another definition
  of value.

## 5. Plan

Left, the most consequential first.

1. Proofs: the sums of `Returns` (credit never outgrows the bill, rounding
   included); the copy of `MasterView`, the memory of `Durable`, the `Inbox`.
2. *Subscriptions*: the lifecycle under late and repeated payment answers.
   *Idempotent commands* and sign-in codes; *support access*.
3. *Quotations and orders* (converted once), the sales side of GST returns, the
   compliance calendar, onboarding.
4. Pure rules against reference definitions: trade terms and price lists, the
   lifecycle tables of the documents.

## 6. Where the code and its words differ

Each of the first five is a run that TLC ends with a counterexample.

* `einvoice_cancelled` - `completeRegistration` (`einvoice-service.ts:312`)
  writes the record it read before the portal answered. While a relay waits, a
  person registers the bill and cancels it; the late answer turns CANCELLED into
  REGISTERED, which the trigger lets through because "a reconcile finds the
  cancellation did not go through" (`database-immutability-v1.md:56`).
* `unit_beside` - the decision record says waiting never deadlocks because the
  holder needs no second connection. `outsideUnitOfWork` (switching company,
  finishing the set-up) takes one, and a second company's lock, while holding
  the first; only timers end the ring.
* `durable_refused` - "memory never keeps what the database refused"
  (`durable.ts:13`). When two actions fail close together the second finds the
  list of loaded companies just emptied and forgets nothing.
* `masterview_built` - the copy is "never wrong" (`master-data.ts:23`). The
  lock is free when ROLLBACK has run, the copy is marked stale when the failed
  action hears of it; the next action can build on refused versions in between.
* `credit_twice` - an unclaimed bill "can never feed two returns"
  (`itc-reconciliation-v1.md:158`). Approving a return takes a fresh photograph
  without claiming what is on it (`gst-returns/service.ts:291`), and months
  prepared out of order are not compared: a bill is on two returns.

Seen while modelling, outside what the runs state. They are read from the code
and were met in the models; none of them is claimed by a check.

*Workers.*

* `outbox.ts:60` says half a lease keeps a second relay from sending what this
  one still is. The lease starts when the batch is claimed, half a lease when
  each message's turn comes, and a drain takes twenty (`outbox.ts:37`): from the
  third slow message on two relays can be sending the same one, with every timer
  on time. The model has these behaviours and no property forbids them; what is
  checked is that the result is saved once all the same.
* "One run per" job and slot: jobs claimed together run one after another, and
  when the first outlives the lease two workers run the second. Attempts are not
  compared with the limit when a lapsed claim is taken over
  (`recurring-postgres.ts:84`).
* The e-invoice handler of the outbox ignores its signal
  (`demo-application.ts:3764`), so half a lease does not bound it. A bill barred
  after it was prepared, or one whose relay lost its lease before preparing,
  stays PENDING with its message sent; a dead message leaves PENDING until a
  person reconciles, and reconciling does not compare the acknowledgement.

*Books and money.*

* `setPeriodState` (`ledger/service.ts:538`) decides on a state it read before
  its transaction; two interleaved calls could reopen a hard-locked month. The
  API's unit of work excludes it, so the property is stated for one caller at a
  time.
* `amendVoucher` (`ledger/service.ts:513`) commits its reversal first; when the
  second transaction is refused and no unit of work surrounds it, the reversal
  stays, which `docs/contracts/ledger.v1.md:121` does not foresee.
* Settlements by tax or discount stay on a cancelled bill
  (`demo-application.ts:4052`), as an advance's application does; `allocate`
  does not look at the payment's own settlements; a refund can be allocated to
  a purchase bill; a write-off marks no bill; a cancelled cheque keeps its
  payment RECORDED.
* `postPriceCorrection` (`returns/service.ts:428`) answers a known key with its
  note whatever is asked, where `returns.v1.md` says RETURN_KEY_REUSED; a
  whole-bill command under a used key matches any earlier goods note. Partial
  returns rounded half-up may each credit half a paisa too much; goods whose
  share rounds to nothing cannot come back.
* Reconnecting a bank after its permission ran out brings the same lines in
  anew under another account (`bank-feeds/service.ts:261`); disconnecting reads
  outside its unit of work, so a permission named in between is not revoked; a
  sync that was killed stays PROCESSING. `bank-feeds-v1.md` says every command
  runs inside the caller's unit of work, which `service.ts:39` does not. A match
  stays after its receipt is undone, and a line whose recorded receipt was
  undone can never be recorded again.

*Goods, bills, purchases.*

* `checkStock` can release a hold that a concurrent issue has just taken
  (`sales/service.ts:590`, `:403`), and `discardDraft` (`:431`) a bill that has
  been sent for approval meanwhile; only without the surrounding unit.
* `expireStaleReservations` (`inventory/service.ts:645`) is scheduled nowhere: a
  hold whose request died stays until someone acts on the bill.
* A transfer's two transactions leave goods in neither godown if the process
  dies between and nobody retries. Its key used again with another quantity
  after the first movement lets the second quantity arrive
  (`inventory/service.ts:563-608`).
* Linking several challans to one bill (`challan-service.ts:324`) releases more
  held goods than the bill took; a retried issue is refused as short because its
  own hold is counted (`demo-application.ts:3351`); a challan whose bill is
  cancelled later stays INVOICED with its goods back on sale. A quotation whose
  draft was discarded stays CONVERTED.
* The web API never sets `receivedAgainstReceiptId`
  (`demo-application.ts:7803`), so the bill of goods already delivered brings
  them in again, against `purchase-matching-v1.md:145`. In `Purchasing` such a
  bill has a delivery and names none, and `GoodsComeInOnce` leaves those out. A bill is compared alone
  with all deliveries, so goods delivered once can be billed twice and both
  match; `recordPurchase` does not ask whether a bill is cleared to post.
* `findByDigest` (`migration/src/repository.ts:26`) returns the latest batch of
  the same bytes, after a refused second upload the refused one, so a third
  upload is analysed and can be committed: "the same bytes twice is the one
  thing that must not slip through" (`service.ts:180`). The same file analysed
  twice before either is committed is committed twice. A retry after a commit
  was unwound meets the keyed records that the unwinding reversed; names it
  switched off still count as existing (`masters.ts:244`). A rollback whose
  reversal is refused midway cannot be finished.
* A clean scanner answer is kept only by the process (`inbox.ts:298`); a
  document whose process stopped while screening or reading is resumed by
  nothing, and one assigned by hand is never read. A resume that overlaps a slow
  process can overwrite a hold for malware (`:353`, `:387`).

*Government.*

* A callback whose unit of work fails is remembered by the process alone
  (`webhooks.ts:137`, against "Deduplication is durable", `:21`): its resend is
  answered as a duplicate and written nowhere until the process restarts.
* Looking up an e-way bill always uses the same key (`adapters.ts:143`), so a
  second look repeats the first answer and can turn CANCELLED back to ACTIVE;
  changing the vehicle from A to B and back repeats A's answer and the portal
  keeps B. After a timeout the record says FAILED, not PENDING
  (`service.ts:6`); a process that dies leaves no record (`:311`).
* Preparing a return under the same reference answers the first preparation but
  claims anew (`demo-application.ts:5482`); a file imported again with content
  already read for that month is ignored even if another was read in between; a
  decision withdrawn leaves its claim; bills whose numbers differ only in
  spelling share one line (`match.ts:49`).
* A late FAILED event turns a paid subscription FAILED, and a later charge
  extends it twice (not modelled).
* Halving an odd rate such as 0.25% loses a hundredth (`compute.ts:254`, `:634`).

*People, memory, messages.*

* A reload of a map can miss a record committed while it was read
  (`durable.ts:152`). A read that writes and throws goes straight to the reload
  (`durable.ts:122`), while its other writes are on their way: one that lands
  after its company was read is in the database and not in memory until the next
  reload, even with one request at a time (`late` in `Durable`; `get-never-writes`
  says no GET writes, so nobody should meet it). A failed reload leaves the company unloaded until the next
  request.
* Opening a session waits for the new company's lock
  (`postgres-platform.ts:240`), inside the request's own unit of work.
* A role is given on permissions read before the wait (`team.ts:99`): somebody
  demoted in between can still give what they no longer hold. What touches
  owners is re-read and not affected.
* A message that the sending limit leaves queued is delivered by the minute job
  even if its bill was since paid, disputed or opted out, against
  `collections/service.ts:121`; its reminder stays FAILED though it arrived.
* A plan shown again after its approval leaves its command approved, so the plan
  can never be approved again; an approved plan cannot be rejected. A step given
  up as too slow may still happen, and a reminder that failed is reported DONE
  (`collections/service.ts:457`, `tools.ts:154`).

## 7. Not modelled

The components marked `not_modelled` in `PROJECT.json`, each with its reason,
and what each partly modelled one leaves out, in its note and at the head of its
module. Throughout: text, layout and formatting; amounts beyond small integers
(their exact arithmetic is the kernel's); read-only queries; SQL beyond row
locks, advisory locks and constraints; authentication codes; branches of a
membership; batches and serial numbers of stock. The calculator of taxes is
modelled by itself (`Tax`) and is a flag of a bill's content in `Sales`.
