# Formal model of the Business POS backend

TLA+ models of the Python/FastAPI backend under `src/backend/app` and of the
PostgreSQL schema it relies on (`src/schema.sql`): what the services promise,
how their transactions interleave, which of those promises TLC has checked on
small instances and which TLAPS has proved for every instance. Every invariant and
every action property that a passing run checks is also a theorem; liveness is
checked only.

A request runs in one database transaction (`UnitOfWork`) at READ COMMITTED; a
service locks rows with `SELECT ... FOR UPDATE`, or does not, checks, writes,
and triggers and constraints check again. What makes the system correct is the
relation between *what a transaction locked*, *what it read* and *what it
wrote*: that is what the models describe. Two things live in the memory of the
process instead, export jobs and the notification worker; their enemy is the
restart.

## 1. Inventory

| Component | State it keeps | Operations | Hard behaviour | What makes it correct |
|---|---|---|---|---|
| Sale lifecycle (`services/sales.py`, `repositories/sales.py`) | `sales`, `sale_lines`, `sale_payments`, `sales_returns`, `stock_movements` | post, pay, cancel, return, cancel return | requests on one sale overlap; long sequences of compensating movements; locks on different rows | money bounded; every movement made once and reversed once; decisions still valid at commit |
| Refunds (`services/refunds.py`) | `refunds`, `cash_movements` | create | shares the sale's lock; unlocked cash sum | refunds never exceed payments |
| Sale drafts (`services/sales.py`) | `sales` header, `sale_lines` | create, add/update/delete line, change header, post, delete | status checked without a lock; locks in another order than a post | a posted line never changes; every request ends |
| Idempotency keys (`services/idempotency.py`) | `idempotency_keys` | start, complete, prune | retries before, during and after the original; two kinds of callers | a key applied once; the answer is the original's |
| Purchases, purchase returns (`services/purchases.py`, `purchases/`) | `purchases`, `purchase_lines`, costs, receipts, returns, obligations | draft and its lines, freight, costs, post, pay, cancel, return, cancel return | status recomputed backwards; receipts in batches shared with sorting; allocation with rounding, from unlocked reads | batches and obligations bounded; movements follow statuses; no cent lost but where edits overlap |
| Supplier repayments (`services/supplier_repayments.py`) | `supplier_repayments` | create | limit from sums other requests change | never more collected than owed |
| Inventory adjustments (`inventory/service.py`) | `stock_movements`, `products` | adjust, list | product lock that sales do not take | a guarded request never overdraws |
| Sorting of receipts (`inventory/sorting_service.py`) | `sorting_events`, pending movements | draft, post, reverse | batch shared with returns; "nothing followed" judged by ids that are given before the commit | batch conserved; what a reversal read stays true |
| Production (`production/`) | `production_runs`, inputs, cost lines | draft, edit, post, cancel | several products, value and cash in one transaction; lock order | output worth what went in; posts never overdraw |
| Cash journal, manual entries (`manual_entry/`, `services/finance.py`) | `cash_movements`, `manual_finance_entries`, categories, methods | create, cancel; deactivate, delete | unlocked balance; cancellation without a lock | an entry reversed once; references kept |
| Stock notifications (`notifications/`, `services/settings.py`) | `notifications`, LISTEN/NOTIFY queue, the default threshold | worker loop, change of the setting, inbox | late or lost events; stock read now instead of then | each crossing notified once |
| Report exports (`services/exports.py`) | jobs and index in memory, key row in the database | create, process, expire | background task, restart, index by fingerprint | no foreign export; every job ends |
| Master data (`services/products.py`, `categories.py`, ...) | their tables, `product_price_history` | create, edit, deactivate, delete, import | checks and foreign keys at different moments; unlocked reads | references hold; history complete |
| Optimistic concurrency (`concurrency/`) | tags from `updated_at` | `If-Match` | tag compared with an unlocked read | a tag stands for one content of its row |
| Authentication, authorisation (`auth/`, `services/users.py`, `roles.py`) | `users`, `sessions`, `roles`, capabilities | login, refresh, logout, administration | counters, rotation and revocation without locks | revoked stays revoked; failures counted |
| Reports, dashboard (`reports/`) | none | read | window boundaries; corrections by subtraction | figures add up and agree |
| Audit log, HTTP surface, web client | — | — | — | — |

Interaction: services call repositories in the request's transaction; documents
meet in the shared ledgers (`stock_movements`, `cash_movements`), which are only
appended to and read with `SUM`; mutating services call the key store first;
the commit of a movement notifies the worker; reports read everything.

`PROJECT.json` lists the hazards, each at its line, with the property that
would catch it or the reason why none holds.

## 2. How the models are built

`SaleDocument` and `PurchaseDocument` are the abstract documents: every request
is one atomic step. `Sales` and `Purchases` extend them with transactions and
are shown to implement them. `SaleDraft`, `StockLedger` and `CashJournal` go
down to single statements where no one lock protects the whole request.
`Idempotency` implements `OncePerKey`. `ServerProcess` composes
`StockNotifications` and `Exports`, which end together with the process. The report modules extend
the module whose rows they read, and `Periods` for the windows. A proof module extends the
modules of one or more components; components that meet in one name their parts
after themselves (`KeyInit`, `RunNext`, `CatalogSpec`, `DraftTypeOK`, ...) and take
`Request` from one place, the module `Requests`.

What is left, in order: sorting drafts and the allocation of their cost;
weighted average cost and inventory valuation; the key variant of login.

## 3. Modules

| Module | What it is |
|---|---|
| `SaleDocument` | The rows of sales and returns and the six operations on them, each atomic: for each a guard (`CanPost`, `CanPay`, ...) and its effect (`PostWrites`, ...). |
| `Sales` | The same as transactions: `Begin...` locks, reads and decides, `Commit...` writes, `Rollback` undoes. Adds stock and cash, which are read without a lock. |
| `SaleReports` | Sales report, profit and loss, returns, receivables, refund liabilities, dashboard and customer summary, computed from the committed rows of `Sales`. |
| `SaleDraft` | One draft sale, statement by statement: reads, row locks in three strengths, waits, triggers and constraints, commit, deadlock detection. |
| `Idempotency`, `OncePerKey` | The key store with its two kinds of callers; what a key promises a client. |
| `PurchaseDocument`, `Purchases` | The same split for purchases: posting, payments, returns with the supplier's obligation, the recovered status, cancellation, repayments, sorting of pending batches. |
| `PurchaseDraft` | Lines, freight and further costs of a draft, spread with the code's rounding by transactions that overlap, and the post that receives at landed cost. |
| `Cents` | Rounding to cents, half to even; used by `PurchaseDocument` and `PurchaseDraft`. |
| `PurchaseReports` | Purchases, returns, payables, supplier receivables and repayments, and what the profit and loss charges. |
| `StockLedger` | The stock of products under sales, production, sorting, adjustments and reversals, lock by lock. |
| `Production`, `ProductionReports` | A run with inputs, overhead and output, its values and cash; the production report and the stock listings. |
| `CashJournal`, `CashReports` | Manual entries beside the other movements, the balance trigger, categories and methods; the manual reports, the breakdown and the cash flow. |
| `StockNotifications`, `Exports`, `ServerProcess` | The worker with the threshold of the product or the setting it falls back on, the jobs, and the process both live in. |
| `Catalog` | Products, categories, units, attributes, contacts and cost types, their references, tags, price history and import. |
| `Accounts` | Users, roles, capabilities and sessions. |
| `Periods` | Period aliases, comparison windows, changes in percent. |
| `Requests` | The set of requests, shared by the modules of components that are proved together. |
| `SumTheorems` | What sums over finite sets are: lemmas the other proofs rest on. |
| `...Proofs` | Theorems: `SalesProofs` (atomic sales, transactions, reports), `DraftProofs` (sale drafts), `PurchasesProofs` (the same for purchases), `StockLedgerProofs`, `CashAndKeysProofs` (cash journal with its reports, key store), `RunsAndUsersProofs` (production, users), `ServiceProofs` (process, master data, purchase drafts). |
| `MC...` | Constant definitions for TLC. |

### Correspondence with the code

*State.* A variable is a column, or the sum the code reads with `SELECT SUM`
(`paid`, `refunded`, `cash`; `issue`, `reversal`, `restock`, `unrestock` per kind
of movement; `received`, `sent`, batch balances). What the code never decides on
(notes, references, names) is left out; a payload is a member of a small set.

*Grain.* One step where one lock, taken before anything is read, protects the
request (`Production`, the post and the deletion of `PurchaseDraft`); two where a
transaction locks a document and decides (`Sales`, `Purchases`, the cost endpoints
of `PurchaseDraft`), or reads without a lock and writes later (`Catalog`,
`Accounts`); one per statement where the order of locks and reads matters
(`SaleDraft`, `StockLedger`, `CashJournal`, `Exports`, the worker). That the
coarse grain of `Sales` and `Purchases` is justified is a result:
`DecisionsStayValid` says that what was decided under the locks holds at the
commit, and is proved. An edit of a purchase draft is cut where another one can
commit and change its outcome: after the unlocked status read, after the number of a
new line is read, and between what it reads of freight and lines and what it writes.
Its three reads there (freight, sum, lines; `services/purchases.py:208`) are one step
with the write of its own row. An edit that commits between them changes how much
of the freight a line gets, but not that the last line takes the rest, and `settled`
is false then anyway unless freight and lines are the same as before.

*Row locks.* `FOR UPDATE` and `DELETE` conflict with everything, `UPDATE` of
non-key columns with itself and those, the key share of a foreign key only with
`FOR UPDATE`. `DetectDeadlock` is PostgreSQL aborting a member of a cycle.

*Commit.* Writes become visible at the commit: earlier steps change only the
private record of the transaction (`txn`). What PostgreSQL decides when a
statement runs (a unique index, a foreign key, the balance trigger) is decided
in the step of that statement.

*Named lines.* `create_return` accepts a line of another document. `Named` says
which lines clients name: `OwnLines` for a client that sends lines of the
document in the URL, `AnyLine` for one that does not.

*History variables.* `overlap` and `raced` (`CashJournal`), `late`, `lost` and
`crossed` (`StockNotifications`), `misses` (`Accounts`), `since` (`StockLedger`) and
`settled` (`PurchaseDraft`) record what happened and influence nothing. They say exactly where the code makes no promise.

*Mutations.* Operators marked "Mutation" are variants of the operator below
them with a plausible bug; no specification uses them. Each listed property is
known to fail when one of them is substituted (`PROJECT.json`, "mutants").

## 4. Runs

Run in this directory, for example `tlc -config sales_requests.cfg MCSales`.

| Run | Question | Instance | Distinct states |
|---|---|---|---|
| `sales_requests` | Do overlapping requests keep money, statuses and movements consistent, is each transaction one atomic request, and do the reports agree? | two sales (lines of 2 and 1; of 1), one product, two returns, two requests; dates on both sides of a week, month and year | 164 529 |
| `draft_requests` | Can an edit that raced a post change what was posted, and does every request end? | two lines, a third id, three requests of any of six operations | 91 092 |
| `idempotent_requests` | Is a key applied once and answered rightly, whatever is retried and whatever fails, with both kinds of callers on the table? | a replaying and a registering endpoint; each key sent twice with one body and once with another | 121 816 |
| `purchase_requests` | The same for purchases, with batches, obligations and collected money; do the charged costs follow the goods? | two purchases, three lines, one unsorted with two units, line totals that do not divide evenly, two returns, two requests | 118 614 |
| `stock_requests` | Does what was decided under a product lock stay true, and does every request end? | three products, a sale, two runs whose inputs and outputs cross, a sorting event, an adjustment; three requests | 73 382 |
| `production_requests` | Are stock, value and cash right after any sequence of edits, posts and cancellations? | one run, three products, up to two lines of each kind, costs of 0, a half and one and a half cents | 10 165 |
| `purchase_drafts` | Does rounding lose a cent, however edits of lines, freight and costs overlap? | two requests, two lines worth 0 or 3 cents, freight 3, a cost of 1 | 202 369 |
| `cash_journal` | Are entries reversed once and references kept, and do reports and cash flow agree? | two entries, two requests, other movements of 1 or 2, cash up to 3 | 246 196 |
| `server_process` | Are crossings notified once, are exports the right ones, does every job end? | three movements of -1 or 2, a threshold of 1 or none, a setting of 0 or 1, two export requests, two keys, two bodies, two jobs, one restart | 346 096 |
| `catalog` | Do references, tags and price history survive overlapping writes? | two products, categories and units, one row of each other kind, two requests, two transactions begun | 555 086 |
| `accounts` | Do revocation, failure counts and roles survive overlapping requests? | three users, three roles, two sessions, two requests, a lockout after 2 failures, four requests begun | 287 343 |
| `double_reversal` | Is an entry reversed by its cancellation, once? (expected to fail) | as `cash_journal` | |

### What they show

- `MoneyBounded`: refunds ≤ payments ≤ total for sales; for purchases, what was
  paid and what a supplier owes and has returned are bounded by each other,
  although each request reads sums the others add to. A partial return is worth a
  rounded share of its line, so the bound on what is owed has half a cent for each
  line the returns name; without it, it does not hold (section 5).
- `SaleMovements`, `CancelledHasNoReturn`, `NeverOverRestocked`: goods leave and
  re-enter stock once, in every order of returns, return cancellations and
  cancellations, for clients that return lines of their own sale.
- `DocSpec`, `PurchaseSpec`, `OnceSpec`: the transactions implement the atomic
  documents, the key store what a key promises.
- `PeriodsAddUp`, `ReportsAgree`: the figures of consecutive windows add up to
  those of all time, and reports that show the same figure show the same number.
- `MovedAsSold`: edits race a post and never change a line that has its movement.
- `EveryRequestEnds` (drafts, keys, stock): all waits end, by deadlock detection
  where necessary.
- `OneBodyPerKey`: neither kind of endpoint applies two bodies under one key.
- `LedgerAgrees`, `BatchNeverOverdrawn`, `LifecycleTellsReturns`,
  `ExpenseFollowsGoods`: receipts, returns, sortings and cancellations leave the
  ledger, the batch, the status and the charged costs telling one story.
- `AcceptedStays`, `GuardedNeverOverdraws`, `ReversedUntouched`: product locks
  protect those who take them from those who do not. A reversal of a sorting
  event finds no movement of its products with a higher id than the event's own,
  and that stays true until it commits; a movement with a lower id may have been
  committed since (section 5).
- `LedgerFollowsRun`, `PostNeverOverdraws`, `SettledCostsStand`: a run's output
  is worth its inputs and overhead; posts are covered; settled costs do not move.
- `FreightAllocated`, `CostsAllocated`, `ReceivedAtLandedCost`: to the cent. For
  the costs however edits overlap, since each edit shares them out over the lines it
  has just written. For the freight if the last edit to commit found lines and freight
  as it had read them (`settled`); an edit that is alone repairs what others left.
- `CancelledOnce`, `ReferencesKept`, `ManualNetIsCashNet`: away from two
  overlapping cancellations of one entry, journal and reports agree.
- `NotifiedWhileKeepingUp`, `AnswerFitsBody`, `EveryJobEnds`: what the process
  keeps in memory is right while it keeps up, and harmless after a restart.
- `ReferencesHold`, `TagTellsContent`, `PriceChangesRecorded`, `RolesKept`,
  `FailuresCounted`, `RevokedForGood`: single-row writes after unlocked reads
  are saved by foreign keys, unique indexes and conditions in the statements. A tag
  stands for one content of its row, even if transactions overlap; that the row
  still has the tag when it is patched is not checked (section 5).

### Bounds

Two documents are needed for requests that lock different rows, two returns for
a cancelled and an active one, two lines for a partial return, a quantity of 2
for a line returned in two steps. A request that ended may begin again in
`Sales`, `Purchases`, `CashJournal`, `Catalog` and `Accounts`, so two run
sequences of any length; what a third could do between their steps it can do
before or after, since only sums are read without protection. Where a cycle of
three matters (`SaleDraft`, `StockLedger`) there are three requests, each served
once. In `StockLedger` the runs share two inputs, and one consumes what the other
makes: the smallest pair whose locks can cross. The calendar of `sales_requests`
(`MonthStarts`, `YearStarts`, a day of 4 ticks, a second of 2) has its sales on
the last tick of a week and the first of the next week, month and year. The
amounts of `purchase_drafts` are the smallest that do not divide evenly: a cent, and
three over two lines; two requests are what it takes to overtake an edit.
Every line has a mass there; that a line without one refuses an allocation by weight is
in the model and in the proofs only. In
`purchase_requests` a line of two units is worth 3, so that half of it is rounded. Bounds in guards, each named where it is declared: `MaxAsked`,
`MaxCash`, `MaxLines`, `MaxMovements`, `MaxCrashes`, `MaxTime` (transactions
begun, also the clock), `MaxRequests`; no state constraint is used. Symmetry is
used only for safety. `CHECK_DEADLOCK FALSE` in all: when all documents are
terminal, all requests have ended or a bound is reached, the system rightly
stops.

### Fairness

Safety runs assume none. `FairSpec` of `SaleDraft`, `Idempotency` and
`StockLedger` assumes weak fairness of the steps of each request: the event loop
resumes a coroutine whose statement has returned, PostgreSQL grants a free lock,
and its deadlock detector runs. Failures (`Rollback`) are never assumed. Weak
fairness is enough because a freed lock stays requested until a waiter gets it
and every holder ends. `ServerProcess` assumes weak fairness of the worker's
loop and of each background task, which the event loop schedules while the process runs;
nothing is assumed of clients, connections or restarts. A behavior of it moves the
worker or the jobs (`moving`), not both: they share nothing but the process, whose
restart ends both.

## 5. What does not hold

`double_reversal` is the regular example: two cancellations of one manual entry
both reverse it. The properties below are stated in the modules, are promised
by a comment or a document, or are what a reader would expect, and are violated
by what the code does. To see a counterexample, take the configuration of the base
run, make the changes, drop fairness for an invariant (`SPECIFICATION Spec`, or `KeySpec`, `RunSpec`, `CatalogSpec`, `DraftSpec`),
and list the property alone.

| Base run | Changes | Violated | What happens |
|---|---|---|---|
| `sales_requests` | one request; `OpeningStock <- MCShortStock` | `StockNonNegative` | goods of a return are sold again before the return is cancelled |
| | `Return = {x1}`; `OpeningStock <- MCShortStock` | `PostNeverOversells` (action) | two posts both see the last units; the advisory lock of the comment (`services/sales.py:1081`) is not taken |
| | `Return = {x1}`; `OpeningCash = 1` | `CashNonNegative` | two refunds both see the same cash; the trigger's sum does not serialise |
| | one request; `Named <- AnyLine` | `NeverOverRestocked` | a return filed on sale 2 for a line of sale 1 is not seen when sale 1 is cancelled |
| | `Named <- AnyLine` | `ReturnsBounded` | two returns of one line filed on different sales |
| | one request; three returns | `ReturnedMeansAllBack` | quantities of a cancelled return still count; "returned" comes too early |
| | one request; `MaxAsked = 2` | `RestockedAtOriginalCost` | the cost of a return is multiplied by the quantity twice |
| | one request; `PageSize = 1` | `EveryLineIssued` | lines after the first page (50 in the code) get no movement at post |
| | one request | `NoPaymentAfterCancel` (action) | INV-05 and API section 7.6: a cancelled sale can still be paid |
| | — | `MonthsAddUp`, `ComparisonEndsBefore`, `SameGrossProfit`, `CancelledReturnsExcluded`, `OpenOnesFirst`, `OneReceivable`, `LiabilityNeedsReturn` | a month ends on the first of the next one at the request's time of day, so months overlap; a compared alias ends with its own period; the profit and loss nets the window, the sales report each sale; cancelled returns are summed; a page is cut before the filter; the customer summary deducts returns and the receivables do not; every paid sale is listed as a liability |
| `draft_requests`, all with two requests, `Quantity = {1, 2}`, `Discount = {0, 1}` | `Operation = {"update"}` or `{"discount"}` | `NoDrift` | updates lose each other's line in the total; a discount does not recompute it |
| | `{"add", "post"}` | `PostedLinesMoved` | a line is inserted into a sale posted meanwhile |
| | `{"update", "post"}` | `NoLockCycle` | the line is locked before its document |
| | `{"discount", "post"}` | `HeaderFixedOncePosted` (action) | no trigger fixes the header of a posted sale |
| `idempotent_requests` | — | `NeverRepeated` | services that ignore the key's row repeat the effect (`services/products.py:265`) |
| | — | `DuplicateNotFailed` | the documented 202 is an unhandled integrity error |
| `purchase_requests` | — | `StockNonNegative` | a cancellation takes back the whole receipt although part was returned |
| | — | `UncollectedIsCancellable` | voiding an obligation sets its amount to 0, which a CHECK refuses |
| | — | `PayableIsOutstanding` | the payables report adds the freight once more and ignores returns; the payment limit does neither |
| | — | `OwedWithinPaid` | `API-Architecture-V1.0.md:831` bounds repayments by what was paid; the value of each partial return of a line is rounded on its own (`services/purchases.py:2018`), so the parts of 3 cents in two units are 2 and 2 |
| `stock_requests` | — | `PostsNeverDeadlock` | the output's key share comes after the ordered locks |
| | — | `ReversedUnmoved` (action) | "later inventory activity" (`inventory/sorting_service.py:398`) is looked for by id; a movement that took its id before the event's output did, and waited for the product, is committed later with the lower id |
| `production_requests` | — | `NoCircularFlow` | the output may be changed to a product that is an input |
| | — | `CancelledRunsExcluded`, `SummaryCountsRows` | cancelled runs are summed; summary and rows define "low" differently |
| `purchase_drafts` | one request; `Line = {l1, l2, l3}` | `SharesNonNegative` | rounding up leaves the last line a negative share, and the edit fails |
| | — | `FreightAlwaysAllocated` | two edits that overlap each share the freight over the lines without the other's change: what the lines bear is not the freight |
| | — | `ReceivedInFull` (action) | a post after such edits receives that instead of the freight (BR-PURCHASE-005) |
| | — | `EtagRotates` (action) | edits of lines and freight do not write the row of the purchase, so the tag of its client stays valid |
| `cash_journal` | — | `BreakdownAddsUp`, `CashNonNegative` | dashboard and profit and loss choose different entries; the trigger sums without a lock |
| `server_process` | — | `ListensAgain` (temporal) | a lost connection is not noticed by the loop that waits for its queue |
| | — | `SameKeySameJob`, `CrossingNoticed` | the index is read before an await; stock is read after later movements |
| `catalog` | — | `EveryPriceChangeRecorded`, `VersionsGrow` (actions), `AttributeTagTellsContent`, `SameDimensionAsBase`, `CategoriesAcyclic` | prices compared with an unlocked row; `updated_at` from the start of a transaction; tags and checks that miss a concurrent or indirect change |
| | — | `EditsWhatClientSaw` (action) | two edits with one tag both pass: the tag is compared with an unlocked read (`services/products.py:446`), where `concurrency/etag.py:43` has a `FOR UPDATE` in the service layer |
| `accounts` | — | `ReplacesItsOwnPair`, `CapabilitiesAsPut` (actions), `LockNeedsFailures`, `LastOwnerStays` | two refreshes and two replacements at once; a count read before the lock; only the deactivate endpoint guards the last owner, the edit of a user does not |

## 6. Proofs

Checked by TLAPS (`tlapm <module>.tla`), for all values of the constants.

| Module | Theorems |
|---|---|
| `SalesProofs` | `DocInvariant`, `DocCancelIsFinal`: the invariant of the atomic sale; "cancelled" is final. `SalesImplementDocument`, and carried over by it `SalesMoneyBounded`, `SalesMovements`, `SalesCancelledHasNoReturn`, `SalesNeverOverRestocked`, `SalesCancelIsFinal`; `SalesTypeOK`, `SalesDecisionsStayValid`; of the reports, `SalesReportsAgree` and `SalesPeriodsAddUp` |
| `DraftProofs` | `DraftMovedAsSold` |
| `PurchasesProofs` | `PurchaseInvariant`, `PurchaseCancelIsFinal`, `PurchaseLedgerAgrees`, `PurchaseMoneyBounded`, `PurchaseLifecycleTellsReturns` of the atomic purchase; `PurchasesImplementDocument`, and carried over `PurchasesBatchNeverOverdrawn`, `PurchasesLedgerAgrees`, `PurchasesMoneyBounded`, `PurchasesLifecycleTellsReturns`, `PurchasesCancelIsFinal`; `PurchasesTypeOK`, `PurchasesDecisionsStayValid`; of the reports, `PurchasesExpenseFollowsGoods` |
| `StockLedgerProofs` | `StockInvariant`, `StockAcceptedStays`, `StockGuardedNeverOverdraws`, `StockReversedUntouched` |
| `CashAndKeysProofs` | `CashInvariant`, `CashCancelledOnce`, `CashReferencesKept`, `CashAlwaysCovered`, `CashManualNetIsCashNet`; `StoreTypeOK`, `StoreAppliedOnce`, `StoreOneBodyPerKey`, `StoreNoOrphan`, `StoreImplementsOnce` |
| `RunsAndUsersProofs` | `RunsInvariant`, `RunsTypeOK`, `RunsTotalsAgree`, `RunsLedgerFollows`, `RunsSettledCostsStand`, `RunsPostNeverOverdraws`; `UsersInvariant`, `UsersTypeOK`, `UsersRolesKept`, `UsersFailuresCounted`, `UsersRevokedForGood` |
| `ServiceProofs` | `JobsAnswerFitsBody`, `WorkerNotifiedWhileKeepingUp`; `ShopInvariant`, `ShopTypeOK`, `ShopReferencesHold`, `ShopTagTellsContent`, `ShopPriceChangesRecorded`; `BuyingInvariant`, `BuyingFreightAllocated`, `BuyingCostsAllocated`, `BuyingReceivedAtLandedCost` |
| `SumTheorems` | Sums over finite sets and functions: `SumInt`, `SumRemove`, `SumChange`, `SumPart`, `SumParts`, `SumOfSums`, `SumSwap`, `SumMonotone`, ...; `GreatestOf`, `LeastOf` |

*Assumptions.* The named `ASSUME`s on the constants, which TLC evaluates in every
run, and three more that are hypotheses of single theorems and true of the constants
of the runs. `NamesOwnLines` (most of `SalesProofs` and `PurchasesProofs` about
transactions): clients name lines of the document in the URL; without it section 5 has
counterexamples. `CalendarCovers` (`SalesPeriodsAddUp`) and `EntriesDated`
(`CashManualNetIsCashNet`): the finite horizon of the reports holds every date that is
used, and years start before and after it.

*Sums.* `SumFunction`, `Max` and `Min` of the community modules are defined by folds and `CHOOSE`. What they
compute is derived without an induction principle: a property of finite sets that
fails has a smallest set for which it fails (`SmallestSubset`), and what is left
when one member is taken out is smaller. The rest follows: a sum changes by what one
of its terms changes, splits over the blocks of a partition, and sums of sums commute.

*Sales and purchases.* The document's invariant puts together what each conjunct
needs of the others: a cancellation restores `issue` only because the movements
follow the status, and keeps returns away only because no active return is
left; a batch is reversed only while it is full. `RequestInv` adds that two open
transactions never hold the same row (`LocksExclusive`) and
`DecisionsStayValid`. For each commit the guard still holds, so the step is the
atomic operation, which preserves the document's invariant; any other open transaction
is on another row, or is one of the pairs that may overlap (cancelling a
return beside a request on its document, sorting beside a payment), whose guards the step does not disturb.

*Quantities and money.* For sales, `GoodsInv` adds that returned goods come from
lines of their own sale that were issued, and that a line's returns are bounded by its
quantity. For purchases three invariants build on each other. `LedgerInv`: the
balance of each batch is receipt less returns less sorting. `MoneyInv`: once a return
of a purchase is owed something, what is owed and what is still payable are together at
most the value of the returns, so no later payment fits in. The parts of a line that
are returned are each rounded to the cent, so their values sum to its total and half a
cent for each part at most (`HalfEvenClose`). `LifecycleInv`: every
posted return has a value, so the payment that completes a purchase finds none,
and a status that is recovered backwards is the one the returns call for.

*Reports.* What two reports show is compared row by row and then summed: the net of
an entry is what came in less what went out, whatever its status (`NetOfEntry`),
because its category says on which side it is (`Signs`). The windows of days, weeks
and years partition the times, so figures of windows add up (`SumParts`). The cost
charged for a purchase is that of what the documents say is there, by `LedgerInv`.

*Drafts.* No single lock protects the lines: an edit takes the line before the
sale and a post the sale before the lines. `DraftInv` says what each has
changed and holds at each statement, that locks exclude each other, that ids
not yet given are unused, and that the lines an open edit will change have no
movement. At a post's commit each edit that has written holds a line the post
does not have, and no addition is open, since it would share the sale.

*Drafts of purchases.* `BuyingInv` says of the committed rows that each cost is shared
out to the cent over the live lines (`SharedOut`), because the last line takes what
rounding left, and that each line carries the shares of all costs (`Carries`). Of
each open transaction it says what it has computed from its reads (`WorkedOut`): an
edit, shares of the freight it read over the lines it read; a change of the costs,
shares over the lines there are, which no addition or deletion changes before it
commits (`Undisturbed`). An edit shares out the costs as it finds them over the lines
as it leaves them, so the costs need no condition. Its shares of the freight are those
of its reads; they are on the lines in full if the lines and the freight it leaves are
the ones it read, which is what `settled` says. A post receives each line at
what it carries; that the total is what was paid for is an exchange of two sums,
over the costs and over the lines (`SumFunSwap`).

*Keys.* A request past `start()` either holds the uncommitted row of its key or,
where the caller only registers, has found a row with its own body; a committed
row is of an applied request. So at most one request is applied per replaying slot,
and all applied under any slot have one body. The refinement maps the row
of a replaying slot to the first request applied.

*Stock.* `AcceptedStays` alone is not inductive: what a transaction was told of
a product holds because of what all the others hold. The invariant adds that
`FOR UPDATE` is held alone, that a movement is still to be inserted or its
product is locked, and that a guarded movement has not lost its lock
(`Kept`, `Exclusive`). A reversal holds the lock from its check on, and a movement
needs at least a key share to be committed, so no higher id appears before the reversal's
own. A commit changes the stock only of products on which it
holds at least a key share, and no other transaction decided under a lock on those.

*Production.* `RunOK` says of one run that its inputs are distinct products, that its
header and its output row are what its lines give, and that movements, value and cash are
those of its status. What a posted run added to the value of the stock is then its overhead.

*Cash.* Two transactions work on one entry only if both cancel it, and it is
then in `overlap`; outside it a cancellation still finds the entry posted and
carries the opposite of what was booked (`Sound`, `Apart`, `Booked`). A payment
out that is open is covered and alone, or `raced` says so (`OutflowsCovered`). A
creation that has inserted holds its category and method by key share.

*Process.* `JobsInv`: an entry of the index and an answer name a job made for
their own body, also after the restart, which keeps the body of a lost job. `WorkerInv`:
while nothing was late or lost, the worker is done with the last movement, has its
event queued, or is judging it in one of three stages, each with the product, threshold or
stock as they were at that movement (`KeepsUp`); the crossing it owes is then the one it finds.

*Users.* `UsersInv`: the rows that an open request names exist (users and sessions are
not deleted), a deletion of a role is not of a system role, and the
stored count of failures is that of the failures since the last success or unlock.

*Master data.* `ShopInv`: the references hold; rows named by an open request
existed, and since ids are not given twice they exist or are deleted; a time is
written by one transaction only, so a copy with the tag of its row is that row, when
the tag is compared and when the row is patched. An
import checks the category and the unit of a product but no attribute, and is harmless
only because it writes none (`Imported`).

*Model-checked only.* Liveness (`EveryRequestEnds`, `EveryJobEnds`): fairness and
`ENABLED` are beyond the prover. The violated properties of section 5 are shown by
counterexamples. Every other property of the runs is a theorem.

## 7. Not modelled

- Sorting drafts and the allocation of a batch's cost to its outputs; the
  weighted average cost of a movement (`inventory/valuation.py`): a post takes a
  constant cost per line, and no modelled decision reads the average.
- The login variant of the key store, which has no user and is inserted complete.
- The notification inbox: it lists and marks the rows of its caller, and the
  worker inserts rows with no user (`notifications/service.py:122`), so what is
  notified never appears in it. Of the settings, all but the default threshold:
  values no modelled decision reads. The `If-Match` of `PATCH /settings`: its tag is
  the newest `updated_at` of all rows, which no property relies on.
- Rendering of exports; inventory valuation, movement and refund lists among the
  reports; filters, search and paging except where a property is about them.
- Audit rows, validation and wording of requests, headers, rate limits, the table of routes and
  capabilities, the web client: they decide nothing in the modelled operations.
- Hashing and tokens: whether a password matches and whether a token is known
  is left open. Quantities are whole units; amounts are whole cents; their
  rounding is modelled in `Production`, `PurchaseDraft` and the returns of
  `PurchaseDocument`. There the quotient of a line total and its quantity is exact, where
  the code keeps 28 digits: an exact half may be rounded the other way, which the bound
  of `MoneyBounded` allows for.
- `If-Match` on documents is optional for most operations; the models let every
  client omit it. Serialisation failures do not exist at READ COMMITTED; lock
  timeouts end a request as `Rollback` does.
