# Verification of the retail backend in TLA+

The repository is the backend of a retail chain (`src/backend`, Go, PostgreSQL)
with a web client (`src/frontend`). This directory models what the backend keeps
straight under concurrency and failure: the cash desk with its marking codes and
stock, the warehouse with its orders, the queues that send receipts, code
operations and notifications to the outside, deliveries, bookings and their
reminders, and the services beside the till (sessions, marketplaces, tax, EGAIS,
stock alerts). TLC checks the models on small instances; the TLA+ proof system
checks theorems about all of these, for every number of requests, registers, codes,
jobs, deliveries, bookings, clients, orders, closings, sales.

## The system

All state is in PostgreSQL. A request is one goroutine of the API process; the
services of `internal/service` run most requests in one READ COMMITTED
transaction (`store.Store.Tx`), some as single statements. Workers started in
`cmd/api/main.go` are goroutines that poll tables on a ticker. Nothing but the
database orders requests: row locks (`FOR UPDATE`, `UPDATE`), unique indexes, and
conditions inside an `UPDATE`. Where the code reads without a lock and acts later,
other transactions can commit in between. That is the hard behaviour.

| Component | State | Operations | Interacts with | What makes it correct |
|---|---|---|---|---|
| Shifts and receipts (`service/receipt.go`, `repository/receipt.go`) | `cash_shift`, `sales_receipt`, items | open, close, X/Z report, sell, return, correction | codes, balances, send queue, notifications, bookings, in one transaction | numbers dense, one open shift, final Z reports, a return within its sale |
| Marking codes (`service/marking.go`, `repository/marking.go`) | `marking_code_pool`, `receipt_marking_link`, `gismt_queue` | register, check, write off; lock, withdraw, return | receipts, GIS MT queue | one code one unit, status agrees with links and queue |
| Balances (`repository/stock.go`) | `warehouse_balance` | deduct, add, reserve, release, ship | receipts, orders, documents | stock is accounted for, reserves hold |
| Orders and documents (`service/stock.go`, `repository/stockdocs.go`, `repository/order.go`) | `sales_order`, shipments, `receipt_document` | create, confirm, ship, cancel, post | balances, notifications | shipped within ordered, statuses move on, each document once |
| OFD queue (`ofd/worker.go`) and GIS MT queue (`gismt/worker.go`) | `ofd_send_status`, `gismt_queue`, settings | enqueue, poll, send, record | providers over HTTP | at least once, bounded attempts, final outcomes |
| Delivery (`service/delivery.go`) | orders, assignments, couriers | create, assign, accept, reject, status | notifications | one active assignment, a canceled delivery stays so |
| Booking (`service/booking.go`, `booking/remind.go`) | bookings, resources | create, status, reminders | receipts (a sale pays a booking) | no two bookings overlap, one attempt to remind |
| Notifications (`notify/`) | queue, history, preferences, settings | enqueue, drain, low-stock alerts | all services | in the queue or the history, never both; a low product is alerted if there is somebody to be told |
| Marketplaces (`service/market.go`) | offers, imported orders | pull, push stocks | orders, balances | an order is imported once, stocks shown were free |
| Authentication (`service/auth.go`) | users, sessions | login, refresh, logout | - | lock after failures, one use per refresh token |
| Tax (`service/tax.go`), EGAIS (`service/egais.go`) | books, declarations, documents | close and submit a period; send to the UTM | receipts, integrations | a stored book is one live book; a status tells what the UTM has |
| Integrations (`service/integration.go`) | credentials per provider | save, clear, test | queues, EGAIS, marketplaces | the choice of a provider |
| Catalog, roles, audit, handlers, web client | single rows | CRUD | - | no protocol of their own |

`PROJECT.json` lists every component, and under `hazards` what in this code is
hard to test, at its line, with the properties that watch over it.

## Modules

| Module | What it models |
|---|---|
| `RowLocks` | a row lock of the database: taken, waited for, freed at the end of the transaction |
| `Balances` | the checks and updates of `BalanceRepo`, on one row |
| `CashDesk`, `CashDeskProperties` | shifts, `Sell`, `Return`, `Correction`, marking codes, and the stock they move |
| `CashDeskProofs` | theorems about numbers, shifts, marking codes and the stock they move |
| `Warehouse`, `WarehouseProperties` | orders, shipments, documents, register sales on the same balances |
| `WarehouseProofs` | theorems about orders and about the accounts of the balances |
| `AtLeastOnce` | the abstract send queue |
| `SendQueue`, `SendQueueProperties` | the OFD queue and its worker (the GIS MT worker is the same code on another table), shown to implement `AtLeastOnce` |
| `RanksAndSums` | lemmas: the elements of a finite ordered set have the ranks 0..n-1; a sum over a finite set, one row at a time |
| `SendQueueProofs`, `NotificationsProofs` | theorems about the queues; both extend `RanksAndSums` for their polls |
| `Delivery`, `DeliveryProperties` | deliveries, their assignments to couriers, the answers of couriers |
| `DeliveryProofs` | theorems about deliveries and assignments |
| `Booking`, `BookingProperties` | resources, schedules, exceptions, slots, the check of availability, the life of a booking |
| `Reminders` | the reminder loop, EXTENDS `Booking`: the worker beside the requests |
| `BookingProofs` | theorems about bookings and about the reminder loop |
| `Notifications`, `NotificationsProperties` | preferences, settings, the queue and the worker that drains it into the history |
| `Sessions` | seed, registration, logins with their lock, refresh, logout |
| `MarketOrders`, `MarketOrdersProperties` | links of offers, pulls and imports of marketplace orders |
| `StockWatch` | what is made of the free stock: low-stock alerts of a sale, stocks pushed to a marketplace |
| `TaxBooks` | live books, closing of a period, declarations |
| `Egais` | documents sent to the UTM, and the integration row their address is in |
| `BackOffice` | `Sessions`, `MarketOrders`, `StockWatch`, `TaxBooks` and `Egais` in one process |
| `BackOfficeProofs` | theorems about its five services |
| `MCCashDesk`, `MCWarehouse`, `MCSendQueue`, `MCDelivery`, `MCBooking`, `MCReminders`, `MCNotifications`, `MCBackOffice` | the small instances |

Definitions followed by a comment "Mutant of ..." before them are wrong variants
that no specification uses: each stands for a plausible bug, and the run named in
`PROJECT.json` fails when it takes the place of the original.

### How the state and the steps correspond to the code

*Sessions.* `tx[s]` is a request in progress: the local variables of the handler
and the writes of its transaction. The other variables are committed rows. Under
READ COMMITTED nobody else sees a write before COMMIT, so `Commit` applies all
writes of a receipt at once. A statement that reads rows others may change is a
step of its own; a statement that locks a row waits while another session has it,
then reads the committed row. A unique index makes an INSERT wait for a
transaction in progress that has inserted the same value (`InsertBlockers`), and
the detector of the database aborts one of a set of sessions that wait for each
other (`DetectDeadlock`). Every error, lost connection and crash is a ROLLBACK
(`Refuse`, `Fail`), possible at every step.

*Receipts.* `Sell` and `Correction`: `SellBegin` (GetOpen), then per item
`ResolveLine` (the checks of ResolveItems), `LockCode`/`SkipCode` (LockCodes),
then per product `DeductCheck` and `DeductWrite`, in any order as the code ranges
over a Go map, then `ReadNumber`, `InsertReceipt` and `Commit` (links, statuses,
GIS MT rows). `Return`: `ReturnBegin` (BaseForReturn, ShiftOpen), the same loop
with SoldCodeInReceipt and the quantity already returned, `ReadNumber`,
`InsertReceipt`, `AddWrite` per product, `Commit`.

*Shifts.* `OpenRead`/`OpenInsert` and `CloseRead`/`CloseWrite`: these handlers
use no transaction, so their two statements are two steps.

*Orders.* `HeadForUpdate` locks the head, so its check and the read of the lines
are one step; then one step per balance row; `Commit` applies the rest.

*Queue.* `Poll` takes the due rows by id with the settings of that moment; then
per job `Skip`, `RecordNoCall` or `Call` and, as a separate step, the UPDATE that
records the outcome. `Restart` and `RecordLost` lose what is not recorded.

*Deliveries.* `Assign` and `SetStatus` lock the delivery as they read it;
`Accept` reads the active assignment without a lock and meets the row locks where
it writes. `LockAssignment` and `Commit` are the two places where a request
waits, in opposite orders for the two kinds of request. `overwritten` marks
deliveries whose assignment was answered by one request and written over by
another: no code reads it, it bounds what `AssignmentsAgree` can promise.

*Bookings.* `Create` starts a transaction, `CheckResource` is one call of
`checkAvailability`, `Insert` writes the booking; nothing is locked in between.
`sees` remembers which bookings each check found, for `BookedOnce`. Time counts in
units from midnight of day 0; `within` compares times of the day only, as the
code compares `15:04` strings. `InPast` is the refusal of a start more than five
minutes ago (`Grace`), which `Slots` does not know. `remindDue` is the poll, which
skips the bookings without a creator (`orphans`; `DropCreator` makes them by the ON
DELETE SET NULL of the table), `QueueReminder` is `EnqueueUser`, which may store
nothing, and `FlagReminded` or `FlagFails` the UPDATE of the flag, whose error is
not looked at.

*Notifications.* `PollDue` takes the due rows by priority and id with the
settings of that moment; then per job `Skip`, `Unsent`, `DeliverWeb`, or `Send`
followed by `Drain`, which may fail. `Crash` and `AnswerLost` lose what is not
recorded, `lost` counts it.

*The services of `BackOffice`.* A request is a record with a `stage`, one step per
statement: `Login`, `CheckPassword`, `FailLogin`, `LockUser`, `TouchLogin`,
`CreateSession`; `Refresh`, `RotateSession`; `PullOrders` and the statements of
`importOrder`, whose look-up of a product counts as failed when the database gives no
answer (`Match`); `CreateDoc`, `FindUtm`, `SendDoc`, `SetResult`; `ReadFree`,
`Deduct`, `ReadLows`, `EnqueueAlert`, `CommitSale`; `PushStocks` and one `ReadOffer`
per link. A call of a provider is one step with the outcomes its HTTP client can see,
a lost answer among them. Variables marked "no code reads them" in the modules
(`guesses`, `overlaps`, `uses`, `together`, `raced`, `answerLost`, `cutShort`,
`before`, `had`), and the fields `unheard` of a sale and `failed` of a push, remember
the past for the properties and guard no step, but for the bound `MaxGuesses`.

*Tax books.* `ReadSales` and `ReadPurchases` are the two SELECTs of `ClosePeriod`.
Each of its two DELETEs takes two steps: `StartDelete`, where the statement takes its
snapshot, and `DeleteBook`, where it has waited for the closing that is deleting the
same rows. A row that closing has put in place is not in the snapshot and stays
(`current`). `StorePeriod` is the inserts, the declaration and the commit; the unique
index on the entry numbers (`Clash`) fails a closing that would add to rows that
stayed. A closing that has nothing to write does not clash.

*Alerts.* `EnqueueAlert` is the loop over the administrators and their channels for
one product: `told` says whether any row comes of it, which takes an administrator, an
answer to the SELECT of administrators and a channel that is on.

## Runs

| Run | Instance | Shows |
|---|---|---|
| `CashDesk` | 3 requests, 2 codes (one, both in either order, a blank, a repeated one), 2 shifts, 3 receipts | codes: `CodeLedger`, `ReturnedOnce`, `QueueTellsStatus`, `WrittenOffForever`; shifts and numbers: `NumbersDense`, `OneOpenShift`, `ReportIsPrefix`, `ReceiptsAppended`, `ClosedForever`; `TypeOK` |
| `CashDeskStock` | 2 requests, 2 products of a warehouse, 2 codes, 3 receipts, a product in two lines; fair | `StockConservation`; `RequestsFinish`, with deadlocks over codes and balances |
| `CashDeskResale` | 1 request, 1 code, 3 receipts | finding, below |
| `Warehouse` | 2 requests, 2 orders, a document, register sales, 2 products, quantities up to 2; fair | `ShipmentsAgree`, `ReserveAccounted`, `StockCoversReserves`, `StockAccounted`, `StatusMovesOn`, `RequestsFinish` |
| `SendQueueSafety` | 2 jobs of 2 organizations, 2 retries, changing settings and providers, restarts | `AttemptsAgree`, `CallsBounded`, `EndedForever` |
| `SendQueueRefines` | 2 jobs, auto_send on, batch of 1; fair | `ImplementsAtLeastOnce` |
| `Deliveries` | 2 requests, 1 delivery, 2 couriers, 2 zones, 2 assignments; fair | `AssignmentsAgree`, `StatusMovesOn`; `RequestsFinish`, with deadlocks of an answer and a change of status |
| `DeliveryReopened` | the same, without fairness | finding, below |
| `Bookings` | 2 requests, 2 resources, days of 4 units, time up to 2, bookings that touch, overlap, run past midnight; a week schedule, an exception | `BookedOnce`, `SlotsAreBookable`, `StatusMovesOn` |
| `Reminders` | 1 request, 2 bookings, a window of 2, 1 stop of the process, 1 failed flag; reminders not stored, creators deleted; fair | `RemindedOnce`, `UpcomingIsHandled` |
| `Notifications` | 2 organizations of different priority, 3 rows, batch of 1, 2 attempts, 1 interruption per row; fair | `QueueAgrees`, `NotificationsEnd` |
| `BackOffice` | 2 clients, 1 user, a lock after 2 wrong passwords with room for a third, 2 sessions, 3 refresh tokens; 2 pulls, 2 orders, 2 offers, 1 stop; 2 closings of one quarter, 2 receipts, 2 documents; 2 senders, 2 EGAIS documents, 2 saves; 2 sellers, 1 push of 2 offers, 1 product in 2 warehouses | `GuessesBounded`, `TokensAgree`, `LogoutIsFinal`; `ImportAccounted`; `BookIsOneLiveBook`; `StatusTellsTruth`; `LowIsAlerted`, `ShownWasFree` |

`BackOffice` checks five services in one run. They share no table in these models, so
a behaviour of all of them, seen from one, is a behaviour of that one with stutters;
the variable `service` names the one that moves, which keeps the states a sum and not
a product. The constant `Service` lists those a run moves, here all of them: 2.6
million states, half of them of the sessions. Its symmetry swaps the two who act in
every service at once, and the two warehouses.

Why these bounds are enough to make the cases happen: three requests are the least for
one to wait while two others overlap, and for a return to race a sale and a write-off
of the same code; two codes or products are the least for a lock cycle; three receipts
are the least for sell, return and sell again, and for a number gap in the middle; two
shifts for a closed one beside an open one; two retries for RETRY between PENDING and
FAILED; a batch of one for a job that waits behind another; two assignments for a
courier who refuses and one who follows; two bookings for one that overlaps; a day of
four units for an end past midnight; time up to 2 for an offered start that has passed
(with `Grace = 0`); one failed flag and one stop for a reminder that is repeated for
either cause; three tokens for one that is spent, one in use and one of a race; a lock
after two wrong passwords and three guesses, so that the bound can be exceeded; two
rows of a book for an order of entries; two offers of one product for stocks that are
read at different times. The bounds are constants that guard the actions (all named
`Max...`). `Unit = 1` makes one model step one piece; fractions matter only for the
count of codes, `qty \div Unit`. The stock of `StockWatch` is in halves, as `int()`
cuts them off. Requests are symmetric in the runs without liveness, the warehouses of
`BackOffice` too. `CHECK_DEADLOCK FALSE` stands where the system really may stop at
its bounds: no more rows, assignments, tokens or time, and nobody in the middle of a
request (`Deliveries`, `DeliveryReopened`, `Reminders`, `Notifications`,
`BackOffice`).

### Fairness

`FairSpec` of `CashDesk`, `Warehouse` and `Delivery` asks strong fairness of the
steps of each session: a handler is a goroutine that runs, and the database
serves the waiters of a lock in the order they came, so no session waits for ever
for a lock that comes and goes; nothing is asked of requests starting, failing or
codes being written off. `FairSpec` of `SendQueue` asks weak fairness of the
ticker and the end of a batch and strong fairness of handling a job and recording
its outcome: a process that restarts again and again must reach the handling of a
job now and then, else it never sends anything. `RemindSpec` asks weak fairness
of the worker and of each request, and strong fairness of the UPDATE of the flag,
which waits for row locks that come and go. `FairSpec` of `Notifications` asks
weak fairness of the worker, whose goroutine ticks and whose senders return; that
SMTP is dialled without a timeout is the exception, listed below. Settings,
preferences and providers may change for ever, and nothing makes time or users
move.

### Findings

- `CashDeskResale`: a returned code is AVAILABLE and passes every check, but its
  old row in `receipt_marking_link` makes each later sale of it fail.
- `DeliveryReopened`: a refusal of the courier that overlaps a cancellation sets
  the canceled delivery back to NEW, although CANCELED is terminal.

Seen while modelling. The models do these things; the passing properties say
exactly what remains, and no run of its own states them:

- a receipt can commit after its shift was closed, missing in the Z report
  (`ReportIsPrefix`: those missing are the last);
- a code scanned twice passes as the codes of two units; a return counts codes,
  not distinct ones;
- two overlapping returns can give back more than the sale sold;
- two overlapping sales can take out stock reserved for orders
  (`StockCoversReserves` is about warehouses no register has sold from);
- an order canceled after a first shipment keeps the reserve of the rest
  (`ReserveAccounted` counts it);
- jobs with auto_send off, or of an organization that switched notifications off,
  that fill the batch keep all others from being sent (`SendQueueRefines` has
  auto_send on, `NotificationsEnd` asks for a free place);
- two bookings in flight together can take one resource (`BookedOnce`), and a
  slot is offered although a booking of the day before is not over, or although its
  start has passed and `Create` refuses it (`SlotsAreBookable`);
- a booking canceled after the poll of the reminder loop is still reminded of; one
  whose flag could not be set is reminded of again; one whose reminder could not be
  stored, or whose creator has switched off both channels, is flagged as reminded; one
  without a creator never is, and is polled on every tick (`RemindedOnce`,
  `UpcomingIsHandled`);
- `is_locked` is only cleared by a login, which it refuses: the lock of 15
  minutes never ends; overlapping wrong logins count once (`GuessesBounded`);
- two refreshes in flight with one token both succeed (`TokensAgree`);
- an order stored as SKIPPED, also for a race about the buyer, is never imported
  later, nor is one whose product the database failed to look up (`ImportAccounted`);
- a pull of Ozon orders reads one page from the start of the list, with no cursor:
  it does not see what is beyond (`Limit` and `Pages` of `MarketOrders`);
- closing a period again sets a SUBMITTED declaration to DRAFT;
- a document whose request was cut short stays PENDING for ever
  (`StatusTellsTruth`);
- of two saves of an integration that overlap, one is lost;
- overlapping sales can alert twice of one product, and an alert for one
  warehouse silences another for 24 hours (`LowIsAlerted` takes any warehouse);
- no alert comes of a sale when the organization has no administrator with a channel
  on, or when their SELECT fails (`LowIsAlerted` names the case);
- a push sends 0 for an offer whose stock could not be read, although the product is
  free (`ShownWasFree` names the case);
- the sales book of one closing can stand beside the purchase book of another, and
  both beside the declaration of a third: a closing that read empty books, and whose
  DELETEs began before another stored its rows, writes a declaration of 0 beside
  these, although the comment of `ClosePeriod` (`repository/tax.go:103`) says that it
  overwrites both (`BookIsOneLiveBook` is about each book by itself).

Not modelled, but of the same kind: a document number is `COUNT(*)+1`; SMTP is
dialled without a timeout (`notify/senders.go`), so a silent server stops the
worker; GIS MT rows of one code may be retried out of order.

## Proofs

`CashDeskProofs` proves `Spec => []Inv` from `ConstantsAssumption` alone. `Inv` is
the type invariant with two additions: a request in progress knows its register
and kind (`Known`), and the numbering (`Numbered`). `NumbersDense` is not
inductive: one must know that the number a request has read follows one in use
(`Follows`; receipts never go away, so this stays true while others commit), and
that an inserted number is neither committed nor inserted by another (`Fresh`,
which the unique index gives). Steps that only resolve, lock or check are
`Progress` steps and keep both parts for one reason. From `Inv` follow
`TypeCorrect`, `NumbersAreDense` and `ReceiptsAreAppended`.

Its second part characterises the only two ways shifts change (`Opens`,
`Closes`) and proves `OneShiftIsOpen`, `ClosedStaysClosed` and
`ReportsArePrefixes`; the last needs the invariant for the report a closing
request has read and not yet stored (`Reports`) and the fact that later receipts
have larger numbers.

Its third part proves `LedgerHolds`, `ReturnedByOneReceipt`, `WriteOffIsFinal` and
`QueueTells`. The strengthening is `Holds`: every code in the list of a
request is locked by it and has the status, and for a return the link, that
the check read; other sessions cannot change a code they do not own. With it,
`Ledger` is preserved by each step. `QueueTells` follows the status a request has
written and the operation it queues with it (`Told`), up to the commit of both.

Its last part proves `StockIsConserved`. `StockConservation` compares a balance with
the committed receipts, so the invariant must follow a request from its lines to its
commit (`Resolves`): the quantity it has of a product is the sum over the lines
resolved so far; a sale has taken all of them out before it reads its number, and a
request of a register without a warehouse moves nothing. At the commit the items of
the receipt are all the lines (`ItemsAreLines`), and the receipt is a new one by
`Fresh`, so what is moved changes by it alone (`SumAtOne`). A rollback leaves both
sides as they were.

`WarehouseProofs` proves all the safety properties of `Warehouse`. A request on an
order locks its head first, so what it has decided from the row still holds of the
row when it commits: `Known` says so, with what the lines and the status of an
order keep (`RowOK`), and gives `ShipmentsAgreeHolds` and `OrdersMoveOn`. For each
kind of request a lemma on the order alone (`ConfirmDone`, `CancelDone`,
`ShipDone`) says by how much its claims on the reserve and on the stock change.
`Books` compares the balances with the sums of these claims: a commit changes one
order or one document, so it changes each sum by that row (`SumAtOne`), and as the
reserve covers the claim of every order, the GREATEST(0) of `Release` and `Ship`
takes nothing away (`ReserveSuffices`). From `Books` follow `ReserveAccountedHolds`
and `StockAccountedHolds`. `StockCovers` needs also that a session that has
reserved a product has its balance locked, and that the first balances cover what
is reserved: it is the one theorem with a hypothesis of its own, as a warehouse
that starts without the stock it has promised keeps the difference.

`BookingProofs` proves `BookedOnceHolds` and `BookingsMoveOn` from
`BookingAssumption` alone. `BookedOnce` speaks of stored bookings and of what each
saw in its check, so the invariant must follow the check itself: what a request
has found free stays free of the bookings it saw (`Checked`), as these never get
another time or resource and never come back from an ended status. That is
`Kept`, the only way the table may change, shown once for each kind of step.
`Separated` is the same fact for stored bookings, and `Known` says that a change
of status holds the lock of its row and writes a successor of the status the row
still has, from which `BookingsMoveOn` follows.

`SlotsAreBookableHolds` is about what `Slots` computes in any state: arithmetic of
minutes and days, the days between a slot and the midnight before it.

For the reminder loop, `RemindersAreBounded`: of the reminders of a booking one is
owed to the flag, or to the UPDATE about to set it, and each other one to a stop of
the process or to an UPDATE of its flag that failed (`Accounted`). No fact about the
requests is needed.

`SendQueueProofs` proves `AttemptsAgreeHolds`, `CallsAreBounded`, `EndedStaysEnded`
and `ImplementsSafety`. The batch is a copy of the rows as they were polled, and
the UPDATEs write what was copied, plus one; the invariant needed is that the copy
is never stale (`Fresh`: a job of the batch is due, is there once, and its row
still has the attempt that was polled) and that a call waits for its outcome
(`Waiting`). That a poll yields each due row once is a fact about ranks in an
order, which `RanksAndSums` proves from the library's facts on finite sets.
`ImplementsSafety` is the refinement of `AtLeastOnce!Safety`: with `Fresh`, every
step is a step of the abstract queue or a stutter. Its fairness stays with TLC.

`NotificationsProofs` proves `QueueAgreesHolds` with the same `Fresh`, although the
batch is ordered by priority and rows leave the queue. Beside it: the ids are
1..n (`IdsDense`), so that a new row is in neither table.

`DeliveryProofs` proves `AssignmentsAgreeHolds` and `DeliveriesMoveOn`. `Known(s)`
says what a request may rely on: who has the row lock of a delivery knows its
status, and that the assignment it has locked is active; an answer of a courier
knows only which assignment it is about. At `Commit` that is enough to keep
`Agrees` for the assignments, or the delivery becomes `overwritten`: the proof
shows that the overlap the property excepts is the only one.

`BackOfficeProofs` proves the properties of its five services. Each has an invariant
of its own, and `StepsAre` gives that a step of the whole is a step of it or leaves
it alone.
- `StatusTellsTruthHolds` (EGAIS): a document under way is PENDING, has one request,
  and the UTM has it or not as the stage of that request says (`UnderWay`).
- `LowIsAlertedHolds` (stock): a sale at its last stages has the lock of its
  balance, so what it read as low is still all that is low, and each product it
  crossed off is alerted, or noted as one nobody was to be told of (`Watched`).
- `ShownWasFreeHolds` (stock): what a push has read of an offer so far is, in units,
  one of the stocks there have been since it began, or 0 where the SELECT failed, and
  what it would read next is one too (`Tells`), whatever sales commit between its
  statements. Offers are told apart by their place in the list of links, so a product
  may have several.
- `BookIsOneLiveBookHolds` (tax): what a closing has read is a live book of its
  period when it is read (`LiveBookIs`), and stays one that there has been as rows are
  added and never change, since a new row is in the past of none before it
  (`LiveStays`, `ReadBy`). At the end each book is stored over nothing, or what stays
  stays alone, as rows that were not deleted clash with new ones (`StorePeriodInv`);
  who has deleted what, and when, does not matter for it. That `ORDER BY id` yields
  each row once and in order is a fact about ranks again (`InOrderGrows`).
- `ImportAccountedHolds` (marketplaces): an order has one sales order exactly if it
  is stored as MATCHED (`Imported`), a sales order that is not committed is of a
  transaction about to store it, and a pull that is to skip an order for a failure
  has met one, or finds it stored (`Pulls`). That a number already taken means a
  stored order follows from `Imported`, and is why two pulls lose nothing.
- `GuessesAreBounded` (sessions): unless logins of a user overlap, the one in
  progress has read the count as it still is (`Follows`), and the guesses are what the
  row counts, or one more until the failure is stored (`Counted`); when no login is
  under way a user with LockAfter guesses is locked (`Settled`), and whom the login
  finds locked it refuses before the password. `TokensAgreeHolds`: the
  refreshes that succeeded and those in flight with a token are no more than were
  in flight together, and a token that was used is of no session any more
  (`Refreshed`), since the session a refresh has found is the only one with its
  token (`Requested`) and new tokens are larger than all before. `LogoutStaysFinal`
  is the action property of the same invariant.

TLC has checked these invariants on the instances of the runs before they were
proved. The theorems assume what the modules assume of their constants: bounds are
natural numbers, `None` is no row and no id, and the clients of the sessions, the
orders of a marketplace and the warehouses are finite sets.

`RanksAndSums` also proves what the sums of the community modules are: the fold is
a `CHOOSE` of a recursive function on subsets, and the lemmas show by induction on
their cardinality that there is one, that the order of its choices does not matter,
and that a sum changes by the row that changes (`SumStep`, `SumAtOne`). The
induction is itself a lemma on sets of numbers, since the theorem of the library
takes an operator.

Every safety invariant and every action property of the runs is stated by a theorem.
Only model-checked: liveness (`RequestsFinish`, `UpcomingIsHandled`,
`NotificationsEnd`) and refinement under fairness (`ImplementsAtLeastOnce`), which the
prover does not reach. What the sums of a declaration (`Total`, `Vat`) come to is
modelled, and no property states it. The row locks and unique indexes are the
database's: the models state what the code relies on and prove nothing about
PostgreSQL.

## Not modelled

- Catalog and prices, roles and permissions, the audit log, organizations: single
  statements on single rows, with no protocol between them.
- HTTP handlers, middleware, metrics and configuration: they keep no state.
- In the modelled components: prices, payments and totals, the batches of marking
  codes with their `used_codes` counter, document numbers, locks taken by foreign
  keys, templates and texts, the schedule and tracking of couriers, exports and
  summaries of tax, the wire formats of marketplaces, OFD, GIS MT and UTM, the
  encryption of credentials; rows that are inserted once and never change
  (registers, zones, couriers, resources, services) are constants; a worker running
  in two processes (the deployment starts one).
- The web client, the deployment and the SQL drafts: no logic of the backend.

## Plan

1. Proofs: that the totals of a declaration are those of the stored books, and a
   bound on what overlapping returns give back, which would need a property first.
2. Models: the order of the operations on one code in the GIS MT queue
   (`SendQueue` composed with the codes of `CashDesk`), `CashDesk` and `Warehouse`
   on the same balances, the batches of marking codes, document numbers.
3. Abstract specifications: a marking code as a small automaton implemented by
   `CashDesk`; a notification as an at-least-once message.
