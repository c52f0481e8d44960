# Formal models of the mobile server

The server is the back end of a point-of-sale system. Tills ring up sales, some
of them off line, and synchronise later; an owner keeps stock, customers and
suppliers; nightly jobs tidy up. Every tenant has a MySQL database of its own,
and one global database holds the tenants and their plans. One Node process
serves all of them, so that two requests interleave wherever a handler awaits,
and at the default isolation (REPEATABLE READ) a plain read in a transaction
locks nothing. Most of what can go wrong is of one kind: a handler reads rows,
decides, and writes what it computed from them, while another does the same.

This directory holds TLA+ models of that behaviour, TLC configurations that
check them on small instances, and TLAPS proofs of what matters most for every
value of the constants. `PROJECT.json` lists the components, the runs, the
source lines each definition stands for, and the hazards the properties are for.

## Contents

| module | what it is |
| --- | --- |
| `SaleLifecycle`, `SaleLifecycleProofs`, `MCSaleLifecycle` | status, payments, reversals of sales rows |
| `WriteReplay`, `RecordedOnce`, `MCWriteReplay` (proofs in `PointsLedgerProofs`) | replayed writes and their dedupe; what it promises |
| `StockLedger`, `StockLedgerProofs`, `MCStockLedger` | balances, receipt layers and movements of an item |
| `PointsLedger`, `PointsLedgerProofs`, `MCPointsLedger` | points, batches and transactions of a loyalty account |
| `HeldValue`, `HeldValueInvariants`, `HeldValueProofs`, `MCHeldValue` | vouchers, prepaid packages and milestones of a customer |
| `SaleReports`, `MCSaleReports` (proofs in `SaleLifecycleProofs`) | what the reports say of the sales, and the cache of closed reports |
| `Receiving`, `ReceivingProofs`, `MCReceiving` | a purchase order, its deliveries, invoices and returns, and their stock |
| `Payables`, `PayablesProofs`, `MCPayables` | the money of procurement: advances, draws, settlements and their payments |
| `Documents`, `MCDocuments` | the lists of procurement documents and of sales, their feeds to devices and their details |
| `Catalogue`, `MCCatalogue` (proofs in `StockLedgerProofs`) | items, variants, codes, suppliers, recipes, and the switch that says whether stock is kept |
| `Access`, `AccessProofs`, `MCAccess` | roles and the permission cache, logins and tokens, devices and what they listen to |
| `Tenancy`, `TenancyInvariants`, `MCTenancy` (proofs in `HeldValueProofs`) | a tenant in the two databases: sign-up, outlets, plans, add-ons, payments, prices |
| `Sums`, `SumLemmas` | sums over sequences and over sets as recursive functions, and what is proved of them |

In every module the data are reduced to what the properties tell apart: money
and quantities are small naturals, rows are records, ids are model values. What
is kept is the control: which rows a handler reads, on which conditions it
gives up, which conditions are in the WHERE of its writes and which are only in
its code, what it writes absolutely and what relatively. A definition with a
comment "Mutant" is a plausible bug and is used by no specification: put in the
place of the definition it stands before, it makes a property fail, and each
property fails for one (`PROJECT.json`, "mutants"). Three modules are proved
about in the proof module of another, which EXTENDS them beside its own:
`WriteReplay` in `PointsLedgerProofs`, `Tenancy` in `HeldValueProofs` and
`Catalogue` in `StockLedgerProofs`. The two of a pair have nothing in common, and
so `WriteReplay` has its names with `Replay` (`ReplaySpec`), `Tenancy` with
`Tenant` (`TenantSpec`) and `Catalogue` with `Items` (`ItemsSpec`). The
parts of the inductive invariants of `HeldValue` and `Tenancy` are in modules of
their own; those of the other modules are beside their proofs.

## Inventory

| component | state | operations | what is hard |
| --- | --- | --- | --- |
| sales (`sales/`) | `sales`, `payment`, `sales_item` rows | checkout, add payment, void, return, refund, confirm delivery, collect, remove | reversals that race; absolute writes from a snapshot; a collection outside any transaction |
| write replay (`middleware/idempotency-middleware.ts`, `sales/client-ref.ts`, a cron) | `idempotency_record`, CLIENT_REF on sales and payments, the till's outbox | look up, run, store, clean up | overlapping retries, lost answers, a crash between commit and store, retention |
| stock (`stock/`, `warehouse/`) | balance per location, receipts, movements | sale, reversal, adjust, override, clear, receive, withdraw, transfer, drain | three ways of writing one row; FIFO cost layers; debts of supplies |
| loyalty (`loyalty/`, in `sales/`, a cron) | account, point batches, transactions, program, tiers | earn, redeem, adjust, reverse, expire | unlocked check before spending; absolute batch writes; pages of a shrinking set |
| vouchers (`voucher/`) | vouchers, reward rules | issue, redeem, restore, expire, milestone check after a sale | test-and-set redemption; a count that locks nothing |
| packages (`subscription-package/`, a cron) | customer subscriptions, usage rows | subscribe, use, restore, cancel, expire | optimistic version beside unconditional writes |
| procurement (`purchase_order/`, `delivery_order/`, `invoice/`, `invoice_settlement/`, `purchase_return/`, `quotation/`) | documents and their lines, stock receipts, the down-payment ledger, settlement payments | create, confirm, receive, invoice, settle, pay, return, cancel; lists, feeds and details | statuses and sums derived from other documents; totals written absolutely; a feed that must name every relation its lists show |
| document numbers (`helpers/documentNumber.ts`) | `document_sequence` | seed, draw | the row lock creations wait for |
| roles and the permission cache (`role/`, `auth/permission-cache.ts`, `middleware/`) | roles, their permissions, who holds them; resolved sets with a time to live | create, update, assign, resolve, invalidate | a resolve that stores its result after the invalidation |
| logins and tokens (`auth/`) | users, refresh tokens | log in, refresh, log out, delete a login | tokens revoked before the answer is sure; a deletion beside a refresh |
| devices (`pushy/`, `device/`) | push devices, allocations, terminal numbers, topics | register, release, remove, listen | an allocation and an activity written apart; topics told to a service outside |
| tenants (`admin/`, `tenant/`) | tenant, logins, outlets, warehouses, subscriptions, add-ons and payments (global), their copies (tenant) | sign up, add and drop, change of plan, pay, price | two databases, no common transaction; counts that are kept beside what they count |
| catalogue (`item/`, `supplier/`) | items, variants, suppliers of an item, recipe lines, stock rows | create, edit, switch, remove; feeds and lists | one edit writes six tables; a checkout that began before the switch |
| reports (`report/`, dashboard in `sales/`) | a cache of outlet reports in memory | session, outlet and laundry reports, monthly summary, dashboard | the same money summed in six places; a fingerprint that must see every change |
| sessions (`session/`), expenses (`expense/`) | rows | open and close; create, edit, remove | read in the reports |
| tenant clients (`db.ts`) | a map of database clients | get, evict, disconnect | an eviction that awaits while requests use the client |
| live notifications (`live/`) | sockets, topics, a replay window in memory | publish, subscribe since, ping, close | a restart that forgets |
| customers, categories, menu, settings, public pages, demo data, scripts | single rows | CRUD, reads | no protocol of their own |

Interactions. A checkout (`completeNewSales`) writes the sale, its payments,
the stock of every line, the points, voucher and package use in one
transaction; a reversal undoes all of them in another, behind one conditional
write of the status (`claimSalesReversal`). `addPaymentToPartiallyPaidSales`
earns points when it settles a sale. Checkouts and payments pass the
idempotency middleware and carry CLIENT_REF. Delivery orders and purchase
returns write the stock ledger. A downgrade drains the warehouses into an
outlet. The jobs of `cron/cron-manager.ts` run at 00:00 (points), 00:30
(packages), 01:00 (idempotency records) and 09:00 (reminders) in the server's
own process. The models meet at these places: `SaleLifecycle` has the claim all
reversals share, and `StockLedger`, `PointsLedger` and `HeldValue` take it as
the condition `Holds` of their reversal. `SaleReports` takes over the steps of
`SaleLifecycle` and adds to each what the reports read of it. `Receiving` and
`Payables` are the same documents, once for their stock and once for their
money; `Documents` reduces both, and the sales, to what is shown of them.

What makes each correct, in one line: a sale's side effects are undone once for
each time it was completed; a write a till sent is in the database once, and a
till is not told otherwise; a balance is what its movements say, and its layers
hold no more than it; points are what the batches hold and what the history
says; a voucher pays for one sale, and a package is used as often as it was
sold for; a delivery or a return is taken out of the stock, or put back, once,
billed by an invoice that stands, and of an order that is still there. An
advance is drawn no further than it was paid, and a settlement is PAID when its
money covers it. A report says of each sale what the others say. A device has,
or is about to be sent, what a list shows. A cached grant ends when the cache
promised. The two databases agree about a tenant, and it is billed for what it
has. An item has stock rows when its stock is kept, a source, and codes of its own.

## How the code becomes actions

A handler that runs in a transaction is two steps of a *worker*: `Begin…` reads
a snapshot, evaluates the guards and plans the writes; `Commit…` applies the
writes to the rows as they are then, if the conditions in their WHERE hold.
Nothing finer can be observed of these handlers: reads lock nothing, the written rows stay locked
until the commit, and no other transaction sees half of the writes. `Abort` is
a condition that failed, a unique index, a deadlock's victim, the transaction
timeout, or a crash. A handler without reads that matter (`Checkout`, `Remove`,
`Reopen`) is one step, and one with locking reads throughout (`Drain`) too.
Workers are two in every run: the races of this code are between a request that
has read and another that writes. Modules whose operations are many have a *mix*,
chosen at the start of a behaviour, that says which of them are considered
together; an MC module chooses its mixes so that operations that meet on a row
are met together.

### SaleLifecycle

State: the `sales` rows (`sale`), sums over the payment rows (`rows`), how often
stock was restored (`restored`), credits and reversals of earned points
(`earns`), sales past the Lite void window (`aged`), and the open transactions
(`tx`). `completions` and `raced` are history. Actions: `Checkout`
(`completeNewSales`), `BeginPay`/`CommitPay`
(`addPaymentToPartiallyPaidSales`), `VoidSales`, `ReturnSales`, `RefundSales`
and `CommitReverse` (the three reversals share the claim),
`BeginDeliver`/`CommitDeliver` (`confirmDeliveryBatch`),
`BeginCollect`/`CommitCollect` (`collect`), `Remove`, and `WindowCloses` for the
24 hours of the Lite plan. All sales owe the same `Total`; the lines, prices,
discounts and change are left out.

### SaleReports

`RingUp`, `Settle`, `Reverse`, `Confirm`, `Collect` and `Delete` are steps of
`SaleLifecycle` with what they write besides: the session a sale was rung up in
and the one it was completed in (`rung`, `doneIn`), its stamp, and its payment
rows (`slips`). `Update` and `Restate` rewrite a profit; expenses come, change
day, and go. A figure of a report is the set of rows it adds up, so that to say
that two figures agree is to say that they add up the same rows. The reports are
operators: `SessionReport`, `LaundryReport`, `OutletReport` (a field for each
group of statements), `MonthlySummary`, `GetTotalSalesData`, `GetRevenueTrend`.
`Ask`, `TakePrint`, `Hit`, `Miss`, `Build` and `Store` are one request for the
report of an outlet, which reads its fingerprint table by table and its figures
group by group, while writes commit in between. `late`, `strayed`, `since` and
`amid` are history. Under the mix "sales" nothing of this moves, and the behaviours are
those of `SaleLifecycle`. Left out: prices and averages, the ranking among items,
what the live sections say (`shelf` stands for it).

### WriteReplay and RecordedOnce

State: what the till knows (`queuedAt`, `answer`), how often the write is in the
database (`applied`), the stored responses (`records`), those being stored
(`pending`) and the requests in flight (`req`). A request goes through the
phases lookup, check (the CLIENT_REF read), run and reply, and anything may
happen between two. The three *regimes* say how rough the network is: in "calm"
a retry follows its attempt, in "overlapping" it may overtake it, in "hostile"
the server may crash and the database fail besides. The till is the only part
that is not in the repository; it does what the comments of the middleware say
the outbox does. `RecordedOnce` is the promise: a write is recorded at most
once, and a till hears "recorded" only after. `RecordsOnce` says that
`WriteReplay` implements it for the writes that carry CLIENT_REF.

### StockLedger

State: per location the balance (`bal`, `rows`, `ver`), the receipt layers
(`rec`), and as history the sum of movements (`moved`) and of what came from
outside (`outside`). One `Commit` serves all operations; what differs is in the
plan, and in `Written`: sales and reversals add inside the UPDATE, everything
else writes the value it read plus its delta, and only the outlet adjustments
check the version (`Holds`). A *setup* fixes the kind of item, the rows at the
start, the operations in use and whether requests overlap. Left out: costs
(a layer's date stands for it), variants, bundles and recipes (they only choose
which item is drawn), the track-stock switch (`Catalogue`), and `PUT /stockReceipt/update`
(`stock-receipt.service.ts:48`), which writes quantity, date and cost of a layer as
the client sends them and leaves the balance: what is said here of layers is said
of a ledger nobody has edited that way.

### PointsLedger

State: `currentPoints` (`points`), the batches in the order they were earned
(`batch`), the sum of the transactions (`logged`), the sales, and the expiry job
(`cron`). `Sell`, `Pay`, `ReverseLoyalty`, `EarnPoints`, `RedeemPoints`,
`AdjustUp` and `AdjustDown` plan; `Commit` writes each batch it drew from
absolutely, from its snapshot, and the balance relatively. The job is modelled
with its defect: `PageRows` skips a row on every page after the first, because
the cursor row it means to skip no longer matches the filter. A *mix* fixes
which operations and sales meet. Left out: tiers, the totals earned, redeemed
and spent, the program's switches and minimum redemption, and a manual earning
tied to a sale.

### HeldValue

State: the vouchers (`voucher`), the subscriptions of one package in the order
they may be bought (`pack`: status, uses left and used, version, whether the end
has passed), the usage rows (`usage`), the sales, `totalSpend` (`spend`), the
milestone checks that are scheduled (`due`) and those under way (`check`).
`Sell`, `Reverse`, `Subscribe`, `Cancel` and `RecordUsage` plan, `Commit`
applies: quota relatively, a status as it was planned. `Holds` is the test of
the voucher's status, of the subscription's version (for a checkout; a recorded
use whose version has moved writes nothing and fails nobody, see `Taken`), of
the claim and of the unique index of the usage rows. A check is not one step:
it reads the spend (`StartCheck`), counts (`CountVouchers`) and inserts
(`InsertVoucher`) slot by slot, and a restart forgets it. `Expire` is the
nightly job; `Ends` and `Lapse` let an end date pass. Left out: what a voucher or
package is worth, categories, deletion, and the points of a sale (`PointsLedger`).

### Receiving

State: one purchase order of one item (`order`, `quote`), its deliveries,
invoices and returns, the balance and the sum of its movements at the outlet
(`balance`, `moved`), and the receipt layer each delivery made (`receipt`).
`sold`, `raced` and `undone` are history. Here a request is up to three steps:
`Begin` is what a handler reads before it opens its transaction, `Open` the lock
the transaction starts with and the snapshot that is read behind it, and the
third step the commit. The lock matters: creations wait for the counter that
numbers their document (`nextDocumentNumber`), cancellations for the row they
claim, so that two deliveries, or two cancellations of one, never see the same
snapshot, while what was checked before `Begin` may be long gone. Actions are
named for the endpoints: `Deliver` (`createMany` of a delivery), `TakeBack` and
`EditDelivery` (its `update`, to CANCELLED or not), `DeleteDelivery`, `Bill`,
`CancelBill`, `EditBill`, `DeleteBill`, `Settle`, `Return`, `PutBack` (`cancel`
and `deletePurchaseReturn`, which share the restoration and not the claim),
`EditReturn`, `Confirm`, `CancelOrder`, `DeleteOrder`, `CancelQuote`,
`DeleteQuote`, and `Sell` for the outlet. What an invoice bills is the client's
to say. Left out: several lines and variants, warehouse destinations, what a
layer costs, settlements that pay a part, and all money (`Payables`). The
creation of orders and quotations is where the model starts.

### Payables

State: orders with the advance paid and drawn (`order`), the down-payment ledger
(`advance`), the draw stamped on each invoice, the settlements with the amount
their row claims and the sum of their payment rows (`rows`). Actions are begun,
opened (when the transaction reads what its writes depend on) and committed,
each operation by an action of its own (`Bill`, `Settle`, `Pay`, `EditAdvance`,
...), which increments what the code increments and writes as computed what the
code computed from what it had read. Amounts are whole numbers of the fraction the columns keep, `Minor`
of them the least the currency pays, which is what the rounding and the write-off
cap (`Round`, `WriteOffCap`) are about. Left out: attachments, currencies that
differ, the split of a rebate by weight, and that the update of an invoice which
cancels it may name another order or total in the same request
(`invoice.service.ts:1276`, `1283`): `CancelBill` leaves both, and moving is an
`EditBill` before it.

### Documents

State: the documents reduced to what other documents' lists show of them
(`row`), and one device that keeps the list of one kind (`kind`, `copy`, `pull`).
Writes are one step each. The reads are operators: `…Listed`, `…Detail`, and the
feed of each kind as the set of documents whose `where` clause matches. Sales are
a kind of their own: how one leaves the shop (`way`, `out`) decides which lists
show it (`PartiallyPaid`, `DeliveryList`, `DeliveredList`), and a device that has
no sale yet gets the newest and those still to be collected (`ColdStart`). `lost`
holds what no later feed brings, and only for the reasons written beside it.

### Catalogue

State: one record `db` of items, variants, links to suppliers, recipe lines,
stock rows and suppliers. An edit is one transaction: `Start` fixes what it sees
(`seen`), `Finish` applies the six groups of writes of `update` in their order
(codes, suppliers, variants, recipe, unit, switch). `Checkout` is a sale that
read the switch and writes the stock row. A behaviour starts in one of `Origins`,
catalogues in which the promises hold before anything was lost or left out. `sent` is what the next feed brings.
A recipe is stored as the client sent it: any item that is there, in the
unit sent or the default (`Recipes`, `Sendable`), as the code looks at neither.
`bare`, `opened`, `strayed`, `dropped`, `retired` and `astray` (recipe lines sent for
what is no live supply, or in another unit than its own) are history.

### Access

State: roles, who holds them, the permission cache and the plan cache with the
ticks they still serve, logins and tokens, push devices with allocation and
activity, their topics at the push service, terminal numbers. None of these
handlers holds a transaction across its reads and writes, so each statement that
can be told apart is a step (`tx[w].step`), and a request is cut off between any
two. The removal of a device unsubscribes it from all topics it asked for, or from
some of them, or none, and goes on; when the outlets cannot be read it asks only for
topics of the first (`AskedFor`, `Unsubscribes`). These calls are one step: nobody
else of the model takes topics away. `Tick` lets time pass. The push service and the client's storage are
external.

### Tenancy

State: both databases: logins and users, members, outlets and shops, warehouses
and depots, subscriptions, add-ons, invoices, and stock in a warehouse. A handler
with a transaction on both commits the tenant's inside the global one, which are
two steps with a failure possible between them; the others go statement by
statement. The five computations of a price are operators (`TenantCost`,
`DashboardCost`, `SummaryCost`, `SnapshotCost`, `UpcomingCost`). `raced`, `cut`,
`stale` and `rolled` are history; `Tidy` is when no request is under way and none
was raced or cut. A *duty* is what other modules call a mix, and a sign-up is one
of its own: the others take a tenant that stands, and an undone and repeated
sign-up meets nobody else. Left out: lists of users, devices and payments, the edit of an
outlet's address.

## Runs

| run | checks | size |
| --- | --- | --- |
| `SaleRaces` | the sale properties over five kinds of sales; that session, shift, month and outlet reports agree about a sale; that a cached report is what one built since it was asked for could say | 2 requests, total 2, tenders 0–2; 2 sessions, 2 days, 2 readers, one cached period |
| `SaleCollectTwice` | `RestoredAtMostOnce`, and fails: a laundry order that was voided is collected, is Completed again, and is voided again | same |
| `ReplayWrites` | the replay properties in the calm and hostile regimes, the refinement of `RecordedOnce`, and that a checkout is answered in the end | a checkout and a plain write, 2 requests, 4 hours |
| `StockMixed` | that movements explain the stock, that layers hold no more than the balance, and FIFO, six setups | an outlet, a warehouse, 2 sales, quantities 1–2 |
| `PointsRaces` | the points properties, six mixes, and that what expires goes | 3 batches at the start, 2 sales, pages of one |
| `HeldRaces` | vouchers, packages, milestones, ten mixes, and that the jobs get done | 2 sales, 3 subscriptions, quota 2, 2 requests |
| `ReceivingRaces` | procurement's stock and links, five mixes | 2 deliveries, 2 invoices, 2 returns, 2 requests, 6 in all |
| `PayablesRaces` | procurement's money, five mixes | 2 orders, 2 advances, 2 invoices, 2 settlements, 2 requests, 4 in all |
| `DocumentFeeds` | that every change of a list is sent, and that a list and a detail agree, from five stages of a chain of documents and from a till's sales | one document of a kind (two orders, three sales), 2 writes, 1 device |
| `CatalogueRaces` | stock rows, sources, recipes, codes and feeds of items, six mixes, two stages | 4 items, 3 variants, 2 suppliers, 2 requests, 3 in all |
| `AccessRaces` | grants, devices, topics and tokens, ten mixes | 2 users, 3 roles, 2 devices, lives of 2 ticks, 2 requests, 3 in all |
| `TenancyRaces` | the two databases, prices, payments, plans, nine mixes | 2 logins, 2 outlets, 2 warehouses, 2 requests, 3 in all |

All but `SaleCollectTwice` hold. It quotes a claim of the documents that the code
does not keep (`findings`). Where a property of a passing run holds only within
limits, it names them in its formula (`~raced`, `Ordered`, `~Overlap`,
`~doubled`, `Tidy`, `lost`, `late`, `strayed`, `astray`) and not in the model, and
the section on what the models show says what happens beyond.

Every property has a mutant under which its run fails. Some properties are
conjunctions of two that belong together; then one of them is what the mutant
breaks. The types of the variables are a conjunct of a property where no theorem
proves them.

Bounds and why they are enough.

* Two requests and a crash: each property is violated, under its mutant, by two.
* `Total = 2` with tenders of 0, 1, 2: a sale owes, owes half, is paid, or is
  paid with change. `MaxTendered = 3` lets a payment that raced be followed by
  another; `MaxReversals = 2` a second reversal and no third.
* The sales of a run meet only in a delivery batch (`FewRung`): no handler of
  this module reads two sales otherwise.
* Replay: retention 2 hours, window 1, fresh for 1, clock to 4: a record
  expires, and a write can be queued and replayed after. When requests overlap
  the checkout is explored alone (`CheckoutAlone`), as keys do not interact.
* Stock: `MaxReceipts = 4` is the two opening layers and two more;
  `MaxVersion = 2` bounds the number of writes per row to two beside reversals.
* Points: three batches at the start and two more, amounts of two over batches
  of one and two, so that a draw empties one batch and reaches the next; pages
  of one, so that a run of the job has several.
* Held value: a quota of 2 taken by one or two at a time is left, used up, or
  refused; three subscriptions are the kinds there are (counted with and
  without an end, and for a time), two of which are met in one mix so that one
  is bought after another; `Threshold = 1` makes each sale a milestone, and a
  repeatable rule has two slots. `MaxReversals = 2` reopens a laundry order once.

* Reports: while the reports are looked at there is one sale (`InView`), as every
  figure is a sum over sales; it is a delivery that owes, under two requests at
  once, or a laundry order under one. Payments come on another day than the sale
  (`PayDay`), so that a period has payments of sales that are not its own. Under
  the cache three writes are stamped (`MaxStamp`): the checkout, what is cached,
  and what is written after; one profit is restated with an old stamp. A cache of
  one entry and two periods make it evict. Two readers make one store a report
  while the other takes its fingerprint; `FewAsked` keeps them together only for
  that: while both are at work they ask for the same period, one takes its
  fingerprint and the other builds, nothing is kept yet, and at most two writes
  are stamped. The theorem has no such bound.
* Payables: an advance of 2 or 3 against totals of 6 at a rate of 50 is less than,
  or as much as, what an invoice may draw; two payments of 3 cover what one does
  not; a rebate of 4 leaves a remainder below the smallest payable amount.
  `MaxRequests = 4` is the advance, the invoice, its settlement, and one that races.
* Documents: two writes after each of five stages reach every pair (a write that
  makes a relation and one that changes its other end), with a timestamp between.
  Three sales and `ColdCap = 1`: a device without any gets the newest, one that
  waits to be collected, and never the third.
* Catalogue, Access, Tenancy: `MaxRequests = 3` is one that prepares and two that
  race. Lives of two ticks let a cached entry be half spent when it is stored
  again. `Horizon = 3` is a month, its grace, and one tick beyond.
* Receiving: an order of 2 with deliveries of 1 and 2 is delivered in part, in
  full and beyond. Two of each document let one be billed, cancelled and billed
  again by the other, and two returns share an invoice. `MaxRequests = 6` is
  the longest way there is to a second round: receive, bill, settle, return,
  cancel, and one that races; sales count. Documents of one kind and requests
  are interchangeable, so symmetry is sound.

`CHECK_DEADLOCK FALSE` is set throughout: with all sales rung up, or at a bound,
a system of this kind rightly has nothing to do.

## Fairness

`ReplayWrites`, for `EventuallyAnswered`: the till retries a write it has queued until it is answered
(weak fairness of a retry), the server carries a request on and stores what it
started to store (weak), time passes (strong, as in the calm regime the clock
waits for requests to end), and of the answers to one key not all are lost
(strong fairness of an answer that is final: a lost reply is possible each
time, not for ever). The property speaks of behaviours that pause
(`Pauses`): again and again no request is under way, so that the clock, which
waits for requests in the calm regime, can go on. `PointsRaces`: the job wakes every night (weak fairness of
`Wake`; node-cron fires daily), and a run is not killed in the middle each night
(strong fairness of `ReadPage` and `ExpirePage`). `HeldRaces`: the job that
shuts subscriptions runs every night (weak fairness of `Expire`), and what
`setImmediate` scheduled is run to its end (weak fairness of the steps of a
check; `MilestoneIssued` excepts a restart, which the code does not survive
either). The other modules
promise nothing that must happen, so nothing is assumed of their requests. Liveness is model-checked only.

## What is proved

TLAPS checks these for all values of the constants that satisfy the modules'
assumptions; each module's `ASSUME`s are evaluated by its runs.

* `SaleLifecycleProofs`: types (`TypeCorrect`); reversals are backed by
  completions (`RestorationsAreBacked`); the paid amount is backed by rows
  (`CreditIsBacked`); a sale paid at the counter is restored once
  (`CounterRestoredOnce`) and loses no more points than it earned
  (`CounterClawbacksEarned`); and `MoneyIsFollowed`: a sale that was reversed
  takes no more money, earns once, and is paid when its payments, which did not
  race, say so. The invariant `IInv` is needed because an
  open transaction carries an old row: `SnapshotBacked` says that a snapshot
  claims no more than the tables do, `EarnsBacked` ties the flags to the
  credits, and `CounterClosed` says that no payment or collection is ever open
  on a counter sale, whose status therefore never becomes Completed again.
  The reports are proved over the same steps, as `ReportsWatch` says that beside
  them the sales live as `SaleLifecycle` has it: `CacheStaysCurrent`,
  `SessionsAddUp` and both together, `ReportsAreTrue`. `SessionsInv` is needed
  for the second: every sale is rung up in a session and, once paid in full, was
  completed in one, and a snapshot that says it is paid is of such a sale, which
  takes `LedgerInv`; payments of a sale are numbered apart. Each figure of the
  outlet then `Splits` over the sessions. `CacheInv` is needed for the first: no
  row is stamped after the latest commit; on days not excepted a write raises the
  mark of each period whose report it changes (`WroteTells`), so that marks only
  rise (`MarksRise`), what was read after a fingerprint stands for as long as the
  fingerprint does (`ReadStands`), and a request whose fingerprint may yet match
  an entry has been told each part of it since it asked (`PartsTold`) and, if
  nothing was stored meanwhile, all of it at once (`WholeTold`).
* `WriteReplay` (in `PointsLedgerProofs`): `GuardedRecordedOnce` and `AnswersAreTrue` in every
  regime; `ImplementsRecordedOnce`, by the refinement mapping that forgets all
  but the database and the till (each step is a `Record`, a `Tell` or a
  stutter); `PlainAppliedOnce` and `RejectionsHold` in the calm regime,
  assuming `Window <= Retention`. `SerialInv` strengthens the last two: a key
  has one request at a time, which runs only what is neither applied nor on
  record, and a plain write that is applied is on record, about to be, or too
  old to be replayed.
* `StockLedgerProofs`: `LedgerTyped`; `MovementsAccount`, the movements of a
  location add up to its balance in `Ordered` traffic, a drain included;
  `StockIsAccounted`, over all locations the stock is what came in less the sales
  that stand; both together `StockIsExplained`; and `RetailNeverShort`. The
  invariant says of every plan that a relative or version-checked write adds
  exactly its movement to the row: that the version in the WHERE still matches
  implies the balance read is the balance there. A drain moves what it takes:
  its sum over the warehouses is what the outlet gains.
* `SumLemmas`: that sums over rows (`Sum`) and over finite sets (`SumOver`) are
  additive, monotone and change with one row by its difference, and `SumTaken`:
  taking n from rows in order gives n or all there is. Each is an induction over
  a recursive function, done by the least counterexample (`LeastNat`,
  `SubsetInduction`), as no installed prover can instantiate the library's
  induction theorems. That is why `Sums` defines sums anew: of the folds of the
  community modules nothing could be proved.
* `PointsLedgerProofs`: `TypeCorrect`, `BatchesAccount`, `HistoryAccounts`,
  `NeverBelow`, `ReversedOnce`, `SnapshotsStayCurrent` and `SoonestDrawnFirst`.
  The invariant has a part that holds whatever overlaps (types, plans that are
  sound in themselves, sales in step with their batches, `logged <= points`) and
  a part for while no two drawing requests have overlapped: their draws are
  apart, the page of the job is current, every plan takes exactly what it
  charges, and the balance is what the batches hold. The sums close the
  argument: a commit that takes what it planned lowers `Held` by the plan's
  delta.
* `HeldValueProofs`: `TypeCorrect`, `QuotaIsConserved`, `VouchersSpentOnce`,
  `PastStays` and `CancelledStaysCancelled`. A quota is safe because a plan fits
  (`FitsRow`): as long as the version it read stands, what it takes is there,
  since takings move the version on and restorations only add; and a plan that
  would leave nothing writes EXPIRED. A voucher is safe because it and the
  standing sale it pays for name each other (`Backed`), and a reversal under way
  carries the voucher of its sale (`Aimed`). A cancelled subscription is safe
  while it has one request at a time (`Alone`), which read it as it is.
  `QuotaIsExplained`: uses that are left can be used (`UsableInv`: a plan that is
  alone on its subscription still reads it as it is, so that what it leaves and
  the status it writes agree), and the usage rows add up to what was taken
  (`UsageInv`: a row stands while its sale does, and a reversal carries it).
  `MilestonesStayWithin`: one check at a time counts what there is, and the slot
  it fills is worth no more than the most that was ever spent (`MilestoneInv`).
* `ReceivingProofs`: `TypeCorrect`, `DeliveryClaimed`, `BalanceCovered`,
  `OrderLeavesNone` and `LinkedToLive`. Every request is first classified as a
  begin, an opening or a commit (`RequestSteps`), and each invariant is then
  carried through the three. `LinkInv` adds to `LinksLive` what the cancellation
  of an invoice under way carries: where it found nothing to release there is
  still nothing when it commits, because only its creation links to an invoice.
  `OrphanInv` says that as long as requests do not overlap, what one has
  checked before its transaction still stands. `Fits` types the plans by their
  operation. `StockIsExplained`: the movements of the outlet are the sum over the
  deliveries and the returns that took effect, each as often as it was not undone
  (`GoodsInv`: a document's part in the sum changes only with its own commit).
  `ReturnsStayWithin`: a return takes no more of a line than was delivered and
  not returned, as the creation of returns waits for the lock of the counter
  (`ReturnInv`).
* `AccessProofs`: `AccessTyped`; `GrantsStayBacked` and `CachesStayExact`,
  together `GrantsAreSound`; `DevicesStayAllocated` and `TerminalsSettle`,
  together `DevicesAreSound`; `DeletedSignedOut`; `RemovalIsSilent`: what a removal
leaves when all it asked for succeeded, with the outlets read or not. Requests are
  classified by what they write (`RoleRequest`, `CheckRequest`, ...), and `Frame`
  says of each kind what it leaves alone, so that each invariant is argued for
  the one or two kinds that can disturb it. `GrantsInv`: every permission of an
  entry with l ticks left, or of a resolve of that age, was carried by a role of
  the user, or was taken away no longer ago than `PermTTL - l`. `CacheInv`: a
  request that is alone (`AloneInv`) either finds the caches true or is between
  its write and its invalidation. `DeviceInv`: active and allocated differ only
  between the two statements of a registration or a release. `SiteInv`: by the
  pigeonhole principle (`LowestFreeIs`) a number past the last is picked only
  when every device has one. `LoginInv`: a request that began after the deletion
  of its login is a refresh that has not looked at the login yet. `TopicInv`: a
  device listens to nothing but the possible topics of those it was told for.

* `PayablesProofs`: `InvoicesFollowSettlements`, `AdvancesAreSound` and
  `PaymentsAreSound`. The invariant `IInv` has four parts. `TypeInv` has the
  types, that a row in the ledger names an order and that an invoice names a
  settlement that is there. `PlansInv` says of a request what its checks
  established: what follows from its plan alone (`Fits`), and what of the rows
  nobody can undo (`Steady`: a settlement that is live stays, its ledger only
  grows, its bill changes only by an edit). `Backed`: a settlement claims no more
  than its ledger holds. These hold whatever overlaps; `Calm` is for requests that
  do not: the one under way has read what the rows still say (`Current`), and the
  books add up (`Accounts`: an order's advance is the sum of its ledger, what is
  drawn the sum over its invoices, and an invoice is paid as its settlement is).
  A commit then changes one summand of each sum by what it changes the total.
  That no step clears a rate or calls an uncovered settlement PAID is shown commit
  by commit (`Committed`).
* `Tenancy` (in `HeldValueProofs`): all five of its properties. As in `Access`
  requests are classified by what they write, and frame lemmas say what each kind
  leaves alone.
  `TrialsEnd`, whatever overlaps: `OutletsInv` says that nothing but Pro is on a
  trial (`Rows`), that no two requests are adding one outlet (`Apart`), and of each
  request what of the outlet it is at cannot change any more (`OutletOf`: a
  change of plan finds on a trial only what it read so).
  `MonthsAreGranted`, whatever overlaps: a number that is still free in its month
  says that nobody has paid since it was read, so that what the payment read is
  not behind what stands (`MonthsInv`).
  `NothingIsLost`: without overlap one request is under way at a time (`Serial`),
  and what it looked at is so until it writes (`KeptInv`): the warehouse that stock
  arrives in is live, the one that is closed has none, and an outlet that is
  closed is not the last.
  `DatabasesStayPaired`: `PairedInv` says how far apart the databases are at each
  step of the one request under way, by outlets (`Shops`), warehouses (`Depots`)
  and logins (`Accounts`). While a tenant signs up the rows come in the order of
  `createTenant`: `FoundedInv` says which are there at each stage (`FoundedAt`),
  that the global database has the tenant's rows or none (`Signed`), and that what
  was undone left at most a user (`Left`).
  `ChargedStaysRight`: the screens agree (`ScreensStand`) in every typed state,
  by sums over the outlets compared term by term: what each screen takes off an
  outlet (`Bears`, `Reckons`, `OffOne`) is the same in the cases it names, and never
  less on the summary than on the dashboard. That the bills and the prices are right is `BooksInv`, what the one
  request under way still owes the books: which outlets a change of plan has moved
  (`OnePlan`), the warehouses it knows (`Housed`), the login it has added or removed
  and not counted (`Seated`), the price it has logged and not written (`Priced`).
  Before a sign-up is over nothing is billed or priced (`FreshInv`).
* `Catalogue` (in `StockLedgerProofs`): all four of its properties, `RowsKeep`,
  `LinksKeep`, `CodesKeep` and `ItemsTell`. `ItemsInv` has three parts. `ItemsTyped`
  holds whatever overlaps: the types, and of every request under way that it is one
  a handler takes and that what it checked is so in what it saw (`JobsInv`).
  `Turns`: of requests that take turns one is under way besides checkouts, and what
  it saw still stands but for the stock rows that checkouts write. `ItemsSound`: the
  catalogue is as promised (`CatalogueSound`), which is `RowsRight`, `SourcesRight`,
  `RecipesRight`, `CodesRight` and, to make these inductive, `Latent`: an item that
  is yet to come has no live variants, or its creation could bring a second bearer
  of a code; and only live variants have a stock row, or one that is added could get
  a second. Of recipes `RecipesRight` speaks of the lines that were not sent `astray`:
  such a line is of a supply, so that the cascade of its unit reaches it and its
  removal takes it out, and `AstrayAfter` says that only a recipe sent anew changes
  which lines these are. Each of the six effects of a request is described once
  (`EditedAs`, `CreatedAs`, `Gone`, ...) and shown to keep each part; a checkout
  disturbs the rows alone. `ItemsTell` compares what the feed shows of an item
  before and after each effect.

The properties of the runs are often conjunctions; `NeverPaidTwice`,
`ShutStaysShut`, `BooksStayTrue`, `StockIsExplained`, `LinksStaySound`,
`RestoredAsSold`, `AnswersStayTrue`, `GrantsAreSound` and `DevicesAreSound` put
their parts together.

Model-checked only:

* liveness (`EventuallyAnswered`, `EventuallyExpired`, `JobsDone`): out of the
  prover's reach, like ENABLED and inductions over data for every input;
* of the stock ledger `ReceiptsWithinBalance` and `LayersInOrder`: which layers a
  draw takes is computed by `SelectSeq` and a sorted sequence of a set, of which
  the library proves nothing;
* all of `Documents`: a list or a feed is a formula over every kind
  of row, and each of the writes disturbs most of them.

The assumptions on the constants say that they are sets and numbers of their kind,
and four things more. A percentage taken off is at most 100, without which a price
would be negative. A duty of `Tenancy` with a sign-up has nothing else: nobody
administers a tenant before its sign-up has answered; without this an undone and
repeated sign-up would use its first outlet anew under a payment or a change of
plan. `PlainAppliedOnce`, `RejectionsHold` and `AnswersStayTrue` assume
`Window <= Retention`, as the code's constants have it. A catalogue starts as one
that requests in turn have made (`OriginsAssumption`); what is promised of it later
is promised while its requests take turns, whatever checkouts overlap with them.

## What the models show of the code

Beside the finding (the run that fails), these are consequences of the code as
written that a reader of the models will meet. They are behaviours, not
properties of a run; the properties except them by name.

**Sales, stock, replay, held value**

* A retry of a plain write that overtakes its first attempt finds no record and
  runs the handler again, although `idempotency-middleware.ts:26` says otherwise;
  only CLIENT_REF stands behind checkouts and payments.
* Two overlapping calls of `redeemPoints` overdraw the account, although
  `loyalty.service.ts:592` says "Lock the account row": the read locks nothing.
* The location engine writes an absolute balance (`location-stock-engine.ts:283`)
  and so loses a sale that commits in between, against
  `STOCK_MODULE_DOCUMENTATION.md:754` and `:824`.
* `confirmDeliveryBatch` (`sales.service.ts:3904`) updates by id: a void that
  commits between its check and its write ends as Delivered, its stock and
  points restored.
* A debt delivery is Delivered only once it is paid on the way; one that is paid
  after delivery becomes Completed (`sales.service.ts:3049`) and can be voided.
* `collect` writes Completed over Delivered and over the reversals
  (`sales.service.ts:1583`), and takes "fully paid" from a row it read before.
* The expiry job passes over one due row per page after the first; the next
  night finds it (`EventuallyExpired`).
* Reversing the sale that used up a package sets it ACTIVE again without
  a look at the others (`sales.service.ts:1124`), so a customer who bought the
  package anew has two live ones, which `subscribeCustomer` forbids.
* A recorded use whose version moved on takes no quota, but leaves a usage row
  and the status it planned (`subscription-package.service.ts:718`; the comment
  at `sales.service.ts:742` says why). The reversal of its sale then gives back
  what was never taken: `QuotaConserved` holds, as used goes down with it.
* A reversal that read a subscription EXPIRED sets a cancellation that commits
  in between back to ACTIVE; likewise one past its end, if the end falls between.
* A laundry order that is reversed, reopened and reversed again gives a use back
  twice: its usage row is deleted, and without one the code restores 1.
* `recordUsage` writes EXPIRED in a transaction that it then aborts
  (`subscription-package.service.ts:692`): only the job shuts it.
* A subscription bought adds to the spend but schedules no milestone check; the
  next sale's check finds it.
* A redemption that commits between the job's read and its transaction is
  charged twice; the clamp at zero then hides the difference
  (`NeverBelowHistory` is the direction that survives).

* Two payments that read the same open balance both settle it, and the later
  write drops the earlier from `paidAmount` (`sales.service.ts:3033`;
  `PaymentsSettled` excepts them). Two milestone checks that overlap both count
  the slot free and both insert (`voucher.service.ts:467`, `MilestonesWithin`).
* A delivery that was cancelled and is updated with another status is Received
  again, without its stock (`delivery-order.service.ts:1322`), and can be
  cancelled a second time, which takes the stock out again (`StockExplained`
  speaks of documents that were undone as often as they say).
* `createMany` of a delivery counts cancelled ones towards the order's status
  (`delivery-order.service.ts:1429`), the recomputation after an update does
  not; deleting a delivery follows neither in stock nor in status.
* An invoice that was settled when its cancellation began stays Paid and loses
  its deliveries all the same (`invoice.service.ts:1285`, `1309`): they can be
  billed again, and what it bills can no longer be returned.
* Two invoices entered at once may bill the same delivery; the later has the
  link (`invoice.service.ts:1089`).
* A return larger than the layer it draws on deletes the layer with what is in
  it, and its cancellation revives it with the whole quantity returned
  (`purchase-return.service.ts:1101`): the layer then holds more than it did.

* `deletePurchaseReturn` puts stock back after a check made before, by id, so
  that a return cancelled and deleted at once is put back twice, against
  `STOCK_MODULE_DOCUMENTATION.md:790`.

**Payables**

* A rate of 0 sent with an edit of an order leaves its advance without use.
* `editDownPayment` and `deleteDownPayment` write a total computed from a read
  before the transaction, although `purchase-order.service.ts:1207` says
  "recomputed from the ledger"; two at once lose one.
* Two invoices entered at once may draw the same part of an advance. An invoice
  moved to another order and then cancelled gives its draw back to the wrong
  one. One deleted twice gives it back twice, although the comment at
  `invoice.service.ts:1530` says it cannot.
* `addPayment` of a settlement writes an absolute amount: two at once lose one
  in the row, not in the ledger. A third, begun before either committed, may then
  lower the row, so that a later write-off is capped by a remainder that is not
  there (`PaidCovers` excepts the cap when requests raced). It does not look at the write-off: a payment
  on a settlement closed by one makes it PARTIAL while its invoices stay Paid.
  `markSettlementAsPaid` reads outside its transaction, although `money.ts:66`
  says inside.

**Documents**

* Not sent again: an order or quotation that lost a child (a delivery or invoice
  moved to another, an edit that drops the quotation); a settlement when the
  deliveries and orders of its invoices change; a return when its invoice's
  number or total does.
* Every feed takes `serverTimestamp` after its query, so that a write in between,
  or one stamped before and committed after, reaches the device only with its
  next change.
* The detail of a settlement counts cancelled returns, its list does not;
  `settledInvoiceCount` of an order's list counts settlements, its detail
  invoices.
* The lists of orders, deliveries, invoices and returns page without an order,
  which `INVOICE_DATE_RANGE_SYNC_PLAN.md` warns of ("records can be skipped or
  duplicated across pages").
* Editing or cancelling a delivery of a CANCELLED order reopens the order. An
  update of a quotation to CANCELLED cancels its orders, `cancel` does not.
  A new invoice may take deliveries linked to one that is cancelled and live.

**Reports**

* A payment of the period on a sale of another day counts while that sale does.
  Removing the sale, or a collection or payment that revives a voided one, writes
  the sale's row alone: the fingerprint of the period does not move and its
  cached payment breakdown is served as it was, although
  `report.service.ts:1135` calls the fingerprint "a complete change detector" and
  `:2389` says it "never serves stale" (`strayed`).
* An expense entered while a report is built, and moved to another day before
  the report is asked for again, leaves the fingerprint as it was before the
  build, and the report, which has the expense, is served (`strayed`).
* A stamp that does not rise hides a write: one stamped before and committed
  after another, two in one millisecond, and the cost restatement, which sets
  `UPDATED_AT = NOW()` in whole seconds (`sales-cost-restatement.ts:80`). The
  restated sale may miss a device's feed for the same reason. Recipes and the
  kinds of services, on which laundry profit rests, are in no fingerprint.
* A report built while writes commit can be torn: its totals are aggregates, its
  profits come from a later list. If it is stored while another request is
  taking its own fingerprint, that request may have read the same one and, as it
  looks for an entry only then (`report.service.ts:1400`), be served the torn
  report: each part was true since it asked, but not all at one moment (`amid`).
  The next request finds another fingerprint and builds anew.
* Voids are totalled though removed, their details are not; rankings, items sold
  and the laundry section of a session's report count removed sales, those of
  the outlet's and the shift's do not.
* A payment that names no session completes a sale in the revenue of none.
* `update` starts its item writes in a `forEach(async)` that nothing awaits.
  `getAll` sends no removed sale, so a device never hears of a removal.

**Catalogue**

* Turning tracking on for an item with variants without naming one leaves all of
  them, and the item, without a stock row; a variant added in the same request has
  none; an item that later loses its last variant has no row of its own. A
  checkout then says "Stock balance not found" (`bare`).
* A checkout that read the switch before it was turned off decrements a dead row,
  or opens a live negative one for a supply (`opened`).
* Removing the preferred supplier leaves no preferred one and the item naming
  the one removed, although the schema says exactly one is preferred and equal to
  it (`dropped`); an empty list sent with another supplier makes the two differ
  (`strayed`). Two removals at once can leave an item no source.
* Removed suppliers never reach a device (`getAllSuppliers` filters them),
  although the comment in `supplier.remove` says that the stamp is set for that;
  likewise customers, categories and users.
* Removing an item leaves its variants live and their barcodes taken; removing a
  supply does not stamp its services; an item retired by an update keeps its
  recipe lines, receipts and links (`retired`).
* Uniqueness of codes and the cap on items are checked by plain reads: two
  creations at once pass both.

* The lines of a recipe are stored unchecked (`item.service.ts:1131`, `1303`): they may
  name what is no supply or was removed, and tell a unit it does not have
  (`c.unit || "Milliliter"`). The cascade of a unit mends those of live supplies
  only when it changes (`astray`).

**Access**

* A removal whose unsubscriptions fail goes on (`device.controller.ts:570`) and answers
  that the user "will no longer receive notifications on this device" (`:589`). The
  device keeps its topics at the push service. When only the
  outlets could not be read, topics of other outlets than the first stay
  (`RemovalSilences`).
* A resolve that began before a role change stores the old set after it; the
  grant lasts as long as the cache promises and no longer (`GrantsBacked`).
  `updateRole` is not a transaction: cut off, it leaves a role without
  permissions.
* A registration beside a release leaves a device active without allocation,
  which nothing mends; one inactive and allocated makes the next registration fail.
  A device removed is subscribed again by the next sync of roles, and one
  handed to another user may keep the topics of the earlier.
* `refreshToken` revokes the old token (`auth.service.ts:110`) before it reads
  the plan: a failure there leaves the client with none, although `:295` says it
  keeps its last good one. A deletion of a login that fails beside another
  restores it.
* `getUserTopics` and others disconnect the client that all requests of the
  tenant share.

**Tenancy**

* A sign-up whose tenant step failed after the user row cannot be repeated under
  that name, and an orphan user blocks its own. Overlapping deletions of a login
  may restore it.
* Adding or closing an outlet does not count the extra users again; an upgrade
  that brings the main warehouse back beside another does not bill it (`stale`).
  A live MAIN_WAREHOUSE, or an upgrade that failed half-way, blocks every later
  upgrade.
* The tenant's transaction of a downgrade commits although the global one then
  fails: the warehouses are drained and the plan stays. A loop of outlets that
  fails leaves them on different plans. Two deletions of outlets at once remove
  the last one.
* Two payments across the end of a month both extend from the same date
  (`rolled`). `recordPayment` takes one for a closed outlet and makes it Active.
* Fixed discounts are priced in three ways; a percentage that is not of the plan
  is taken off it by two screens; upcoming payments know no discount
  (`ScreensAgree` says where they coincide).

**Elsewhere** (in no model)

* `createSession` looks for an open session and then creates one; no index stands
  behind what its comment calls protection against double taps.

## Plan

What is left, in the order of what a mistake would cost.

1. Proofs: `ReceiptsWithinBalance` and `LayersInOrder`, once the draws are written
   as recursive functions; the lists and feeds of `Documents`, one kind of row at a
   time.
2. Compositions: a checkout and its reversal over sale, stock and points, each
   refined by its module; a voucher as a token that is held, spent and given
   back, which `HeldValue` implements while no order is reopened.
3. Warehouse destinations and several lines in `Receiving`, whose balance and
   layers then are those of the stock ledger; tiers and totals in `PointsLedger`.
4. The small feeds (customers, categories, suppliers, menu) beside `Catalogue`;
   sessions beside `SaleReports`.
5. Pure rules (`pickBestDiscount`, `calcPointsEarned`, line shares) against
   reference definitions over bounded inputs.

Runs are kept few: a module takes one passing run, and a failing one only where
the code contradicts what it says of itself and no property already excepts it.

## Not modelled

* Single-row CRUD: warehouses, customers, categories, menu, outlets' settings,
  accounts, versions. A request reads and writes one row and no other depends on
  what it read.
* Document numbers: the row lock that makes creations wait is in `Receiving`;
  the number itself is shown and nothing else.
* Sessions: opening is a read and a create, closing one write of what the client
  counted; no handler looks at whether a session is open.
* The tenant clients: a client holds no rows, and a statement on one that was
  disconnected is a request that fails, which the models have.
* Live notifications: hints in one process's memory that a feed has news; the
  feeds and the topics are modelled.
* Public pages, demo data, scripts, generated clients, start-up, message
  formatting, hashing: no protocol between requests, or external.

`PROJECT.json` names each with its reason.
