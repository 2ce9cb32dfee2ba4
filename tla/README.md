# Verification of roastd.id

TLA+ models of the state machines behind roastd.id, a multi-tenant back office
and storefront for coffee roasteries (Next.js, Prisma, PostgreSQL), with the
TLC runs that check them on small instances and the proofs TLAPS checks for
every instance. Paths are relative to `src/`.

| module | what it is |
|---|---|
| `Posting` | the customer side of the general ledger, seen from one invoice |
| `SalesOrder` | orders, reservations, shortages, payments, hand-over, returns, voids, expiry cron, payment webhook |
| `MCSalesOrder` | symmetry sets for its runs |
| `SalesOrderProofs` | types and stock invariants of `SalesOrder`, proved |
| `SalesOrderMoneyProofs` | payments, totals and journals of `SalesOrder`, proved |
| `SalesOrderSerialProofs` | what holds of `SalesOrder` while calls do not overlap, proved |
| `StockPromise` | abstract specification: a shelf that promises no unit twice |
| `RunOnce` | abstract specification: one run of a key counts |
| `JobRunner`, `MCJobRunner` | `runTrackedJob`, claim, lease and settlement |
| `JobRunnerProofs` | `JobRunner` implements `RunOnce`, and the lease theorem |
| `WebhookInbox` | `claimWebhookEvent` and its callers' frame |
| `SubscriptionBilling`, `MCSubscriptionBilling` | a tenant's subscription, on top of the inbox |
| `SubscriptionBillingProofs` | types and all properties of `SubscriptionBilling`, proved |
| `Quantity`, `QuantityProofs` | sums of quantities, and the lemmas about them |
| `Warehouse`, `MCWarehouse` | lots, placements, roasts, grinding and production, counts, corrections and voids |
| `WarehouseProofs` | all properties of `Warehouse`, proved |
| `Purchasing`, `MCPurchasing` | purchase orders, purchases, supplier payments, voids and their journals |
| `PurchasingProofs` | all properties of `Purchasing`, proved |

## 1. Inventory

The state is in PostgreSQL. Server actions, API routes and cron routes run
concurrently, in any number of processes, and meet only in the database. Most
money and stock handlers are Serializable transactions inside
`runSerializableTransactionWithRetry` (`src/lib/transaction-retry.ts`); the
others run at READ COMMITTED, and those are where interleavings bite.

| component | state | operations | meets | correct when |
|---|---|---|---|---|
| Stock reservation (`src/lib/storefront-commerce.ts`) | `stock_reservations`, `fulfillment_tasks`, `products.stockUnit`, `inventory_ledger` | reserve, walk-in sale, hand-over, release, allocate production | orders, production, cron, webhook | no unit is promised or sold twice, none is dropped between reservation and shortage |
| Orders and returns (`penjualan/actions.ts`) | `invoices` with status, fulfillment, paid and returned amounts | create, void, change shipping and fulfillment, credit note | reservation, ledger | goods leave once; a void order has everything back and stays void |
| Payments (`keuangan/actions.ts`) | `payments`, `invoices.paidAmount` | record, void | submissions, webhook, ledger | the amount paid is the sum of the live payments, within the total |
| Payment proofs (`api/tenant/[subdomain]/payments`, `penjualan/pembayaran`) | `payment_submissions` | upload, verify, reject, expire | payments, cron | a proof is paid out once; no money on a void order |
| Storefront checkout and Midtrans webhook | order with its reservation; notification | checkout; settle, fail, ignore | inbox, orders | repeated or late notifications change nothing twice |
| Expiry cron (`src/lib/payment-submission-expiry.ts`) | none of its own, a list of candidates | pick, expire order, expire submission | all of the above | overdue orders give their stock back |
| General ledger (`src/lib/posting.ts`) | `journal_entries` and lines | post by reference, mirror on void | every money handler | accounts agree with documents |
| Inventory ledger and lots (`src/lib/stock.ts`, `src/lib/lot*.ts`) | lots, placements, cached stock, average cost | FEFO out, receive, transfer, count | sales, roasting, production, purchasing | cached stock = sum of rows ≥ 0; a lot is what its documents say |
| Roast lifecycle (`src/lib/roast-lifecycle.ts`) | roast batches, material reservations, WIP lots | reserve, charge, complete, cancel, abort | inventory ledger | what was charged is in ROASTING-WIP until the roast ends; a void leaves nothing |
| Production (`produksi/actions.ts`) | batches, bill of materials | create, void | inventory ledger, shortages | what went in comes back on void, finished stock to the oldest shortage |
| Purchasing (`src/lib/po-lite.ts`, `purchase-*.ts`) | orders, receipts, payables | order, receive, pay, void | ledger, lots | payable = received − paid; an order is what was received for it |
| Tracked jobs (`src/lib/job-runner.ts`) | `job_runs`, one row per run key | claim, settle, fail | all cron routes | one run of a key counts |
| Webhook inbox (`src/lib/webhook-inbox.ts`) | `webhook_events`, one row per event | claim, reclaim; the caller marks | both Midtrans routes | an event is handled, and its effect happens once |
| Subscriptions (`api/billing`, `api/webhooks/superadmin-midtrans`, `src/lib/subscription*.ts`) | `subscription_payments`, the tenant's tier, status and dates | checkout, notification, daily cron, superadmin | inbox, tracked jobs | one payment, one month; who has paid is let in |
| Offline outbox (`src/lib/kasir`) | browser storage | queue, replay | createInvoice | replayed at most once |
| Sessions, rate limits, notifications, shipping quotes, themes, reports, importers, UI | | | | `PROJECT.json` says why each is left out |

What is hard: two clerks at one order; reads before a transaction used inside
it; the cron, the cashier, the customer and the webhook ending the same order;
notifications repeated, late or out of order; handlers that die, or are slow
and are taken for dead; stock promised to several orders; beans that lie in one
place, are charged in another and counted in a third; batches voided in the
wrong order. `PROJECT.json` lists
these hazards with their lines and properties.

## 2. Plan

1. `Posting`, `SalesOrder`: the core, done. Everything a customer order can
   meet is in one module because its handlers share rows.
2. `JobRunner` with `RunOnce`: done.
3. `WebhookInbox`, `SubscriptionBilling`: done.
4. `Warehouse` with `Quantity`: lots, placements, roasts, grinding, counts and
   voids in one module, because all of them write the same ledger and the same
   placements. Done.
5. `Purchasing`: orders, receipts, payables, supplier payments, void. Done.
6. `TenantWebhook`: `WebhookInbox` composed with an order that is settled or
   failed, including `PermanentWebhookError`; today `SalesOrder` keeps only the
   gap between the amount check and the transaction.
7. `StockPromise`: an abstract shelf (units on hand, units promised), which
   `SalesOrder!SerialSpec` implements. Done.
8. The offline outbox with `operationKey` against `createInvoice`.
9. Moving average cost and the journals that follow it.

Proofs to come: those of the modules still to be written (6, 8, 9), and an
abstract ledger for `Warehouse`, in which a void undoes what its document did
and nothing else.

## 3. Sales orders

**State.** One product, so `stock` is one number. `inv`, `resv`, `task`, `sub`,
`ledger` and `books` are functions of the order, one row each; `pay` is a
sequence of payments; `demand` keeps the order in which tasks were created, for
the oldest-first allocation. `clerk`, `picked`, `accepted` and `uploads` hold
what a running handler has read and not yet used.

**Actions and code.** Every action is one transaction: `CreateInvoice`,
`VoidInvoice`, `CreateCreditNote` and the shipping update
(`penjualan/actions.ts`), `WalkInSale` and `Produce` with `IsFifoAllocation`
(`storefront-commerce.ts`), `RecordPayment`, `VoidPayment`
(`keuangan/actions.ts`), `Checkout`, `ReadSubmission`/`WriteProof`/
`SubmitProofLate` (upload), `VerifySubmission`, `RejectSubmission`,
`WebhookAccept` then `WebhookSettlement`/`WebhookFailure`/`WebhookIgnored`,
`PickExpiredOrders` then `ExpireOrder`, `ExpireSubmission`. `OtherOut` stands
for samples, experiments and adjustments. `ReservationDeadline` and
`SubmissionDeadline` are the passing of time.

Serializable transactions are atomic: PostgreSQL refuses one that read what
another changed, and the retry starts from scratch or gives up. Split are
`updateInvoiceShipping` (a read outside, then a READ COMMITTED transaction with
further reads and writes: `ReadForShipping`, `HandoverReads`,
`HandoverWrites`, `WriteShipping`, `ShippingFails`), the proof upload, the
cron's choice of candidates and the webhook's amount check. The reads inside
`fulfillInvoiceAtHandover` are one step; its writes are one step too because
the first locks the product's row until the commit.

**Two specifications.** `Spec` lets everything interleave. `SerialSpec` starts a
call only when no other is under way; what holds there and not under `Spec`
depends on two users not meeting. `OrderSerial` states four such properties, and
`FindingDoubleHandover` shows the first of them broken under `Spec`.

**What the shelf promises.** `StockPromise` knows two things: the units on hand
and the units promised to each order. Unpromised units are promised to an order
(`Reserve`) or sold at once (`Sell`); an order gets all that it was promised and
nothing else (`HandOver`) or gives it up (`CallOff`); units come in and may be
promised on the way (`Supply`). `ShelfKeepsPromises` says that each transaction
of `SalesOrder` is one of these steps or none: `goods` is `stock + otherOut`,
since adjustments and samples may take promised units, and `promise` is the
quantity of the ACTIVE reservation. Checkout and `createInvoice` reserve, the
counter sale sells, `HandoverWrites` hands over, voids and expiry call off,
production, returns and reversals supply. It says more than
`PromisedStockOnHand`: goods of one order that leave out of the units promised
to another may leave every sum right.

**Abstractions.** Price 1, one line, no tax, discount or withholding; a total is
quantity plus shipping. Only unit-based products. `IN_PROGRESS` tasks are
`OPEN`. Only the latest submission of an order is kept. The declared amount of a
proof is not compared with anything the model keeps. DRAFT invoices
(`approveInvoiceForMidtrans`), air waybills and tracking numbers are left out.
`UpsertKeyInSchema = TRUE` in the passing runs lets production fill shortages
the way the code intends; with FALSE, what the schema gives, those steps are
disabled, so every behaviour of the real schema is still a behaviour of the
model.

## 4. Tracked jobs

Every statement of `runTrackedJob` is an action of one call: `Look` (26–33),
`Stamp` (35–38), `Insert` (`createMany` with `skipDuplicates`), `Claim`
(`buildClaimableWhere`), `Settle`, `Fail`. A call is its own claim token. Time
passes by `Tick`, so a call may be slow anywhere, and dies anywhere (`Die`). A
settlement may commit and its reply be lost (`Settle(c, FALSE)`), after which
the catch block runs. Clocks of the callers are taken to be synchronised; the
clean-up of rows older than 90 days is left out, since run keys carry a date.

The code does not promise that runs never overlap: a claim is written with a
clock read earlier, so a lease may have run out when it starts.
`OverlapOnlyAfterLease` is exactly what the lease gives. Nor is `SUCCEEDED`
final as such: when the reply is lost, the catch block writes FAILED over it
(`job-runner.ts:96`) and the job runs again. No caller was told of the first
run then, and `WonRunIsFinal` says that this is the only case.

## 5. Inbox and subscriptions

`WebhookInbox` has the statements of `claimWebhookEvent` (`Stamp`, `Create`,
`Look`, `Reclaim`) and of the frame both Midtrans routes put around it (`Receive`,
`Finish`, `Throw`, `MarkFailed`, `Die`). The module that extends it says what the
transaction does. A commit whose reply is lost goes to the catch block, which
finds the row by its id and marks it FAILED whatever it has become.

`SubscriptionBilling` fills that in for `superadmin-midtrans/route.ts`:
`Notify` reads the payment with the tenant's billing date, `Process` is the
transaction. `Checkout` creates payments, `Synchronize` is each of the two
updates of the daily cron with a clock read some time before,
`UpdateTenantAdmin` and `ReadTrial`/`ExtendTrial` are the superadmin. A
notification for a payment without a row yet is answered 404 and leaves no
state. A month is `Month` ticks: `addMonthsClamped` adds one calendar month, and
no property depends on how long it is. `isActive` is not modelled.

## 6. Warehouse

**State.** Three products stand for the three stages of coffee. `stock` is
`products.stockKg`. `ins` and `outs` are the rows of `inventory_ledger`, summed
by what they are about: a lot, or a product without a lot. `drawn` has the lots
with an OUT row that reverses nothing, which is what every void looks for.
`shelf` is the order of `appendFefoLedgerOut` and `reserveRoastMaterialsInTx`
(expiry date, then arrival): a green lot may come in anywhere, output lots carry
no expiry date and go to the end. `place` has the placements in storage
locations, `wip` those in ROASTING-WIP. `taken` are the reservations of a roast;
they stay after it ends and say what went into it. A batch and its output lot
have one id, a purchase and its lot too.

**Actions and code.** `BuyGreenBeans`, `VoidPurchase`, `AdjustIn`/`AdjustOut`
(`inventory/actions.ts`, `purchase-void.ts`); `StartRoast` with `IsReservation`,
`CompleteRoast`, `AbortRoast`, `ScrapRoast`, `VoidRoast`
(`roast-lifecycle.ts`, `roasting/actions.ts`, `studio-roasting-batch.ts`);
`IssueBeans` with `IsFefoAllocation` and `IsDraw` (`stock.ts`), `VoidIssue`
(`grinding/actions.ts`, `produksi/actions.ts`); `DraftCount`, `CancelCount`,
`RemovePlacement`. These are Serializable transactions and one action each.
`placeLot`, `transferLot`, `confirmLocationOpname` and `setLotQcStatus` are not:
`Read` is what they check, `WritePlacement`, `WriteCount` and `WriteHold` what
they write later, and `GiveUp` a call that is rolled back.

The allocations are relations, not loops: `IsFefoAllocation` says which
allocations the loop of `appendFefoLedgerOut` may end with, given the shelf, and
leaves open only what the code leaves open (the order of placements of one lot).

**What the code does not promise.** FEFO looks at a lot's rows, not at where it
lies, so it may issue kilograms that are in the roaster; the roast is completed
all the same and the lot's balance turns negative. Hence `Balance` is an integer
and `PlacedStaysBacked` exempts that step. What does hold, under any
interleaving, is that the roaster has what roasts have charged
(`WipIsCharged`), that cached stock and rows agree (`StockIsLedger`) and that a
lot's rows are its documents (`LotIsDocuments`).

**Abstractions.** Kilograms are whole. Costs, journals, packaging and supply
lots, several products of one stage and inactive locations are left out. Every
lot is booked in: `createLot`, which makes a lot without rows, is not modelled.
PLANNED and RESERVED roasts never outlive the transaction that charges them.

## 7. Purchasing

**State.** `order` has status, lines and how often the lines were replaced;
`purchase` a receipt or direct purchase; `payment` the supplier payments, where
the payment made with a purchase has that purchase's id and others their
operationKey. `payable`, `spent` and `goods` are the balances of the three kinds
of accounts. `drawn` stands for what `Warehouse` does with a lot.
`overlapped` is history: orders on which two handlers ran at once.

**Actions and code.** `Buy`, `RecordSupplierPayment`, `VoidSupplierPayment` and
`VoidPurchase` are Serializable and one action each. The handlers of an order
(`src/lib/po-lite.ts`) look at it first and write by id later: `Read`, then
`WriteUpdate`, `WriteStatus` or `WriteReceipt` by what was read. Replacing the
lines leaves earlier receipts without a line (`ON DELETE SET NULL`), and a
receipt under way for a replaced line fails. Two receipts that draw the same
purchase code make one of them start again with fresh receipts but the same
order: `RetryReceipt`.

**What holds when.** `receivePO` says "Prevent over-receipt per PO line item",
and does while no two calls about one order overlap: `OrderIsReceipts`. When
they do, a line can be over-received, an order can be PARTIAL with everything
received, cancelled with receipts, or sent again after them. Three things
survive. An order closed as RECEIVED lacks nothing (`ClosedIsReceived`), unless
its lines were replaced under a receipt: also when a receipt completes one line after two others overfilled another, since
`receivePO` compares only the lines that are received now with what is left of
them (`WithinLines`). A line is received once for each caller at the most
(`OverReceiptBounded`): who looks at a full line is refused, and nobody uses
twice what it has seen, whatever is retried, sent again or replaced meanwhile.
And the books agree (`PaidIsPayments`, `BooksMatchPurchases`).

**Abstractions.** A unit costs one, shipping nothing; codes, due dates and the
tolerance of one cent are left out.

## 8. Runs

The largest run, `OrderSerial`, has 5.6 million distinct states; each run takes
at most two or three minutes with two workers. Deadlock checking is off because
each system rests when all its bounded orders, payments or calls are used up.

| run | specification and bounds | shows |
|---|---|---|
| `OrderConcurrent` | `Spec`; one order of any kind, up to 2 units, one clerk | reservation, shortage, hand-over and void stay consistent under all interleavings |
| `OrderPayments` | `Spec`; credit and Midtrans order, 2 units, 2 payments | money: paid amount, payments and journals agree |
| `OrderSerial` | `SerialSpec`; any kind, 2 payments, shipping 0 or 1 | what needs calls not to meet |
| `OrderSharedStock` | `SerialSpec`; 2 orders of up to 2 units, 2 in stock | promises of two orders against one shelf, which implements `StockPromise` |
| `OrderExpiry` | `FairSpec`; storefront orders | the liveness property |
| `Jobs` | 3 calls, lease 1, clock to 4 | lease, refinement, finality |
| `Subscriptions` | 1 payment with settlement and expiry, 2 handlers, clock to 2 | one month per payment, access, no settled payment lost |
| `WarehouseConcurrent` | `Spec`; one lot of 3 kg, one roast, one issue, one count, one caller | stock, ledger, documents and roaster agree when everything overlaps |
| `WarehouseSerial` | `SerialSpec`; 2 lots of 1 kg, 2 places, one roast, one issue, no count | void chains, placements against balances |
| `Purchasing` | `Spec`; one order of up to 2 units of 2 items, 2 users, 3 purchases (1 without the order), 1 later payment | orders, receipts, payments and books |
| `Finding…` | see section 9 | one disagreement each |

*Why the bounds are enough.* A hand-over, a void and a return of one order touch
one order's rows, so one order shows their interleavings; two units make partial
reservations, partial payments and partial returns possible. Only the shelf is
shared by orders, and two orders of two units are enough for one to take what
the other was promised. Two payments are the least for one to be void while the
other is live. Three calls of a job are the least for a claim to be passed on
through a third, while a slow first still works. Two deliveries can be two
handlers of one event, or one of each of two events; the theorems lift this to
any number. `BooksMatchDocuments` is checked with shipping fixed at 0 because a
shipping cost changed before the hand-over is booked twice (section 9).

In the warehouse, three kilograms of one lot let a roast, an issue and a count
each take a part while one remains; two lots in two places give FEFO, preferred
lots, transfers and partly placed lots something to choose. One roast and one
issue make every chain of documents the model has, since an issue may take green
or roasted beans: receipt, roast, grinding, and their voids in any order. Two
users are the least for two receipts, or a receipt and a cancellation, to
overlap; two lines are the least for an order to be partly received; three
purchases are the least for a receipt after two that together were too much,
which completes the order or would fill a line a third time. One of them may be
booked without the order, which is enough for its payments to mix with those of
receipts (`MaxDirect`). The theorems hold for any number of each.

*Fairness.* `FairSpec` is weakly fair to the cron's steps only: `README.md:116`
says it is called hourly, and `.github/workflows/operations.yml` does so; a
candidate it picked is handled before the request ends. No fairness is assumed
for customers, clerks, production, the webhook or the passing of time, and none
for jobs and subscriptions, which have no liveness property: whether a
notification that was lost is sent again is up to the provider. In the warehouse
and in purchasing nothing has to happen: a draft, a roast or an open order may
stay what it is.

## 9. Findings

Runs with `expect: violation`:

- `FindingDoubleHandover`: two clerks deliver one order, the goods leave twice.
- `FindingReturnThenVoid`: a returned order can be voided, the goods come back
  twice.

Seen while modelling, without a run of its own.

*Orders and money.* A proof verified after the hand-over is booked as an
advance, so receivable and advance both stay too high
(`penjualan/pembayaran/actions.ts:112`; `recordPayment` tells the two apart). An
overdue unpaid order that waits for production only holds no reservation and is
never a candidate of the cron (`payment-submission-expiry.ts:109`, against
`README.md:116`). The upsert that fills shortages names a unique key the schema
replaced (`storefront-commerce.ts:554`). A void during a hand-over leaves goods
out and the sale booked. A shipping cost changed before the hand-over is booked
with the sale and as an adjustment. A payment moves a packed or shipped order
back to READY_TO_PACK. A terminal failure of an order without a sale journal
always rolls back (`posting.ts` throws). A late upload expires a submission that
was already verified; the cron voids an order whose proof still awaits
verification; a settlement reopens a RETURNED order.

*Subscriptions.* Of two payments settled from the same billing date one month is
lost (`route.ts:49` read, `:129` used). A delivery answered as duplicate while
the only handler dies loses the notification unless the provider sends it again
(`webhook-inbox.ts:81`).

*Warehouse.* FEFO issues kilograms that lie in ROASTING-WIP (`stock.ts:680`
looks at rows only), after which a lot's balance can turn negative and two
charged roasts can block each other. `adjustStock` passes no `tenantId`, so its
OUT rows do not respect what roasts have committed, though the comment at
`stock.ts:231` says "must not be consumable by user-driven flows". A held lot is
left out by FEFO, but the row without a lot takes the rest from the same
product's stock. The check for downstream use counts OUT rows whose batch was
voided. Voiding a purchase leaves its placements; voiding a roast leaves its
green lots without one. A recoverable abort returns beans to a lot that was
consumed meanwhile. `placeLot` and `transferLot` can leave more placed than there
is, or a negative placement, when they overlap. What a count found on an output
lot survives the lot's void.

*Purchasing.* The overlaps of section 7; a void receipt still counts as received,
so its units cannot be ordered back in; a purchase of roasted beans cannot be
voided, because `voidPurchaseCore` does not look for `PURCHASE_RB` rows
(`purchase-void.ts:66`).

## 10. Proofs

`SalesOrderProofs`. `TypeCorrect` proves `TypeOK` for any number of orders and
clerks and any bounds. It needs `ClerkHasOrder` (a clerk's call is about an
order that exists) next to the types, together `TypeInv`; one lemma per group
of actions. `DemandAlwaysAccounted`, `SoldHoldsNothing`, `HandoverAlwaysWhole`
and `VoidFreesStock` follow from one inductive invariant,
`IInv == TypeInv /\ \A o : OrderInv(o)`. `OrderInv` relates an order's status,
reservation, task, ledger and journal, and says what may still be under way: a
hand-over that has read an active reservation may write after the order was
voided or handed over by another, and the invariant must survive that. Since it
speaks of one order at a time, each lemma shows that a group of actions keeps
it for every order, the ones it does not touch included (`Untouched`,
`StockUntouched`). `SerialRefinesSpec` proves that `SerialSpec` implements
`Spec`, so that these results hold there too.

`SalesOrderMoneyProofs`. Most actions touch an order's money, and each
invariant would meet every one of them. So `MoneySteps` first says once what a
step does to an order `w`: its rows stay (`Keeps`), or it is placed, paid, has a
payment taken back, is called off, credited or given a new shipping cost and
handed over (`MoneyStep`); the rest argues about these seven. `MInv` adds to
`IInv`, for each order, `MoneyInv`: paid is the sum of the live payments, none
is of zero, a void order has none, paid is within the total, nothing delivered
is without a sale, and before the sale the deposit is what was paid; and, for
each clerk, `ClerkSold`: a call about to set the order delivered, without
posting, finds its sale booked. `PaidAlwaysSum`, `VoidFreesMoney`, `PaidAlwaysWithin` and
`DepositAlwaysHeld` follow. `NInv` adds the identity between books and documents
and that the total a clerk has read is the order's still; that is so only while
shipping costs stay zero, which `BooksAlwaysMatch` assumes and
`OrderPayments` has as its instance.

`SalesOrderSerialProofs`. `SInv` is `MInv` with `OneCall` (while a clerk is at
work nobody else is), `Held` (what a clerk has read still holds when it writes)
and `SerialInv` of each order. `SerialSteps` shows that a step of `SerialSpec`
is a clerk's, the start of its call, or taken while all are idle. It gives
`GoodsAlwaysLeaveOnce`, `VoidAlwaysReversed`, `StatusAlwaysMatches` and
`VoidStaysFinal`. `PromisedAlwaysOnHand` needs `Shelved`: the promises of all
orders together are within the stock and what else took from it, and an order
that still waits has an active reservation or none that counts. Each group of actions changes
one promise (`OnePromise`), except production, whose allocation is within what
is free. With `Shelved` before and after a step, each group of actions is a step
of the shelf: `OrdersKeepPromises`. That a hand-over takes its promise and no
more uses `Held` (the reservation read covers the order) together with the
accounting of `OrderInv` (it never exceeds the order). `ShelfBacksPromises`
goes the other way, from `StockPromise` alone to `PromisedStockOnHand`.

`JobRunnerProofs`. `IInv == TypeOK /\ \A c : CallInv(c)`. `CallInv(c)` says that
a call's stamp is not in the future, that a working call either holds the row
since its stamp or has had its lease, and that a call that won is the row's
token with the row SUCCEEDED and its own summary. It gives
`OverlapNeedsLease`, `WonIsFinal`, and with it each step of `JobRunner` is a
step of `RunOnce` or a stutter: `JobRunnerRunsOnce`.

`SubscriptionBillingProofs`. `BillingTypeCorrect` includes that a delivery past
its claim is about a stored event, which makes the catch block's update safe.
`SettledStays` and `PaidUpStaysIn` follow from the types and one step.
`DoneIsPaid` is inductive because a row becomes terminal in one transaction with
its payment (`TerminalStep`), and stays true because settled payments stay
settled. `NoMonthForFree` needs a strengthening: deliveries write dates computed
from dates read long ago, so `BillingInv` bounds what every delivery has read by
`now + Month * Cardinality(Settled)`, not the tenant's column alone.

`QuantityProofs`. A sum is the number of its units, `Total(q) ==
Cardinality({<<x, n>> : n \in 1 .. q[x]})`, so what the library proves of finite
sets gives what is needed of sums: they are numbers, they add up, a change in
one row changes the sum by as much, a part is no more than the whole. This is
why the sums of the invariants run over fixed sets, and rows that do not count
contribute zero.

`WarehouseProofs`. `TypeCorrect` is not about shapes only: that `stock` and
`wip` stay natural numbers needs the guards of `appendLedger` and of
`consumeChargedReservationInTx`. `WipAlwaysCharged` is inductive with the types:
`Charged(l)` is a sum of shares of the roasts, and each step changes one share
(`ChargedChange`). Its consequence `ChargedBeansAreThere` says that the guard on
ROASTING-WIP never refuses a completion, an abort or a scrap.
`StockAlwaysLedger` needs `AllocIsOwn`: an issue that was made allocated rows of
its own product only, which its void mirrors. `SerialRefinesSpec` carries the
results over to `SerialSpec`.

`LotAlwaysDocuments` is inductive with the types alone, because the model keeps
every document after its void. Each of its sums runs over all roasts, issues or
counts with 0 for those that do not count (`SumsOfDocuments`), and a step
changes at most one summand of each: `DocumentsStep` says by how much the
documents of a lot change (`Change`), `LotStep` that the ledger follows if the
rows written are that difference, and one lemma per group of actions that they
are.

The other two hold one call at a time. `SInv`, inductive under `SerialSpec`
(`SerialInvariant`), joins to the types: `OneCall`, what the call under way has
read is still so; `Covered`, no placement is negative; `VoidIsGone`, a void lot
was not drawn from, is closed or off the shelf, and lies nowhere; and `Marked`,
what was issued or missed of a lot makes it drawn, what is counted is on the
shelf, and so is an issue's output only if there is some. The parts need each
other: a void reopens the lots it mirrors, and that none of these is itself void
follows from `Marked` and `VoidIsGone`; that an issue, a count, a placement or a
transfer does not meet a void lot follows from its being closed and from
`OneCall`. Without `OneCall` neither property holds. `VoidAlwaysLeavesNothing`
follows from `SInv` and `LotAlwaysDocuments`. `PlacedAlwaysStaysBacked` compares
a state with the next: where nothing is overdrawn, `Placed` is a plain sum
(`LyingIs`), and `BackedStep` reduces each action to how much its placements and
how much its rows change.

`PurchasingProofs`. `Inv` joins the shape of the state, one payment identity and
one books identity, and is inductive as it stands; `WriteReceipt`, which makes
several purchases at once, needs the sums of two tables to be compared row by
row. `OrderInv` adds what each call under way knows: that a receipt's
`before` is at most what was received since, and all of it, unmoved, while the
order is not in `overlapped`; and that the lines it has read are the lines there
are. From it follow `OrdersMatchReceipts` and `ClosedAlwaysReceived`.
`OverReceiptAlwaysBounded` is not inductive: two callers that look at an empty
line have received nothing yet. `RoomInv` adds what each caller may still
receive by what it has read (`Open`) to what is received; a receipt moves units
from one to the other, and a caller that looks can open no more than is left.

*Assumptions.* Only those named in the modules: bounds are natural numbers; sets
of orders, payments, lots, roasts, places and callers are finite; lots and
products have different names; shipping costs include 0; the stuck threshold is
at least the lease (6 and 5 minutes in the code).

*Only model-checked.* Liveness (`OverdueReservationEnds`) is out of the prover's
reach. `BooksMatchDocuments` is proved for shipping costs of zero only, since it
is false for others (section 9). Every other property of a run is the property
of a theorem.
That an action matches its code is by reading; `PROJECT.json` maps each
definition to its lines, and gives each property a mutant that breaks it.

## 11. Not modelled

Costs (moving average, HPP) and the journals that follow them: arithmetic on
decimals whose order of rounding is the question, which whole numbers do not
show. Packaging, supply and finished-goods lots, which go through the same
functions as the kilograms of `Warehouse`. Lots made by `createLot`, which have
no rows. Samples, experiments and cupping beyond what they take from stock. The
offline outbox and the tenant webhook's inbox: planned, section 2. Sessions,
rate limits, notifications, telemetry, themes, reports, importers and views keep
no state the properties above depend on, or are input and output;
`PROJECT.json` gives the reason for each. Tenancy is left out by taking one
tenant per instance.
