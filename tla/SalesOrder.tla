----------------------------- MODULE SalesOrder -----------------------------
(***************************************************************************)
(* Sales orders of one roastery and one finished product: stock promised   *)
(* to orders, shortages waiting for production, payments, hand-over,       *)
(* returns, voids and the expiry cron.                                     *)
(*                                                                         *)
(* One action is one database transaction.  Every transaction here is      *)
(* Serializable, and retried or refused when it conflicts, with two        *)
(* exceptions: updateInvoiceShipping reads the invoice, opens a            *)
(* READ COMMITTED transaction, reads again and then writes rows by id; the *)
(* upload of a payment proof reads and writes in one at READ COMMITTED.    *)
(* Their reads and their writes are separate actions.  The cron picks its  *)
(* candidates, and the payment webhook compares the amount, before the     *)
(* transaction that handles them.                                          *)
(*                                                                         *)
(* Data: an order has one line of one unit-based product at price 1, no    *)
(* tax and no discount, so its total is its quantity plus shipping.        *)
(***************************************************************************)
EXTENDS Posting, Sequences, FiniteSets, FiniteSetsExt, Quantity

CONSTANTS
  Orders,        \* invoices that may be created
  Clerks,        \* concurrent callers of updateInvoiceShipping
  Kinds,         \* the ways of ordering that are used
  MaxQty,        \* bound: units of one order
  MaxStock,      \* bound: units on hand, and units the other flows take
  MaxPayments,   \* bound: payments recorded for one order
  ShippingCosts, \* shipping costs a clerk may enter (0 is the initial one)
  UpsertKeyInSchema, \* is the unique key named by the upsert of
                     \* allocateProducedStockToDemand one of schema.prisma's?
  NoOrder

ASSUME BoundsAssumption ==
  /\ MaxQty \in Nat \ {0} /\ MaxStock \in Nat /\ MaxPayments \in Nat
ASSUME OrdersAssumption == NoOrder \notin Orders /\ IsFiniteSet(Orders)
ASSUME KeyAssumption == UpsertKeyInSchema \in BOOLEAN
ASSUME CostsAssumption == ShippingCosts \subseteq Nat /\ 0 \in ShippingCosts

VARIABLES
  stock,     \* products.stockUnit
  otherOut,  \* units taken out by the flows that are not sales
  inv,       \* invoices
  resv,      \* stock_reservations, one row per invoice at most
  task,      \* fulfillment_tasks, one row per invoice at most
  demand,    \* the invoices with a task, oldest task first
  ledger,    \* inventory_ledger rows of the order, summed by refType
  pay,       \* payments, oldest first
  sub,       \* the order's latest payment_submission
  books,     \* its journals, see Posting
  clerk,     \* updateInvoiceShipping calls under way
  picked,    \* candidates of the running expireUnpaidStorefrontOrders
  accepted,  \* Midtrans notifications accepted and not yet handled
  uploads    \* orders with a proof upload that has read its submission

vars == <<stock, otherOut, inv, resv, task, demand, ledger, pay, sub, books,
          clerk, picked, accepted, uploads>>
-----------------------------------------------------------------------------
AllKinds == {"WALK_IN", "DIRECT", "CREDIT", "MANUAL", "MIDTRANS"}
ASSUME KindsAssumption == Kinds \subseteq AllKinds

Statuses == {"NONE", "ISSUED", "PARTIAL", "PAID", "VOID", "RETURNED"}
Fulfillments == {"AWAITING_PAYMENT", "NEEDS_PRODUCTION", "READY_TO_PACK",
                 "PACKED", "SHIPPED", "DELIVERED", "CANCELLED"}
OperatorTargets == {"READY_TO_PACK", "PACKED", "SHIPPED", "DELIVERED"}
Qtys == 1 .. MaxQty
NoCost == 0 - 1

\* Orders with a publicOrderToken and a payment of their own to make.
IsPublic(o) == inv[o].kind \in {"MANUAL", "MIDTRANS"}

Invoice == [status: Statuses, ful: Fulfillments, kind: AllKinds, qty: Nat,
            ship: ShippingCosts, paid: Nat, returned: Nat, due: BOOLEAN]
Reservation == [status: {"NONE", "ACTIVE", "CONSUMED", "RELEASED", "EXPIRED"},
                qty: Nat]
\* IN_PROGRESS is a partly filled OPEN task; every query asks for both.
Task == [status: {"NONE", "OPEN", "COMPLETED", "CANCELLED"}, shortage: Nat]
LedgerSums == [out: Nat, void: Nat]
Payment == [amount: Nat, book: {"PREPAYMENT", "RECEIVABLE"},
            by: {"STAFF", "PROOF", "MIDTRANS"}, live: BOOLEAN]
Submission ==
  [status: {"NONE", "AWAITING_PROOF", "AWAITING_VERIFICATION", "VERIFIED",
            "REJECTED", "EXPIRED"},
   due: BOOLEAN, followUp: BOOLEAN]
ClerkState ==
  [pc: {"idle", "read", "fulfil", "write"}, order: Orders \cup {NoOrder},
   next: OperatorTargets \cup {"SAME"}, oldShip: ShippingCosts,
   newShip: ShippingCosts \cup {NoCost}, paid: Nat, total: Nat]

NewInvoice(kind, qty, status, ful, paid) ==
  [status |-> status, ful |-> ful, kind |-> kind, qty |-> qty, ship |-> 0,
   paid |-> paid, returned |-> 0, due |-> FALSE]
NoInvoice == NewInvoice("DIRECT", 0, "NONE", "AWAITING_PAYMENT", 0)
Idle == [pc |-> "idle", order |-> NoOrder, next |-> "SAME", oldShip |-> 0,
         newShip |-> NoCost, paid |-> 0, total |-> 0]

Init ==
  /\ stock \in 0 .. MaxStock
  /\ otherOut = 0
  /\ inv = [o \in Orders |-> NoInvoice]
  /\ resv = [o \in Orders |-> [status |-> "NONE", qty |-> 0]]
  /\ task = [o \in Orders |-> [status |-> "NONE", shortage |-> 0]]
  /\ demand = << >>
  /\ ledger = [o \in Orders |-> [out |-> 0, void |-> 0]]
  /\ pay = [o \in Orders |-> << >>]
  /\ sub = [o \in Orders |->
              [status |-> "NONE", due |-> FALSE, followUp |-> FALSE]]
  /\ books = [o \in Orders |-> NoBooks]
  /\ clerk = [c \in Clerks |-> Idle]
  /\ picked = {}
  /\ accepted = {}
  /\ uploads = {}
-----------------------------------------------------------------------------
(* Money and stock figures. *)

GrandTotal(o) == inv[o].qty + inv[o].ship          \* invoice.grandTotal
Outstanding(o) ==                                  \* computeReceivable
  Max({0, GrandTotal(o) - inv[o].paid - inv[o].returned})

\* aggregateActiveReservations, and the units it leaves for others.
Promised ==
  [o \in Orders |-> IF resv[o].status = "ACTIVE" THEN resv[o].qty ELSE 0]
Reserved == Total(Promised)
MutantAvailable == stock                  \* promises forgotten
Available == Max({0, stock - Reserved})

\* appendLedger OUT and appendFefoLedgerOut: no balance goes negative.
MutantInStock(units) == TRUE              \* check forgotten
InStock(units) == units <= stock

HasOpenTask(o) == task[o].status = "OPEN"

NewPayment(amount, book, by) ==
  [amount |-> amount, book |-> book, by |-> by, live |-> TRUE]

\* markInvoicePaidForFulfillment
FulfillmentWhenPaid(o) ==
  IF HasOpenTask(o) THEN "NEEDS_PRODUCTION" ELSE "READY_TO_PACK"
-----------------------------------------------------------------------------
(* Orders are placed. *)

\* reserveInvoiceStock: what is available is promised, the rest is a task.
MutantNewTask(q, got) == [status |-> "OPEN", shortage |-> q]
NewTask(q, got) == [status |-> "OPEN", shortage |-> q - got]
ReserveInvoiceStock(o, q) ==
  \E got \in 0 .. q :
    /\ got = Min({q, Available})
    /\ resv' = [resv EXCEPT ![o] =
                  IF got > 0 THEN [status |-> "ACTIVE", qty |-> got] ELSE @]
    /\ task' = [task EXCEPT ![o] = IF got < q THEN NewTask(q, got) ELSE @]
    /\ demand' = IF got < q THEN Append(demand, o) ELSE demand

\* createInvoice for a paid WALK_IN sale: handed over at the counter.
WalkInSale(o, q) ==
  /\ "WALK_IN" \in Kinds /\ MaxPayments > 0
  /\ inv[o].status = "NONE"
  /\ q <= Available /\ InStock(q)
  /\ inv' = [inv EXCEPT ![o] =
               NewInvoice("WALK_IN", q, "PAID", "DELIVERED", q)]
  /\ stock' = stock - q
  /\ ledger' = [ledger EXCEPT ![o].out = q]
  /\ LET p == NewPayment(q, "PREPAYMENT", "STAFF")
     IN  /\ pay' = [pay EXCEPT ![o] = <<p>>]
         /\ books' = [books EXCEPT ![o] =
                        PostSalesInvoice(PostPayment(@, p), q, q)]
  /\ UNCHANGED <<otherOut, resv, task, demand, sub, clerk, picked, accepted,
                 uploads>>

\* createInvoice for every other sale a member of staff enters.  paidNow is
\* status "PAID", which is refused for credit.
CreateInvoice(o, q, kind, paidNow) ==
  /\ kind \in {"DIRECT", "CREDIT"} \cap Kinds
  /\ inv[o].status = "NONE"
  /\ paidNow => kind # "CREDIT" /\ MaxPayments > 0
  /\ ReserveInvoiceStock(o, q)
  /\ LET ful == IF q > Available THEN "NEEDS_PRODUCTION"
                ELSE IF paidNow \/ kind = "CREDIT" THEN "READY_TO_PACK"
                                                   ELSE "AWAITING_PAYMENT"
     IN  inv' = [inv EXCEPT ![o] =
                   IF paidNow THEN NewInvoice(kind, q, "PAID", ful, q)
                              ELSE NewInvoice(kind, q, "ISSUED", ful, 0)]
  /\ LET p == NewPayment(q, "PREPAYMENT", "STAFF")
     IN  /\ pay' = [pay EXCEPT ![o] = IF paidNow THEN <<p>> ELSE @]
         /\ books' = [books EXCEPT ![o] =
                        IF paidNow THEN PostPayment(@, p) ELSE @]
  /\ UNCHANGED <<stock, otherOut, ledger, sub, clerk, picked, accepted,
                 uploads>>

\* The storefront's checkout: by manual transfer (with a submission to fill
\* in), through Midtrans, or as an approved partner's credit order.
Checkout(o, q, kind) ==
  /\ kind \in {"MANUAL", "MIDTRANS", "CREDIT"} \cap Kinds
  /\ inv[o].status = "NONE"
  /\ ReserveInvoiceStock(o, q)
  /\ LET ful == IF q > Available THEN "NEEDS_PRODUCTION"
                ELSE IF kind = "CREDIT" THEN "READY_TO_PACK"
                                        ELSE "AWAITING_PAYMENT"
     IN  inv' = [inv EXCEPT ![o] = NewInvoice(kind, q, "ISSUED", ful, 0)]
  /\ sub' = [sub EXCEPT ![o].status =
               IF kind = "MANUAL" THEN "AWAITING_PROOF" ELSE @]
  /\ UNCHANGED <<stock, otherOut, ledger, pay, books, clerk, picked, accepted,
                 uploads>>
-----------------------------------------------------------------------------
(* Payments. *)

\* recordPayment: never more than the bill less what was returned.  What is
\* paid before the hand-over is an advance.
MutantMayPay(o, amount) == amount <= Max({0, GrandTotal(o) - inv[o].returned})
MayPay(o, amount) ==
  inv[o].paid + amount <= Max({0, GrandTotal(o) - inv[o].returned})
MutantSettledBeforeHandover(o) == inv[o].ful \notin {"SHIPPED", "DELIVERED"}
SettledBeforeHandover(o) == inv[o].ful # "DELIVERED"

SetPaid(i, paid, status, ful) ==
  [i EXCEPT !.paid = paid, !.status = status, !.ful = ful]

RecordPayment(o, amount) ==
  LET paid == inv[o].paid + amount
      full == paid >= GrandTotal(o)
      settled == SettledBeforeHandover(o)
      book == IF settled THEN "PREPAYMENT" ELSE "RECEIVABLE"
      p == NewPayment(amount, book, "STAFF")
  IN  /\ inv[o].status \in {"ISSUED", "PARTIAL"}
      /\ Len(pay[o]) < MaxPayments
      /\ MayPay(o, amount)
      /\ inv' = [inv EXCEPT ![o] =
                   SetPaid(@, paid, IF full THEN "PAID" ELSE "PARTIAL",
                           IF settled /\ full THEN FulfillmentWhenPaid(o)
                                              ELSE inv[o].ful)]
      /\ pay' = [pay EXCEPT ![o] = Append(@, p)]
      /\ books' = [books EXCEPT ![o] = PostPayment(@, p)]
      /\ UNCHANGED <<stock, otherOut, resv, task, demand, ledger, sub, clerk,
                     picked, accepted, uploads>>

\* voidPayment of the i-th payment: once, and not on a void invoice.
MutantIsVoidable(o, p) == inv[o].status # "VOID"
IsVoidable(o, p) == p.live /\ inv[o].status # "VOID"
MutantStatusAfterVoid(paid) == "ISSUED"
StatusAfterVoid(paid) == IF paid = 0 THEN "ISSUED" ELSE "PARTIAL"

VoidPayment(o, i) ==
  LET p == pay[o][i]
      paid == Max({0, inv[o].paid - p.amount})
  IN  /\ IsVoidable(o, p)
      /\ pay' = [pay EXCEPT ![o][i].live = FALSE]
      /\ books' = [books EXCEPT ![o] = ReversePayment(@, p)]
      /\ inv' = [inv EXCEPT ![o] =
                   SetPaid(@, paid, StatusAfterVoid(paid),
                           IF /\ inv[o].ful = "READY_TO_PACK"
                              /\ inv[o].kind # "CREDIT"
                           THEN "AWAITING_PAYMENT" ELSE inv[o].ful)]
      /\ UNCHANGED <<stock, otherOut, resv, task, demand, ledger, sub, clerk,
                     picked, accepted, uploads>>

\* The proof-upload route, in time.  The deadline was looked at before the
\* upload, so the transaction may come after it.  It reads the status and then
\* sets it, whatever it has become; more says that another upload which read
\* the same submission is still to write.
ReadSubmission(o) ==
  /\ sub[o].status \in {"AWAITING_PROOF", "REJECTED"}
  /\ o \notin uploads /\ uploads' = uploads \cup {o}
  /\ UNCHANGED <<stock, otherOut, inv, resv, task, demand, ledger, pay, sub,
                 books, clerk, picked, accepted>>

WriteProof(o, more) ==
  /\ o \in uploads
  /\ uploads' = IF more THEN uploads ELSE uploads \ {o}
  /\ sub' = [sub EXCEPT ![o].status = "AWAITING_VERIFICATION"]
  /\ UNCHANGED <<stock, otherOut, inv, resv, task, demand, ledger, pay, books,
                 clerk, picked, accepted>>

\* The proof-upload route past the deadline: the submission expires whatever
\* its status was.
SubmitProofLate(o) ==
  /\ sub[o].status # "NONE" /\ sub[o].due
  /\ sub' = [sub EXCEPT ![o].status = "EXPIRED"]
  /\ UNCHANGED <<stock, otherOut, inv, resv, task, demand, ledger, pay, books,
                 clerk, picked, accepted, uploads>>

\* verifyPaymentSubmission applying amount; what is left of the bill gets a
\* submission of its own, and an upload under way would write the old one.
VerifySubmission(o, amount) ==
  LET paid == inv[o].paid + amount
      full == paid >= GrandTotal(o) - inv[o].returned
      p == NewPayment(amount, "PREPAYMENT", "PROOF")
  IN  /\ sub[o].status = "AWAITING_VERIFICATION"
      /\ inv[o].status \notin {"VOID", "RETURNED"}
      /\ amount <= Outstanding(o)
      /\ Len(pay[o]) < MaxPayments
      /\ inv' = [inv EXCEPT ![o] =
                   SetPaid(@, paid, IF full THEN "PAID" ELSE "PARTIAL",
                           IF full THEN FulfillmentWhenPaid(o)
                                   ELSE inv[o].ful)]
      /\ sub' = [sub EXCEPT ![o] =
                   IF full THEN [@ EXCEPT !.status = "VERIFIED"]
                   ELSE [status |-> "AWAITING_PROOF", due |-> FALSE,
                         followUp |-> TRUE]]
      /\ uploads' = IF full THEN uploads ELSE uploads \ {o}
      /\ pay' = [pay EXCEPT ![o] = Append(@, p)]
      /\ books' = [books EXCEPT ![o] = PostPayment(@, p)]
      /\ UNCHANGED <<stock, otherOut, resv, task, demand, ledger, clerk,
                     picked, accepted>>

\* rejectPaymentSubmission.
RejectSubmission(o) ==
  /\ sub[o].status = "AWAITING_VERIFICATION"
  /\ sub' = [sub EXCEPT ![o].status = "REJECTED"]
  /\ UNCHANGED <<stock, otherOut, inv, resv, task, demand, ledger, pay, books,
                 clerk, picked, accepted, uploads>>

\* The tenant Midtrans webhook.  Midtrans charges the total it was given at
\* checkout; a notification of anything but the invoice's total is ignored.
WebhookAccept(o) ==
  /\ inv[o].kind = "MIDTRANS" /\ inv[o].status # "NONE"
  /\ GrandTotal(o) = inv[o].qty
  /\ o \notin accepted /\ accepted' = accepted \cup {o}
  /\ UNCHANGED <<stock, otherOut, inv, resv, task, demand, ledger, pay, sub,
                 books, clerk, picked, uploads>>

\* The notification changes nothing, or its transaction fails.
WebhookIgnored(o) ==
  /\ o \in accepted /\ accepted' = accepted \ {o}
  /\ UNCHANGED <<stock, otherOut, inv, resv, task, demand, ledger, pay, sub,
                 books, clerk, picked, uploads>>

\* The transaction of a settlement whose payment is not there yet.
MutantMaySettle(o) == inv[o].status # "PAID"
MaySettle(o) == inv[o].status \notin {"VOID", "PAID"}

WebhookSettlement(o) ==
  LET amount == inv[o].qty
      p == NewPayment(amount, "PREPAYMENT", "MIDTRANS")
  IN  /\ o \in accepted /\ accepted' = accepted \ {o}
      /\ MaySettle(o)
      /\ inv[o].paid + amount <= GrandTotal(o)
      /\ \A i \in DOMAIN pay[o] : pay[o][i].by # "MIDTRANS"
      /\ Len(pay[o]) < MaxPayments
      /\ inv' = [inv EXCEPT ![o] =
                   SetPaid(@, inv[o].paid + amount, "PAID",
                           FulfillmentWhenPaid(o))]
      /\ pay' = [pay EXCEPT ![o] = Append(@, p)]
      /\ books' = [books EXCEPT ![o] = PostPayment(@, p)]
      /\ UNCHANGED <<stock, otherOut, resv, task, demand, ledger, sub, clerk,
                     picked, uploads>>
-----------------------------------------------------------------------------
(* Orders are called off. *)

\* releaseInvoiceReservations without its stock reversal.
MutantReleaseReservation(o, to) ==        \* a waiting order keeps its part
  /\ resv' = [resv EXCEPT ![o].status =
                IF @ = "ACTIVE" /\ ~HasOpenTask(o) THEN to ELSE @]
  /\ task' = [task EXCEPT ![o].status = IF @ = "OPEN" THEN "CANCELLED" ELSE @]
ReleaseReservation(o, to) ==
  /\ resv' = [resv EXCEPT ![o].status = IF @ = "ACTIVE" THEN to ELSE @]
  /\ task' = [task EXCEPT ![o].status = IF @ = "OPEN" THEN "CANCELLED" ELSE @]

\* A VOID_REVERSAL row IN for every SALE_FG_OUT row of the order; a unique
\* index lets a row be reversed once.
AlreadyReversed(o) == ledger[o].void > 0
ReverseSaleEntries(o) ==
  /\ stock' = stock + ledger[o].out
  /\ ledger' = [ledger EXCEPT ![o].void = @ + ledger[o].out]

Voided(i) == [i EXCEPT !.status = "VOID", !.ful = "CANCELLED"]
MarkVoid(o) == inv' = [inv EXCEPT ![o] = Voided(@)]

\* voidInvoice: an order handed over gets its stock and journal reversed,
\* any other its reservation released.
VoidInvoice(o) ==
  /\ inv[o].status \in {"ISSUED", "RETURNED"} /\ inv[o].paid = 0
  /\ MarkVoid(o)
  /\ \/ /\ AlreadyReversed(o)
        /\ UNCHANGED <<stock, resv, task, ledger, books>>
     \/ /\ ~AlreadyReversed(o) /\ ledger[o].out > 0
        /\ ReverseSaleEntries(o)
        /\ books' = [books EXCEPT ![o] = ReverseSalesInvoice(@)]
        /\ UNCHANGED <<resv, task>>
     \/ /\ ~AlreadyReversed(o) /\ ledger[o].out = 0
        /\ ReleaseReservation(o, "RELEASED")
        /\ UNCHANGED <<stock, ledger, books>>
  /\ UNCHANGED <<otherOut, demand, pay, sub, clerk, picked, accepted, uploads>>

\* The webhook's transaction when the payment failed for good.
\* postVoidReversal refuses an order without a sale journal, and with it the
\* whole transaction.  An order with a sale journal has no reservation left
\* to release (NothingHeldOnceSold).
WebhookFailure(o) ==
  /\ o \in accepted /\ accepted' = accepted \ {o}
  /\ inv[o].status \notin {"VOID", "PAID"} /\ inv[o].paid = 0
  /\ books[o].sale # "NONE" /\ ~AlreadyReversed(o)
  /\ ReverseSaleEntries(o)
  /\ books' = [books EXCEPT ![o] = ReverseSalesInvoice(@)]
  /\ MarkVoid(o)
  /\ UNCHANGED <<otherOut, resv, task, demand, pay, sub, clerk, picked,
                 uploads>>

\* expirePaymentSubmissions for one overdue submission.
ExpireSubmission(o) ==
  /\ sub[o].status \in {"AWAITING_PROOF", "REJECTED"} /\ sub[o].due
  /\ sub' = [sub EXCEPT ![o].status = "EXPIRED"]
  /\ \/ /\ inv[o].status \in {"PAID", "VOID"} \/ inv[o].paid > 0
        /\ UNCHANGED <<stock, inv, resv, task, ledger, books>>
     \/ /\ inv[o].status \notin {"PAID", "VOID"} /\ inv[o].paid = 0
        /\ IF resv[o].status = "ACTIVE" THEN ReleaseReservation(o, "EXPIRED")
                                        ELSE UNCHANGED <<resv, task>>
        /\ IF AlreadyReversed(o) THEN UNCHANGED <<stock, ledger>>
                                 ELSE ReverseSaleEntries(o)
        /\ books' = [books EXCEPT ![o] = ReverseSalesInvoice(@)]
        /\ MarkVoid(o)
  /\ UNCHANGED <<otherOut, demand, pay, clerk, picked, accepted, uploads>>

\* expireUnpaidStorefrontOrders: the candidate query, and the transaction of
\* one candidate, which looks again at the invoice but not at its stock.
MutantIsCandidate(o) ==
  /\ inv[o].kind = "MANUAL" /\ inv[o].due
  /\ inv[o].status = "ISSUED" /\ inv[o].paid = 0 /\ resv[o].status = "ACTIVE"
IsCandidate(o) ==
  /\ IsPublic(o) /\ inv[o].due
  /\ inv[o].status = "ISSUED" /\ inv[o].paid = 0 /\ resv[o].status = "ACTIVE"

PickExpiredOrders ==
  LET due == {o \in Orders : IsCandidate(o)}
  IN  /\ picked = {} /\ due # {}
      /\ picked' = due
      /\ UNCHANGED <<stock, otherOut, inv, resv, task, demand, ledger, pay,
                     sub, books, clerk, accepted, uploads>>

\* A candidate may have been paid or voided since it was picked.
MutantIsStillUnpaid(o) == inv[o].status # "VOID"
IsStillUnpaid(o) == inv[o].status = "ISSUED" /\ inv[o].paid = 0

\* A reversal the index refuses fails the run, and the candidates left.
ExpireOrder(o) ==
  LET open == IsStillUnpaid(o)
      fails == open /\ AlreadyReversed(o)
  IN  /\ o \in picked
      /\ picked' = IF fails THEN {} ELSE picked \ {o}
      /\ \/ /\ open /\ ~fails
            /\ ReleaseReservation(o, "EXPIRED")
            /\ ReverseSaleEntries(o)
            /\ books' = [books EXCEPT ![o] = ReverseSalesInvoice(@)]
            /\ MarkVoid(o)
         \/ /\ ~open \/ fails
            /\ UNCHANGED <<stock, inv, resv, task, ledger, books>>
      /\ UNCHANGED <<otherOut, demand, pay, sub, clerk, accepted, uploads>>

\* Deadlines pass: invoice.reservationExpiresAt and submission.expiresAt,
\* which are one and the same for the submission made at checkout.
ReservationDeadline(o) ==
  /\ inv[o].status # "NONE" /\ inv[o].kind # "WALK_IN" /\ ~inv[o].due
  /\ inv' = [inv EXCEPT ![o].due = TRUE]
  /\ sub' = [sub EXCEPT ![o].due =
               @ \/ (sub[o].status # "NONE" /\ ~sub[o].followUp)]
  /\ UNCHANGED <<stock, otherOut, resv, task, demand, ledger, pay, books,
                 clerk, picked, accepted, uploads>>

SubmissionDeadline(o) ==
  /\ inv[o].due /\ sub[o].followUp /\ ~sub[o].due
  /\ sub' = [sub EXCEPT ![o].due = TRUE]
  /\ UNCHANGED <<stock, otherOut, inv, resv, task, demand, ledger, pay, books,
                 clerk, picked, accepted, uploads>>
-----------------------------------------------------------------------------
(* Stock comes in from production and goes out by other flows. *)

\* What an open task may still be given; a dead invoice's task gets nothing.
IsDead(o) == inv[o].status \in {"VOID", "RETURNED"}
Wanted(o) == IF HasOpenTask(o) /\ ~IsDead(o) THEN task[o].shortage ELSE 0

Earlier(o) == {p \in Orders : \E i, j \in DOMAIN demand :
                 /\ i < j /\ demand[i] = p /\ demand[j] = o}

\* allocateProducedStockToDemand: the oldest task is served first, until
\* nothing is left.
IsFifoAllocation(alloc, available) ==
  /\ \A o \in Orders : alloc[o] <= Wanted(o)
  /\ Total(alloc) <= available
  /\ \A o \in Orders : alloc[o] < Wanted(o) =>
       /\ Total(alloc) = available
       /\ \A p \in Orders : o \in Earlier(p) => alloc[p] = 0

\* The loop came to the task of o before it ran out of stock.
IsReached(o, alloc, available) ==
  HasOpenTask(o) /\ Total([p \in Earlier(o) |-> alloc[p]]) < available

\* createProductionBatch, as far as finished goods go: units come in and are
\* allocated to waiting orders in the same transaction.  The upsert of the
\* first reservation, and with it the transaction, fails when the unique key
\* it names is not in the schema.
Produce(units) ==
  /\ stock + units <= MaxStock
  /\ stock' = stock + units
  /\ LET available == Max({0, stock + units - Reserved})
     IN  \E alloc \in [Orders -> 0 .. MaxQty] :
           LET served(o) == alloc[o] > 0
               filled(o) == served(o) /\ alloc[o] = task[o].shortage
               dropped(o) == IsDead(o) /\ IsReached(o, alloc, available)
           IN  /\ IsFifoAllocation(alloc, available)
               /\ (\E o \in Orders : served(o)) => UpsertKeyInSchema
               /\ resv' = [o \in Orders |->
                    IF served(o) THEN [status |-> "ACTIVE",
                                       qty |-> resv[o].qty + alloc[o]]
                                 ELSE resv[o]]
               /\ task' = [o \in Orders |->
                    [status |-> IF filled(o) THEN "COMPLETED"
                                ELSE IF dropped(o) THEN "CANCELLED"
                                ELSE task[o].status,
                     shortage |-> task[o].shortage - alloc[o]]]
               /\ inv' = [o \in Orders |->
                    IF filled(o)
                    THEN [inv[o] EXCEPT !.ful = IF inv[o].status = "PAID"
                                                THEN "READY_TO_PACK"
                                                ELSE "AWAITING_PAYMENT"]
                    ELSE inv[o]]
  /\ UNCHANGED <<otherOut, demand, ledger, pay, sub, books, clerk, picked,
                 accepted, uploads>>

\* Adjustments, samples and spoilage: appendLedger OUT asks only that the
\* stock is there, promised or not.
OtherOut(units) ==
  /\ InStock(units) /\ otherOut + units <= MaxStock
  /\ stock' = stock - units
  /\ otherOut' = otherOut + units
  /\ UNCHANGED <<inv, resv, task, demand, ledger, pay, sub, books, clerk,
                 picked, accepted, uploads>>

\* createCreditNote: units of a delivered order come back.  What has not been
\* paid for comes off the receivable, the rest is owed back to the customer.
\* At price 1 the returned amount is the returned quantity.
Credited(i, units) ==
  [i EXCEPT !.returned = @ + units,
            !.status = IF i.returned + units = i.qty THEN "RETURNED" ELSE @]
CreateCreditNote(o, units) ==
  LET owed == GrandTotal(o) - inv[o].paid - inv[o].returned
      arPortion == Max({0, Min({units, owed})})
  IN  /\ inv[o].ful = "DELIVERED"
      /\ units <= inv[o].qty - inv[o].returned
      /\ inv' = [inv EXCEPT ![o] = Credited(@, units)]
      /\ stock' = stock + units
      /\ books' = [books EXCEPT ![o] =
                     PostCreditNote(@, arPortion, units - arPortion)]
      /\ UNCHANGED <<otherOut, resv, task, demand, ledger, pay, sub, clerk,
                     picked, accepted, uploads>>
-----------------------------------------------------------------------------
(* updateInvoiceShipping: packing, shipping, hand-over. *)

NextOperatorStatuses(ful) ==
  CASE ful = "READY_TO_PACK" -> {"PACKED", "DELIVERED"}
    [] ful = "PACKED" -> {"SHIPPED", "DELIVERED"}
    [] ful = "SHIPPED" -> {"DELIVERED"}
    [] OTHER -> {}
CanOperatorTransition(ful, next) ==
  ful = next \/ next \in NextOperatorStatuses(ful)

\* The request is checked against the invoice before any transaction.  next
\* is the fulfillment status asked for, if any; a tracking number without one
\* means "SHIPPED", unchecked.  ship is the shipping cost entered, if any.
ReadForShipping(c, o, next, byTracking, ship) ==
  /\ clerk[c].pc = "idle"
  /\ inv[o].status \notin {"NONE", "VOID"}
  /\ IF byTracking THEN next = "SHIPPED"
     ELSE next # "SAME" => CanOperatorTransition(inv[o].ful, next)
  /\ ship # NoCost => /\ inv[o].status = "PAID" => ship = inv[o].ship
                      /\ inv[o].paid <= inv[o].qty + ship
  /\ next = "SAME" => ship # NoCost
  /\ clerk' = [clerk EXCEPT ![c] =
                 [pc |-> "read", order |-> o, next |-> next,
                  oldShip |-> inv[o].ship, newShip |-> ship,
                  paid |-> 0, total |-> 0]]
  /\ UNCHANGED <<stock, otherOut, inv, resv, task, demand, ledger, pay, sub,
                 books, picked, accepted, uploads>>

\* The update and the journal at the end of the transaction, on top of what
\* the hand-over wrote.
ShippingInvoice(i, k) ==
  [i EXCEPT !.ful = IF k.next = "SAME" THEN @ ELSE k.next,
            !.ship = IF k.newShip = NoCost THEN @ ELSE k.newShip]
ShippingBooks(g, k) ==
  IF k.newShip = NoCost THEN g
  ELSE PostShippingAdjustment(g, k.oldShip, k.newShip)

\* CHECK invoice_values_valid: the update must leave paid within the total.
MayStore(i) == i.paid <= i.qty + i.ship

WriteShipping(c) ==
  LET k == clerk[c]
  IN  /\ k.pc = "write" \/ (k.pc = "read" /\ k.next # "DELIVERED")
      /\ MayStore(ShippingInvoice(inv[k.order], k))
      /\ inv' = [inv EXCEPT ![k.order] = ShippingInvoice(@, k)]
      /\ books' = [books EXCEPT ![k.order] = ShippingBooks(@, k)]
      /\ clerk' = [clerk EXCEPT ![c] = Idle]
      /\ UNCHANGED <<stock, otherOut, resv, task, demand, ledger, pay, sub,
                     picked, accepted, uploads>>

\* Is the hand-over refused?
MutantIsRefused(o) == IsDead(o) \/ HasOpenTask(o)
IsRefused(o) == \/ IsDead(o) \/ HasOpenTask(o)
                \/ resv[o].status # "ACTIVE" \/ resv[o].qty < inv[o].qty

Fulfilling(k, paid, total) ==
  [k EXCEPT !.pc = "fulfil", !.paid = paid, !.total = total]

\* fulfillInvoiceAtHandover reads the invoice, its tasks and its reservations.
HandoverReads(c) ==
  LET k == clerk[c]
      o == k.order
  IN  /\ k.pc = "read" /\ k.next = "DELIVERED"
      /\ clerk' = [clerk EXCEPT ![c] =
                     IF inv[o].ful = "DELIVERED" THEN [k EXCEPT !.pc = "write"]
                     ELSE IF IsRefused(o) THEN Idle
                     ELSE Fulfilling(k, inv[o].paid, GrandTotal(o))]
      /\ UNCHANGED <<stock, otherOut, inv, resv, task, demand, ledger, pay,
                     sub, books, picked, accepted, uploads>>

MutantConsumed(r) == r
Consumed(r) == [r EXCEPT !.status = "CONSUMED"]

\* ... and writes: the goods leave, the reservation it read is consumed, the
\* sale is booked from the figures it read, the order is delivered.  The rows
\* are found by id, so nothing is compared with what was read but the stock,
\* and its first write locks the product until the commit.
HandoverWrites(c) ==
  LET k == clerk[c]
      o == k.order
  IN  /\ k.pc = "fulfil"
      /\ InStock(inv[o].qty) /\ SalesInvoiceBalances(k.total, k.paid)
      /\ MayStore(ShippingInvoice(inv[o], k))
      /\ stock' = stock - inv[o].qty
      /\ ledger' = [ledger EXCEPT ![o].out = @ + inv[o].qty]
      /\ resv' = [resv EXCEPT ![o] = Consumed(@)]
      /\ task' = [task EXCEPT ![o].status =
                    IF @ = "OPEN" THEN "COMPLETED" ELSE @]
      /\ books' = [books EXCEPT ![o] =
                     ShippingBooks(PostSalesInvoice(@, k.total, k.paid), k)]
      /\ inv' = [inv EXCEPT ![o] = ShippingInvoice(@, k)]
      /\ clerk' = [clerk EXCEPT ![c] = Idle]
      /\ UNCHANGED <<otherOut, demand, pay, sub, picked, accepted, uploads>>

\* The transaction rolls back: too little stock is left, the journal is out
\* of balance or the database refuses the invoice.
ShippingFails(c) ==
  LET k == clerk[c]
      o == k.order
  IN  /\ k.pc # "idle"
      /\ \/ k.pc = "fulfil" /\ ~InStock(inv[o].qty)
         \/ k.pc = "fulfil" /\ ~SalesInvoiceBalances(k.total, k.paid)
         \/ (k.next = "DELIVERED" => k.pc # "read")
              /\ ~MayStore(ShippingInvoice(inv[o], k))
      /\ clerk' = [clerk EXCEPT ![c] = Idle]
      /\ UNCHANGED <<stock, otherOut, inv, resv, task, demand, ledger, pay,
                     sub, books, picked, accepted, uploads>>
-----------------------------------------------------------------------------
Placing == \E o \in Orders, q \in Qtys :
  \/ WalkInSale(o, q)
  \/ \E kind \in Kinds, paidNow \in BOOLEAN :
       CreateInvoice(o, q, kind, paidNow)
  \/ \E kind \in Kinds : Checkout(o, q, kind)

MaxAmount == MaxQty + Max(ShippingCosts)
Paying == \E o \in Orders :
  \/ \E amount \in 1 .. MaxAmount :
       RecordPayment(o, amount) \/ VerifySubmission(o, amount)
  \/ \E i \in DOMAIN pay[o] : VoidPayment(o, i)
  \/ ReadSubmission(o) \/ \E more \in BOOLEAN : WriteProof(o, more)
  \/ SubmitProofLate(o) \/ RejectSubmission(o)

Cancelling == \E o \in Orders : VoidInvoice(o)

Webhook == \E o \in Orders :
  WebhookSettlement(o) \/ WebhookFailure(o) \/ WebhookIgnored(o)

Cron == PickExpiredOrders
        \/ \E o \in Orders : ExpireSubmission(o) \/ ExpireOrder(o)

Deadlines == \E o \in Orders : ReservationDeadline(o) \/ SubmissionDeadline(o)

Moving ==
  \/ \E units \in Qtys : Produce(units) \/ OtherOut(units)
  \/ \E o \in Orders, units \in Qtys : CreateCreditNote(o, units)

Requesting == \E c \in Clerks, o \in Orders :
  \/ \E next \in OperatorTargets \cup {"SAME"},
        ship \in ShippingCosts \cup {NoCost} :
       ReadForShipping(c, o, next, FALSE, ship)
  \/ \E ship \in ShippingCosts \cup {NoCost} :
       ReadForShipping(c, o, "SHIPPED", TRUE, ship)

ClerkStep(c) ==
  WriteShipping(c) \/ HandoverReads(c) \/ HandoverWrites(c) \/ ShippingFails(c)
Shipping == \E c \in Clerks : ClerkStep(c)

Next == \/ Placing \/ Paying \/ Cancelling \/ Cron \/ Deadlines \/ Moving
        \/ Requesting \/ Shipping \/ Webhook
        \/ \E o \in Orders : WebhookAccept(o)

Spec == Init /\ [][Next]_vars

\* One call at a time: while a clerk's call, the cron's run, a notification
\* or an upload is being handled, nothing else is.  What holds here and not
\* under Spec needs the calls of different users not to meet.
Quiet == /\ \A c \in Clerks : clerk[c].pc = "idle"
         /\ picked = {} /\ accepted = {} /\ uploads = {}
SerialStep ==
  \/ Shipping \/ Webhook
  \/ \E o \in Orders : ExpireOrder(o) \/ WriteProof(o, FALSE)
  \/ Quiet /\ Next
SerialSpec == Init /\ [][SerialStep]_vars

\* The cron is called hourly, so a candidate is picked and handled in the end.
CronFairness ==
  /\ WF_vars(PickExpiredOrders)
  /\ \A o \in Orders : WF_vars(ExpireOrder(o)) /\ WF_vars(ExpireSubmission(o))
FairSpec == Spec /\ CronFairness
-----------------------------------------------------------------------------
(* Properties.  What each of them is checked under is in the README. *)

\* Every row has its columns' types, and quantities and amounts the database
\* constrains to be non-negative are natural numbers.
TypeOK ==
  /\ stock \in Nat /\ otherOut \in Nat
  /\ inv \in [Orders -> Invoice]
  /\ resv \in [Orders -> Reservation]
  /\ task \in [Orders -> Task]
  /\ demand \in Seq(Orders)
  /\ ledger \in [Orders -> LedgerSums]
  /\ pay \in [Orders -> Seq(Payment)]
  /\ sub \in [Orders -> Submission]
  /\ books \in [Orders -> Books(ShippingCosts)]
  /\ clerk \in [Clerks -> ClerkState]
  /\ picked \in SUBSET Orders /\ accepted \in SUBSET Orders
  /\ uploads \in SUBSET Orders

\* Reservations are promises: the units promised to orders are on the shelf,
\* but for what adjustments and samples took away (storefront-commerce.ts:29
\* and :89, reserveInvoiceStock, fulfillWalkInSaleStock and
\* allocateProducedStockToDemand against hand-over and release).
PromisedStockOnHand == Reserved <= stock + otherOut

\* Every call is a step of a shelf that promises no unit twice: a hand-over
\* takes the units promised to the order and no others, a promise is given
\* from unpromised units and only ends with its order (a reservation short of
\* the order is not handed over, storefront-commerce.ts:335).
Shelf == INSTANCE StockPromise WITH
           goods <- stock + otherOut,
           promise <- Promised
ShelfKeepsPromises == Shelf!Spec

\* While an order waits, what is promised to it and what production still
\* owes it add up to what was ordered: no unit is dropped between a partial
\* reservation and its task, or counted in both.
DemandAccounted ==
  \A o \in Orders : HasOpenTask(o) \/ resv[o].status = "ACTIVE" =>
    resv[o].qty + task[o].shortage = inv[o].qty

\* An order whose sale is booked neither holds stock nor waits for any.
NothingHeldOnceSold ==
  \A o \in Orders : books[o].sale # "NONE" =>
    resv[o].status # "ACTIVE" /\ ~HasOpenTask(o)

\* A void order holds no stock back, whichever of the cashier, the cron and the
\* webhook voided it, and whatever is produced or handed over afterwards.
VoidHoldsNoStock ==
  \A o \in Orders : inv[o].status = "VOID" => resv[o].status # "ACTIVE"

\* A void order holds no live payment: money that came in while it was being
\* voided, or afterwards, is not stranded on it.
VoidHoldsNoMoney ==
  \A o \in Orders : inv[o].status = "VOID" =>
    /\ inv[o].paid = 0
    /\ \A i \in DOMAIN pay[o] : ~pay[o][i].live

\* The goods of an order leave the shelf once (order-flow.integration.test.ts
\* :335 counts the SALE_FG_OUT rows of a hand-over), whatever its fulfillment
\* status is set back to afterwards.
GoodsLeaveOnce == \A o \in Orders : ledger[o].out <= inv[o].qty

\* Stock, reservation and sale journal move together: goods have left exactly
\* when the sale is booked, and then the reservation they came from is used up.
HandoverIsWhole ==
  \A o \in Orders :
    /\ ledger[o].out > 0 <=> books[o].sale # "NONE"
    /\ ledger[o].out > 0 /\ inv[o].kind # "WALK_IN" =>
         resv[o].status = "CONSUMED"

\* A void order has everything back: its goods are on the shelf and its sale
\* journal is mirrored.
VoidIsReversed ==
  \A o \in Orders : inv[o].status = "VOID" =>
    ledger[o].void = ledger[o].out /\ books[o].sale # "POSTED"

\* No more units come back, by return and by void together, than were sold.
RestoredWithinSold ==
  \A o \in Orders : ledger[o].void + inv[o].returned <= ledger[o].out

LivePaid(o) ==
  Total([i \in DOMAIN pay[o] |->
           IF pay[o][i].live THEN pay[o][i].amount ELSE 0])

\* invoice.paidAmount is the sum of the payments that are not void
\* (invoice_paid_amount_mismatch of scripts/audit-data-integrity.mts).
PaidIsSumOfPayments == \A o \in Orders : inv[o].paid = LivePaid(o)

\* No invoice is paid beyond its total (invoice_overpaid of the same script),
\* although four handlers add payments and one lowers the total.
PaidWithinTotal == \A o \in Orders : inv[o].paid <= GrandTotal(o)

\* The invoice's status and its money agree: what is ISSUED has no payment,
\* what is PARTIAL has one, what is PAID owes nothing after its returns.
StatusMatchesPaid ==
  \A o \in Orders :
    /\ inv[o].status = "ISSUED" => inv[o].paid = 0
    /\ inv[o].status = "PARTIAL" => inv[o].paid > 0
    /\ inv[o].status = "PAID" => Outstanding(o) = 0

\* Until goods and title pass, what the customer paid is an advance the
\* roastery owes back (order-flow.integration.test.ts:277).
DepositHeldUntilSale ==
  \A o \in Orders : books[o].sale = "NONE" =>
    books[o].deposit = inv[o].paid /\ books[o].refund = 0

\* Over receivable, advance and refund together the journals say what the
\* documents say: the customer owes the invoice once its sale is booked, less
\* what was paid and returned.  The accounts may be wrong one by one.
BooksMatchDocuments ==
  \A o \in Orders :
    NetPosition(books[o]) =
      (IF books[o].sale = "POSTED" THEN GrandTotal(o) ELSE 0)
        - inv[o].paid - inv[o].returned

\* Void is final: no payment, return, hand-over or cron run reopens an order.
VoidIsFinal ==
  [][\A o \in Orders : inv[o].status = "VOID" => inv'[o].status = "VOID"]_vars

\* An unpaid storefront order past its deadline, seen from the cron.
IsOverdue(o) ==
  IsPublic(o) /\ inv[o].due /\ inv[o].status = "ISSUED" /\ inv[o].paid = 0

\* Reserved stock comes back: an overdue storefront order does not hold its
\* reservation for ever, whatever became of its payment submission.
OverdueReservationEnds ==
  \A o \in Orders :
    (IsOverdue(o) /\ resv[o].status = "ACTIVE")
      ~> (resv[o].status # "ACTIVE" \/ ~IsOverdue(o))
=============================================================================
