----------------------------- MODULE Purchasing -----------------------------
(***************************************************************************)
(* Buying: purchase orders, the purchases received against them or booked  *)
(* directly, what is paid for them, and how payments and purchases are     *)
(* voided again.                                                           *)
(*                                                                         *)
(* Direct purchases, supplier payments and voids are Serializable          *)
(* transactions: one action each.  updateDraftPO, sendPO, receivePO and    *)
(* cancelPO look at the order first and write later, without looking       *)
(* again: Read is what they see, Write... what they do then.               *)
(*                                                                         *)
(* Data: a unit costs one, shipping and taxes nothing, so a receipt of n   *)
(* units costs n; amounts are whole, so the tolerance of one cent is left  *)
(* out.  Stock and lots are in Warehouse: here a lot is drawn from or not. *)
(***************************************************************************)
EXTENDS Quantity, Integers

CONSTANTS
  Orders,       \* purchaseOrder ids
  Items,        \* what a line of an order may ask for
  RoastedItems, \* those of them that are roasted beans, bought ready
  Purchases,    \* purchase ids
  Keys,         \* operationKeys of supplier payments
  Users,        \* callers of the handlers of an order
  MaxDirect,    \* bound: purchases booked without an order
  MaxUnits,     \* bound: units of the lines of an order
  MaxTotal,     \* bound: cost of a direct purchase, amount of a payment
  MaxRevisions  \* bound: how often the lines of an order are replaced

NoOrder == "no order"
NoItem == "no item"

ASSUME PurchasingAssumption ==
  /\ \A S \in {Orders, Items, Purchases, Keys, Users} : IsFiniteSet(S)
  /\ Items # {} /\ Purchases # {} /\ RoastedItems \subseteq Items
  /\ NoOrder \notin Orders /\ NoItem \notin Items
  /\ Keys \cap Purchases = {}
  /\ MaxDirect \in Nat /\ MaxUnits \in Nat
  /\ MaxTotal \in Nat /\ MaxRevisions \in Nat

\* The payment made with a purchase has the purchase's id, others their key.
Payments == Keys \cup Purchases

VARIABLES
  order,     \* purchase_orders with their lines
  purchase,  \* purchases
  payment,   \* supplier_payments
  drawn,     \* purchases with an OUT row on their lot
  payable,   \* credit balance of account 2-1000
  spent,     \* credit balance of account 1-1000
  goods,     \* debit balance of the inventory accounts
  user,      \* what a handler of an order has read
  overlapped \* orders on which two handlers ran at once (history)

vars == <<order, purchase, payment, drawn, payable, spent, goods, user,
          overlapped>>
-----------------------------------------------------------------------------
NoUnits == [i \in Items |-> 0]
Lines == {n \in [Items -> 0 .. MaxUnits] : Total(n) \in 1 .. MaxUnits}

Order == [status: {"NONE", "DRAFT", "SENT", "PARTIAL", "RECEIVED",
                   "CANCELLED"}, lines: [Items -> Nat], revision: Nat]
Purchase == [status: {"NONE", "COMPLETED", "VOID"},
             kind: {"ROASTED_BEAN", "OTHER"},
             total: Nat, paid: Nat, paidStatus: {"UNPAID", "PARTIAL", "PAID"},
             order: Orders \cup {NoOrder}, item: Items \cup {NoItem},
             units: Nat]
Payment == [status: {"NONE", "ACTIVE", "VOID"}, of: Purchases, amount: Nat]
Task ==
  [do: {"idle"}]
    \cup [do: {"update", "send", "cancel"}, order: Orders]
    \cup [do: {"receive"}, order: Orders, lines: [Items -> Nat],
          revision: Nat, before: [Items -> Nat]]

Idle == [do |-> "idle"]
NoPurchase ==
  [status |-> "NONE", kind |-> "OTHER", total |-> 0, paid |-> 0,
   paidStatus |-> "UNPAID", order |-> NoOrder, item |-> NoItem, units |-> 0]
NoPayment ==
  [status |-> "NONE", of |-> CHOOSE p \in Purchases : TRUE, amount |-> 0]

Init ==
  /\ order = [o \in Orders |-> [status |-> "NONE", lines |-> NoUnits,
                                revision |-> 0]]
  /\ purchase = [p \in Purchases |-> NoPurchase]
  /\ payment = [k \in Payments |-> NoPayment]
  /\ drawn = {}
  /\ payable = 0 /\ spent = 0 /\ goods = 0
  /\ user = [u \in Users |-> Idle]
  /\ overlapped = {}
-----------------------------------------------------------------------------
(* What there is. *)

\* Units received for a line: void receipts count as well.
Received(o, i) ==
  Total([p \in Purchases |->
           IF purchase[p].order = o /\ purchase[p].item = i
           THEN purchase[p].units ELSE 0])
ReceiptsOf(o) == {p \in Purchases : purchase[p].order = o}

\* getPurchasePaymentStatus.
PaidStatus(paid, total) ==
  IF paid = 0 THEN "UNPAID" ELSE IF paid >= total THEN "PAID" ELSE "PARTIAL"

\* What postPurchase credits to the supplier.
MutantOnCredit(total, paid) == 0
OnCredit(total, paid) == total - paid

NewPurchase(kind, total, paid, o, i, units) ==
  [status |-> "COMPLETED", kind |-> kind, total |-> total, paid |-> paid,
   paidStatus |-> PaidStatus(paid, total), order |-> o, item |-> i,
   units |-> units]
FirstPayment(p, paid) ==
  [status |-> IF paid > 0 THEN "ACTIVE" ELSE "NONE", of |-> p,
   amount |-> paid]
-----------------------------------------------------------------------------
(* Purchases and their payments. *)

\* Purchases that were booked without an order.
Direct == {p \in Purchases : /\ purchase[p].status # "NONE"
                             /\ purchase[p].order = NoOrder}

\* createGreenBeanPurchase and its like: whatever is paid at once is in the
\* journal of the purchase.  A repeated operationKey finds purchase p.
Buy(p, kind, total, paid) ==
  /\ purchase[p].status = "NONE" /\ Cardinality(Direct) < MaxDirect
  /\ purchase' = [purchase EXCEPT ![p] =
                    NewPurchase(kind, total, paid, NoOrder, NoItem, total)]
  /\ payment' = [payment EXCEPT ![p] = FirstPayment(p, paid)]
  /\ goods' = goods + total
  /\ spent' = spent + paid
  /\ payable' = payable + OnCredit(total, paid)
  /\ UNCHANGED <<order, drawn, user, overlapped>>

\* recordSupplierPayment.  A key that was used before records nothing.
RecordSupplierPayment(k, p, amount) ==
  LET paid == purchase[p].paid + amount
  IN  /\ payment[k].status = "NONE"
      /\ purchase[p].status = "COMPLETED" /\ purchase[p].paidStatus # "PAID"
      /\ paid <= purchase[p].total
      /\ payment' = [payment EXCEPT ![k] =
                       [status |-> "ACTIVE", of |-> p, amount |-> amount]]
      /\ purchase' = [purchase EXCEPT
                        ![p].paid = paid,
                        ![p].paidStatus = PaidStatus(paid, purchase[p].total)]
      /\ payable' = payable - amount
      /\ spent' = spent + amount
      /\ UNCHANGED <<order, drawn, goods, user, overlapped>>

\* Payments with a SUPPLIER_PAYMENT journal.
MutantHasJournal(k) == TRUE
HasJournal(k) == k \in Keys

VoidSupplierPayment(k) ==
  LET p == payment[k].of
      amount == payment[k].amount
      paid == IF amount > purchase[p].paid THEN 0
              ELSE purchase[p].paid - amount
  IN  /\ payment[k].status = "ACTIVE" /\ HasJournal(k)
      /\ purchase[p].status = "COMPLETED"
      /\ payment' = [payment EXCEPT ![k].status = "VOID"]
      /\ purchase' = [purchase EXCEPT
                        ![p].paid = paid,
                        ![p].paidStatus = PaidStatus(paid, purchase[p].total)]
      /\ payable' = payable + amount
      /\ spent' = spent - amount
      /\ UNCHANGED <<order, drawn, goods, user, overlapped>>

\* A roast, a grinding, a production or a count draws from the lot: an OUT row
\* (appendFefoLedgerOut, roast-lifecycle.ts, grinding/actions.ts).
Draw(p) ==
  /\ purchase[p].status = "COMPLETED" /\ p \notin drawn
  /\ drawn' = drawn \cup {p}
  /\ UNCHANGED <<order, purchase, payment, payable, spent, goods, user,
                 overlapped>>

\* voidPurchaseCore: the first payment goes with the purchase, every other
\* has to be voided before; the journal of the purchase is mirrored.
Journaled(p) == {k \in Payments : /\ payment[k].status = "ACTIVE"
                                  /\ payment[k].of = p /\ HasJournal(k)}
MutantSoftVoid(p) == payment
SoftVoid(p) ==
  [k \in Payments |->
     IF payment[k].status = "ACTIVE" /\ payment[k].of = p /\ ~HasJournal(k)
     THEN [payment[k] EXCEPT !.status = "VOID"] ELSE payment[k]]

VoidPurchase(p) ==
  LET first == payment[p].amount
  IN  /\ purchase[p].status = "COMPLETED"
      /\ purchase[p].kind # "ROASTED_BEAN" \* its IN row is not found
      /\ Journaled(p) = {}
      /\ p \notin drawn
      /\ payment' = SoftVoid(p)
      /\ purchase' = [purchase EXCEPT ![p].status = "VOID", ![p].paid = 0,
                                      ![p].paidStatus = "UNPAID"]
      /\ goods' = goods - purchase[p].total
      /\ spent' = spent - first
      /\ payable' = payable - OnCredit(purchase[p].total, first)
      /\ UNCHANGED <<order, drawn, user, overlapped>>
-----------------------------------------------------------------------------
(* Purchase orders. *)

CreateDraftPO(o, lines) ==
  /\ order[o].status = "NONE"
  /\ order' = [order EXCEPT ![o].status = "DRAFT", ![o].lines = lines]
  /\ UNCHANGED <<purchase, payment, drawn, payable, spent, goods, user,
                 overlapped>>

\* What a handler reads of an order whose status allows it.
Allowed(t) ==
  LET s == order[t.order].status
  IN  \/ t.do \in {"update", "send"} /\ s = "DRAFT"
      \/ t.do = "cancel" /\ s \in {"DRAFT", "SENT"}
      \/ t.do = "receive" /\ s \in {"SENT", "PARTIAL"}
Requests ==
  [do: {"update", "send", "cancel"}, order: Orders]
    \cup {[do |-> "receive", order |-> o, lines |-> order[o].lines,
           revision |-> order[o].revision,
           before |-> [i \in Items |-> Received(o, i)]] : o \in Orders}

Read(u, t) ==
  /\ user[u] = Idle /\ Allowed(t)
  /\ user' = [user EXCEPT ![u] = t]
  /\ overlapped' =
       IF \E v \in Users : user[v] # Idle /\ user[v].order = t.order
       THEN overlapped \cup {t.order} ELSE overlapped
  /\ UNCHANGED <<order, purchase, payment, drawn, payable, spent, goods>>

\* updateDraftPO deletes the lines and writes new ones: a purchase that was
\* received for a line is left without one (ON DELETE SET NULL).
WriteUpdate(u, lines) ==
  LET o == user[u].order
  IN  /\ user[u].do = "update"
      /\ order[o].revision < MaxRevisions
      /\ order' = [order EXCEPT ![o].lines = lines,
                                ![o].revision = @ + 1]
      /\ purchase' = [p \in Purchases |->
                        IF purchase[p].order = o
                        THEN [purchase[p] EXCEPT !.item = NoItem]
                        ELSE purchase[p]]
      /\ user' = [user EXCEPT ![u] = Idle]
      /\ UNCHANGED <<payment, drawn, payable, spent, goods, overlapped>>

\* sendPO and cancelPO.
WriteStatus(u) ==
  LET o == user[u].order
  IN  /\ user[u].do \in {"send", "cancel"}
      /\ order' = [order EXCEPT ![o].status =
                     IF user[u].do = "send" THEN "SENT" ELSE "CANCELLED"]
      /\ user' = [user EXCEPT ![u] = Idle]
      /\ UNCHANGED <<purchase, payment, drawn, payable, spent, goods,
                     overlapped>>

\* receivePO: nothing above what is left of a line that is received (a line
\* overfilled already does not stop the others), a purchase for each line
\* received, and the new status, all by the order and receipts it has read.
MutantWithinLines(t, got) == \A i \in Items : got[i] <= t.lines[i]
WithinLines(t, got) ==
  \A i \in Items : got[i] > 0 => t.before[i] + got[i] <= t.lines[i]
MutantFullyReceived(t, got) ==
  \E i \in Items : got[i] > 0 /\ t.before[i] + got[i] >= t.lines[i]
FullyReceived(t, got) ==
  \A i \in Items : t.before[i] + got[i] >= t.lines[i]

Unused == {p \in Purchases : purchase[p].status = "NONE"}

\* line[p] is the line that purchase p is made for.
WriteReceipt(u, got, pay, line) ==
  LET t == user[u]
      new == DOMAIN line
      cost == [p \in Purchases |-> IF p \in new THEN got[line[p]] ELSE 0]
      paid == IF pay THEN cost ELSE [p \in Purchases |-> 0]
      kind(p) == IF line[p] \in RoastedItems THEN "ROASTED_BEAN" ELSE "OTHER"
  IN  /\ t.do = "receive"
      /\ WithinLines(t, got)
      /\ order[t.order].revision = t.revision \* or its line is gone
      /\ new \subseteq Unused /\ \A p \in new : got[line[p]] > 0
      /\ \A i \in Items : got[i] > 0 => \E p \in new : line[p] = i
      /\ \A p, q \in new : p # q => line[p] # line[q]
      /\ purchase' = [p \in Purchases |->
           IF p \in new
           THEN NewPurchase(kind(p), cost[p], paid[p], t.order, line[p],
                            cost[p])
           ELSE purchase[p]]
      /\ payment' = [k \in Payments |->
           IF k \in new THEN FirstPayment(k, paid[k]) ELSE payment[k]]
      /\ goods' = goods + Total(cost)
      /\ spent' = spent + Total(paid)
      /\ payable' = payable
           + Total([p \in Purchases |-> OnCredit(cost[p], paid[p])])
      /\ order' = [order EXCEPT ![t.order].status =
                     IF FullyReceived(t, got) THEN "RECEIVED" ELSE "PARTIAL"]
      /\ user' = [user EXCEPT ![u] = Idle]
      /\ UNCHANGED <<drawn, overlapped>>

\* Another receipt took the purchase code: the transaction starts again and
\* reads the receipts, but not the order.
RetryReceipt(u) ==
  /\ user[u].do = "receive"
  /\ user' = [user EXCEPT ![u].before =
                [i \in Items |-> Received(user[u].order, i)]]
  /\ UNCHANGED <<order, purchase, payment, drawn, payable, spent, goods,
                 overlapped>>

\* The call fails: a receipt is refused, or the connection is lost.
GiveUp(u) ==
  /\ user[u] # Idle
  /\ user' = [user EXCEPT ![u] = Idle]
  /\ UNCHANGED <<order, purchase, payment, drawn, payable, spent, goods,
                 overlapped>>
-----------------------------------------------------------------------------
Ordering ==
  \/ \E o \in Orders, lines \in Lines : CreateDraftPO(o, lines)
  \/ \E u \in Users :
       \/ WriteStatus(u) \/ RetryReceipt(u) \/ GiveUp(u)
       \/ \E lines \in Lines : WriteUpdate(u, lines)
       \/ \E t \in Requests : Read(u, t)
       \/ /\ user[u].do = "receive"
          /\ \E S \in SUBSET Unused :
               \E line \in [S -> Items], got \in Lines, pay \in BOOLEAN :
                 WriteReceipt(u, got, pay, line)

Paying ==
  \/ \E k \in Payments : VoidSupplierPayment(k)
  \/ \E k \in Keys, p \in Purchases, amount \in 1 .. MaxTotal :
       RecordSupplierPayment(k, p, amount)
  \/ \E p \in Purchases :
       \/ Draw(p) \/ VoidPurchase(p)
       \/ \E kind \in {"ROASTED_BEAN", "OTHER"}, total \in 1 .. MaxTotal :
            \E paid \in 0 .. total : Buy(p, kind, total, paid)

Next == Ordering \/ Paying

Spec == Init /\ [][Next]_vars
-----------------------------------------------------------------------------
(* Properties. *)

\* Types; no account that is only paid into or out of by purchases is ever
\* on the wrong side.
TypeOK ==
  /\ order \in [Orders -> Order]
  /\ purchase \in [Purchases -> Purchase]
  /\ payment \in [Payments -> Payment]
  /\ drawn \subseteq Purchases
  /\ payable \in Nat /\ spent \in Nat /\ goods \in Nat
  /\ user \in [Users -> Task]
  /\ overlapped \subseteq Orders

\* A purchase is paid by its payments that are not void: their sum is what it
\* says, it is no more than the purchase costs, the status says the same, and
\* nothing is left on a purchase that is void
\* (keuangan/actions.ts:1437-1474, 1551-1570; purchase-void.ts:39-61).
PaidBy(p, k) ==
  IF payment[k].status = "ACTIVE" /\ payment[k].of = p
  THEN payment[k].amount ELSE 0
PaidIsPayments ==
  \A p \in Purchases :
    /\ purchase[p].paid = Total([k \in Payments |-> PaidBy(p, k)])
    /\ purchase[p].paid <= purchase[p].total
    /\ purchase[p].paidStatus = PaidStatus(purchase[p].paid,
                                           purchase[p].total)
    /\ purchase[p].status # "COMPLETED" => purchase[p].paid = 0

\* The books: the inventory accounts hold what purchases that are not void
\* cost, the supplier account what is not paid of them yet, whatever was paid
\* with the receipt, later or in parts, and voided (posting.ts:481-611).
Cost(p) == IF purchase[p].status = "COMPLETED" THEN purchase[p].total ELSE 0
Paid(p) == IF purchase[p].status = "COMPLETED" THEN purchase[p].paid ELSE 0
BooksMatchPurchases ==
  /\ goods = Total([p \in Purchases |-> Cost(p)])
  /\ spent = Total([p \in Purchases |-> Paid(p)])
  /\ payable + spent = goods

\* While no two calls about an order overlap, its status is what its receipts
\* say and no line is received beyond what it asks for; a receipt that is
\* void later still counts (po-lite.ts:588-626, 778-803).
OrderIsReceipts ==
  \A o \in Orders \ overlapped :
    LET lacking == {i \in Items : Received(o, i) < order[o].lines[i]}
    IN  /\ \A i \in Items : Received(o, i) <= order[o].lines[i]
        /\ order[o].status = "RECEIVED" => lacking = {}
        /\ order[o].status = "PARTIAL" <=>
             ReceiptsOf(o) # {} /\ lacking # {}
        /\ order[o].status \in {"DRAFT", "SENT", "CANCELLED"} =>
             ReceiptsOf(o) = {}

\* An order that is closed as received has received all of every line: also
\* when calls overlap, and when a receipt completes one line after others have
\* overfilled another; unless its lines were replaced under a receipt
\* (po-lite.ts:594-626, 778-801).
ClosedIsReceived ==
  \A o \in Orders :
    order[o].status = "RECEIVED" =>
      \/ \E p \in ReceiptsOf(o) : purchase[p].item = NoItem
      \/ \A i \in Items : Received(o, i) >= order[o].lines[i]

\* However receipts of an order overlap, each caller can fill a line once at
\* the most: one that looks, or looks again after a collision of codes, when
\* the line is full is refused (po-lite.ts:577, 588-592, 616-626).
OverReceiptBounded ==
  \A o \in Orders, i \in Items :
    Received(o, i) <= Cardinality(Users) * order[o].lines[i]
=============================================================================
