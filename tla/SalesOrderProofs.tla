-------------------------- MODULE SalesOrderProofs --------------------------
(***************************************************************************)
(* Theorems about SalesOrder: type correctness, and the invariants that    *)
(* tie an order's stock, task, ledger and sale journal together, for any   *)
(* set of orders, any number of clerks and any bounds.                     *)
(***************************************************************************)
EXTENDS SalesOrder, SequenceTheorems, TLAPS
-----------------------------------------------------------------------------
(* Lemmas about the operators of the model. *)

\* Max and Min of two integers.
LEMMA MaxOfTwo ==
  ASSUME NEW a \in Int, NEW b \in Int
  PROVE  Max({a, b}) = IF a >= b THEN a ELSE b
<1> DEFINE m == IF a >= b THEN a ELSE b
<1>1. m \in {a, b} /\ \A y \in {a, b} : m >= y
  OBVIOUS
<1>2. \A x \in {a, b} : (\A y \in {a, b} : x >= y) => x = m
  OBVIOUS
<1> QED
  BY <1>1, <1>2 DEF Max

\* The least of two numbers, likewise.
LEMMA MinOfTwo ==
  ASSUME NEW a \in Int, NEW b \in Int
  PROVE  Min({a, b}) = IF a <= b THEN a ELSE b
<1> DEFINE m == IF a <= b THEN a ELSE b
<1>1. m \in {a, b} /\ \A y \in {a, b} : m <= y
  OBVIOUS
<1>2. \A x \in {a, b} : (\A y \in {a, b} : x <= y) => x = m
  OBVIOUS
<1> QED
  BY <1>1, <1>2 DEF Min

\* The journals keep the books well typed.
LEMMA PostingTypes ==
  ASSUME NEW g \in Books(ShippingCosts)
  PROVE  /\ \A a \in Int :
              /\ PostCustomerPrepayment(g, a) \in Books(ShippingCosts)
              /\ PostCustomerPayment(g, a) \in Books(ShippingCosts)
         /\ \A t, p \in Int :
              PostSalesInvoice(g, t, p) \in Books(ShippingCosts)
         /\ ReverseSalesInvoice(g) \in Books(ShippingCosts)
         /\ \A a, b \in Int : PostCreditNote(g, a, b) \in Books(ShippingCosts)
         /\ \A a, b \in ShippingCosts :
              PostShippingAdjustment(g, a, b) \in Books(ShippingCosts)
<1>1. \A a \in Int : /\ PostCustomerPrepayment(g, a) \in Books(ShippingCosts)
                     /\ PostCustomerPayment(g, a) \in Books(ShippingCosts)
  BY DEF PostCustomerPrepayment, PostCustomerPayment, Books
<1>2. ASSUME NEW t \in Int, NEW p \in Int
      PROVE  PostSalesInvoice(g, t, p) \in Books(ShippingCosts)
  <2> DEFINE h1 == [g EXCEPT !.sale = "POSTED"]
             h2 == [h1 EXCEPT !.saleAr = t - p]
             h3 == [h2 EXCEPT !.saleDeposit = p]
             h4 == [h3 EXCEPT !.ar = @ + (t - p)]
             h5 == [h4 EXCEPT !.deposit = @ - p]
  <2>1. h1 \in Books(ShippingCosts)
    BY DEF Books, SaleStates
  <2>2. h2 \in Books(ShippingCosts)
    <3> HIDE DEF h1
    <3> QED BY <2>1 DEF Books
  <2>3. h3 \in Books(ShippingCosts)
    <3> HIDE DEF h2
    <3> QED BY <2>2 DEF Books
  <2>4. h4 \in Books(ShippingCosts)
    <3> HIDE DEF h3
    <3> QED BY <2>3 DEF Books
  <2>5. h5 \in Books(ShippingCosts)
    <3> HIDE DEF h4
    <3> QED BY <2>4 DEF Books
  <2>6. PostSalesInvoice(g, t, p) \in {g, h5}
    BY DEF PostSalesInvoice
  <2> HIDE DEF h5
  <2> QED
    BY <2>5, <2>6
<1>3. ReverseSalesInvoice(g) \in Books(ShippingCosts)
  <2> DEFINE h1 == [g EXCEPT !.sale = "REVERSED"]
             h2 == [h1 EXCEPT !.ar = @ - g.saleAr]
             h3 == [h2 EXCEPT !.deposit = @ + g.saleDeposit]
  <2>1. h1 \in Books(ShippingCosts)
    BY DEF Books, SaleStates
  <2>2. h2 \in Books(ShippingCosts)
    <3> HIDE DEF h1
    <3> QED BY <2>1 DEF Books
  <2>3. h3 \in Books(ShippingCosts)
    <3> HIDE DEF h2
    <3> QED BY <2>2 DEF Books
  <2>4. ReverseSalesInvoice(g) \in {g, h3}
    BY DEF ReverseSalesInvoice
  <2> HIDE DEF h3
  <2> QED
    BY <2>3, <2>4
<1>4. ASSUME NEW a \in Int, NEW b \in Int
      PROVE  PostCreditNote(g, a, b) \in Books(ShippingCosts)
  <2> DEFINE h1 == [g EXCEPT !.ar = @ - a]
             h2 == [h1 EXCEPT !.refund = @ + b]
  <2>1. h1 \in Books(ShippingCosts)
    BY DEF Books
  <2>2. h2 \in Books(ShippingCosts)
    <3> HIDE DEF h1
    <3> QED BY <2>1 DEF Books
  <2>3. PostCreditNote(g, a, b) = h2
    BY DEF PostCreditNote
  <2> HIDE DEF h2
  <2> QED
    BY <2>2, <2>3
<1>5. ASSUME NEW a \in ShippingCosts, NEW b \in ShippingCosts
      PROVE  PostShippingAdjustment(g, a, b) \in Books(ShippingCosts)
  <2> DEFINE h1 == [g EXCEPT !.ar = @ + (b - a)]
             h2 == [h1 EXCEPT !.shipRefs = @ \cup {<<a, b>>}]
  <2>1. h1 \in Books(ShippingCosts)
    BY CostsAssumption DEF Books
  <2>2. h2 \in Books(ShippingCosts)
    <3> HIDE DEF h1
    <3> QED BY <2>1 DEF Books
  <2>3. PostShippingAdjustment(g, a, b) \in {g, h2}
    BY DEF PostShippingAdjustment
  <2> HIDE DEF h2
  <2> QED
    BY <2>2, <2>3
<1> QED
  BY <1>1, <1>2, <1>3, <1>4, <1>5

\* What the journals do to the state of the sale journal.
LEMMA PostingSale ==
  ASSUME NEW g \in Books(ShippingCosts)
  PROVE  /\ \A p \in Payment : /\ PostPayment(g, p).sale = g.sale
                              /\ ReversePayment(g, p).sale = g.sale
         /\ \A t, p : PostSalesInvoice(g, t, p).sale # "NONE"
         /\ ReverseSalesInvoice(g).sale = "NONE" <=> g.sale = "NONE"
         /\ \A a, b : PostCreditNote(g, a, b).sale = g.sale
         /\ \A k \in ClerkState : ShippingBooks(g, k).sale = g.sale
<1>1. \A p \in Payment : /\ PostPayment(g, p).sale = g.sale
                         /\ ReversePayment(g, p).sale = g.sale
  BY DEF PostPayment, ReversePayment, PostCustomerPrepayment,
         PostCustomerPayment, Books
<1>2. \A t, p : PostSalesInvoice(g, t, p).sale # "NONE"
  BY DEF PostSalesInvoice, Books
<1>3. ReverseSalesInvoice(g).sale = "NONE" <=> g.sale = "NONE"
  BY DEF ReverseSalesInvoice, Books
<1>4. \A a, b : PostCreditNote(g, a, b).sale = g.sale
  BY DEF PostCreditNote, Books
<1>5. \A k \in ClerkState : ShippingBooks(g, k).sale = g.sale
  BY DEF ShippingBooks, PostShippingAdjustment, Books
<1> QED
  BY <1>1, <1>2, <1>3, <1>4, <1>5

\* The updates of an invoice keep it well typed.
LEMMA InvoiceTypes ==
  ASSUME NEW i \in Invoice
  PROVE  /\ \A paid \in Nat, s \in Statuses, f \in Fulfillments :
              SetPaid(i, paid, s, f) \in Invoice
         /\ Voided(i) \in Invoice
         /\ \A n \in Nat : Credited(i, n) \in Invoice
         /\ \A k \in ClerkState : ShippingInvoice(i, k) \in Invoice
<1>1. ASSUME NEW paid \in Nat, NEW s \in Statuses, NEW f \in Fulfillments
      PROVE  SetPaid(i, paid, s, f) \in Invoice
  <2> DEFINE h1 == [i EXCEPT !.paid = paid]
             h2 == [h1 EXCEPT !.status = s]
             h3 == [h2 EXCEPT !.ful = f]
  <2>1. h1 \in Invoice
    BY DEF Invoice
  <2>2. h2 \in Invoice
    <3> HIDE DEF h1
    <3> QED BY <2>1 DEF Invoice
  <2>3. h3 \in Invoice
    <3> HIDE DEF h2
    <3> QED BY <2>2 DEF Invoice
  <2>4. SetPaid(i, paid, s, f) = h3
    BY DEF SetPaid
  <2> HIDE DEF h3
  <2> QED
    BY <2>3, <2>4
<1>2. Voided(i) \in Invoice
  <2> DEFINE h1 == [i EXCEPT !.status = "VOID"]
             h2 == [h1 EXCEPT !.ful = "CANCELLED"]
  <2>1. h1 \in Invoice
    BY DEF Invoice, Statuses
  <2>2. h2 \in Invoice
    <3> HIDE DEF h1
    <3> QED BY <2>1 DEF Invoice, Fulfillments
  <2>3. Voided(i) = h2
    BY DEF Voided
  <2> HIDE DEF h2
  <2> QED
    BY <2>2, <2>3
<1>3. ASSUME NEW n \in Nat
      PROVE  Credited(i, n) \in Invoice
  <2> DEFINE h1 == [i EXCEPT !.returned = @ + n]
             h2 == [h1 EXCEPT !.status = IF i.returned + n = i.qty
                                         THEN "RETURNED" ELSE @]
  <2>1. h1 \in Invoice
    BY DEF Invoice
  <2>2. h2 \in Invoice
    <3> HIDE DEF h1
    <3> QED BY <2>1 DEF Invoice, Statuses
  <2>3. Credited(i, n) = h2
    BY DEF Credited
  <2> HIDE DEF h2
  <2> QED
    BY <2>2, <2>3
<1>4. ASSUME NEW k \in ClerkState
      PROVE  ShippingInvoice(i, k) \in Invoice
  <2> DEFINE h1 == [i EXCEPT !.ful = IF k.next = "SAME" THEN @ ELSE k.next]
             h2 == [h1 EXCEPT !.ship = IF k.newShip = NoCost THEN @
                                                           ELSE k.newShip]
  <2>1. h1 \in Invoice
    BY DEF Invoice, Fulfillments, ClerkState, OperatorTargets
  <2>2. h2 \in Invoice
    <3> HIDE DEF h1
    <3> QED BY <2>1 DEF Invoice, ClerkState
  <2>3. ShippingInvoice(i, k) = h2
    BY DEF ShippingInvoice
  <2> HIDE DEF h2
  <2> QED
    BY <2>2, <2>3
<1> QED
  BY <1>1, <1>2, <1>3, <1>4

\* Which fields of an invoice they leave alone.
LEMMA InvoiceFields ==
  ASSUME NEW i \in Invoice
  PROVE  /\ \A paid, s, f : /\ SetPaid(i, paid, s, f).qty = i.qty
                            /\ SetPaid(i, paid, s, f).kind = i.kind
                            /\ SetPaid(i, paid, s, f).status = s
         /\ Voided(i).qty = i.qty /\ Voided(i).kind = i.kind
         /\ Voided(i).status = "VOID"
         /\ \A n : /\ Credited(i, n).qty = i.qty
                   /\ Credited(i, n).kind = i.kind
                   /\ Credited(i, n).status \in {i.status, "RETURNED"}
         /\ \A k : /\ ShippingInvoice(i, k).qty = i.qty
                   /\ ShippingInvoice(i, k).kind = i.kind
                   /\ ShippingInvoice(i, k).status = i.status
<1>1. \A paid, s, f : /\ SetPaid(i, paid, s, f).qty = i.qty
                     /\ SetPaid(i, paid, s, f).kind = i.kind
                     /\ SetPaid(i, paid, s, f).status = s
  BY DEF SetPaid, Invoice
<1>2. /\ Voided(i).qty = i.qty /\ Voided(i).kind = i.kind
      /\ Voided(i).status = "VOID"
  BY DEF Voided, Invoice
<1>3. \A n : /\ Credited(i, n).qty = i.qty
            /\ Credited(i, n).kind = i.kind
            /\ Credited(i, n).status \in {i.status, "RETURNED"}
  BY DEF Credited, Invoice
<1>4. \A k : /\ ShippingInvoice(i, k).qty = i.qty
            /\ ShippingInvoice(i, k).kind = i.kind
            /\ ShippingInvoice(i, k).status = i.status
  BY DEF ShippingInvoice, Invoice
<1> QED
  BY <1>1, <1>2, <1>3, <1>4
-----------------------------------------------------------------------------
(* Type correctness. *)

\* A call of updateInvoiceShipping that is under way has an order.
ClerkHasOrder ==
  \A c \in Clerks : clerk[c].pc # "idle" => clerk[c].order \in Orders

TypeInv == TypeOK /\ ClerkHasOrder

\* What TypeOK says of the rows of one order.
LEMMA RowTypes ==
  ASSUME TypeOK, NEW o \in Orders
  PROVE  /\ inv[o] \in Invoice
         /\ inv[o].qty \in Nat /\ inv[o].ship \in Nat /\ inv[o].paid \in Nat
         /\ inv[o].returned \in Nat /\ inv[o].ful \in Fulfillments
         /\ inv[o].ship \in ShippingCosts
         /\ GrandTotal(o) \in Nat
         /\ resv[o] \in Reservation /\ resv[o].qty \in Nat
         /\ task[o] \in Task /\ task[o].shortage \in Nat
         /\ ledger[o] \in LedgerSums
         /\ ledger[o].out \in Nat /\ ledger[o].void \in Nat
         /\ pay[o] \in Seq(Payment)
         /\ books[o] \in Books(ShippingCosts)
<1>1. inv[o] \in Invoice /\ inv[o].ship \in ShippingCosts
  BY DEF TypeOK, Invoice
<1>2. /\ inv[o].qty \in Nat /\ inv[o].ship \in Nat /\ inv[o].paid \in Nat
      /\ inv[o].returned \in Nat /\ inv[o].ful \in Fulfillments
  BY <1>1, CostsAssumption DEF Invoice
<1>3. GrandTotal(o) \in Nat
  BY <1>2 DEF GrandTotal
<1>4. /\ resv[o] \in Reservation /\ resv[o].qty \in Nat
      /\ task[o] \in Task /\ task[o].shortage \in Nat
  BY DEF TypeOK, Reservation, Task
<1>5. /\ ledger[o] \in LedgerSums
      /\ ledger[o].out \in Nat /\ ledger[o].void \in Nat
  BY DEF TypeOK, LedgerSums
<1>6. pay[o] \in Seq(Payment) /\ books[o] \in Books(ShippingCosts)
  BY DEF TypeOK
<1> QED
  BY <1>1, <1>2, <1>3, <1>4, <1>5, <1>6

\* New rows, and the journal of a payment, are well typed.
LEMMA NewRowTypes ==
  /\ \A kind \in AllKinds, q \in Nat, s \in Statuses, f \in Fulfillments,
        paid \in Nat : NewInvoice(kind, q, s, f, paid) \in Invoice
  /\ \A a \in Nat, book \in {"PREPAYMENT", "RECEIVABLE"},
        by \in {"STAFF", "PROOF", "MIDTRANS"} :
       NewPayment(a, book, by) \in Payment
  /\ \A q \in Nat : \A got \in 0 .. q : NewTask(q, got) \in Task
  /\ \A r \in Reservation : Consumed(r) \in Reservation
<1>1. \A kind \in AllKinds, q \in Nat, s \in Statuses, f \in Fulfillments,
         paid \in Nat : NewInvoice(kind, q, s, f, paid) \in Invoice
  BY CostsAssumption DEF NewInvoice, Invoice
<1>2. \A a \in Nat, book \in {"PREPAYMENT", "RECEIVABLE"},
         by \in {"STAFF", "PROOF", "MIDTRANS"} :
        NewPayment(a, book, by) \in Payment
  BY DEF NewPayment, Payment
<1>3. \A q \in Nat : \A got \in 0 .. q : NewTask(q, got) \in Task
  BY DEF NewTask, Task
<1>4. \A r \in Reservation : Consumed(r) \in Reservation
  BY DEF Consumed, Reservation
<1> QED
  BY <1>1, <1>2, <1>3, <1>4

\* The payment journals keep the books typed.
LEMMA PaymentPostingTypes ==
  ASSUME NEW g \in Books(ShippingCosts), NEW p \in Payment
  PROVE  /\ PostPayment(g, p) \in Books(ShippingCosts)
         /\ ReversePayment(g, p) \in Books(ShippingCosts)
<1>1. p.amount \in Int /\ 0 - p.amount \in Int
  BY DEF Payment
<1> QED
  BY <1>1, PostingTypes DEF PostPayment, ReversePayment

\* The initial state is typed, and no clerk is at work.
LEMMA InitTypes == Init => TypeInv
<1> SUFFICES ASSUME Init PROVE TypeInv
  OBVIOUS
<1>1. stock \in Nat /\ otherOut \in Nat
  BY BoundsAssumption DEF Init
<1>2. inv \in [Orders -> Invoice]
  BY NewRowTypes DEF Init, NoInvoice, AllKinds, Statuses, Fulfillments
<1>3. /\ resv \in [Orders -> Reservation] /\ task \in [Orders -> Task]
      /\ ledger \in [Orders -> LedgerSums]
  BY DEF Init, Reservation, Task, LedgerSums
<1>4. demand \in Seq(Orders) /\ pay \in [Orders -> Seq(Payment)]
  BY DEF Init
<1>5. sub \in [Orders -> Submission]
  BY DEF Init, Submission
<1>6. books \in [Orders -> Books(ShippingCosts)]
  BY DEF Init, NoBooks, Books, SaleStates
<1>7. clerk \in [Clerks -> ClerkState] /\ ClerkHasOrder
  BY CostsAssumption DEF Init, Idle, ClerkState, ClerkHasOrder, OperatorTargets
<1>8. /\ picked \in SUBSET Orders /\ accepted \in SUBSET Orders
      /\ uploads \in SUBSET Orders
  BY DEF Init
<1> QED
  BY <1>1, <1>2, <1>3, <1>4, <1>5, <1>6, <1>7, <1>8 DEF TypeInv, TypeOK

\* ReserveInvoiceStock keeps reservations, tasks and the demand well typed.
LEMMA ReserveTypes ==
  ASSUME TypeOK, NEW o \in Orders, NEW q \in Nat, ReserveInvoiceStock(o, q)
  PROVE  /\ resv' \in [Orders -> Reservation]
         /\ task' \in [Orders -> Task]
         /\ demand' \in Seq(Orders)
<1>1. PICK got \in 0 .. q :
        /\ resv' = [resv EXCEPT ![o] =
                      IF got > 0 THEN [status |-> "ACTIVE", qty |-> got]
                                 ELSE @]
        /\ task' = [task EXCEPT ![o] = IF got < q THEN NewTask(q, got) ELSE @]
        /\ demand' = IF got < q THEN Append(demand, o) ELSE demand
  BY DEF ReserveInvoiceStock
<1>2. [status |-> "ACTIVE", qty |-> got] \in Reservation
  BY DEF Reservation
<1>3. NewTask(q, got) \in Task
  BY NewRowTypes
<1>4. Append(demand, o) \in Seq(Orders)
  BY DEF TypeOK
<1> QED
  BY <1>1, <1>2, <1>3, <1>4 DEF TypeOK

\* Placing an order keeps the types: walk-in, invoice and checkout.
LEMMA PlacingTypes ==
  ASSUME TypeInv, Placing
  PROVE  TypeInv'
<1> USE DEF TypeInv
<1>1. PICK o \in Orders, q \in Qtys :
        \/ WalkInSale(o, q)
        \/ \E kind \in Kinds, paidNow \in BOOLEAN :
             CreateInvoice(o, q, kind, paidNow)
        \/ \E kind \in Kinds : Checkout(o, q, kind)
  BY DEF Placing
<1>2. q \in Nat /\ q > 0 /\ Kinds \subseteq AllKinds
  BY BoundsAssumption, KindsAssumption DEF Qtys
<1>3. NewPayment(q, "PREPAYMENT", "STAFF") \in Payment
  BY <1>2, NewRowTypes
<1>4. <<NewPayment(q, "PREPAYMENT", "STAFF")>> \in Seq(Payment)
  BY <1>3
<1>5. PostPayment(books[o], NewPayment(q, "PREPAYMENT", "STAFF"))
        \in Books(ShippingCosts)
  BY <1>3, RowTypes, PaymentPostingTypes
<1>6. CASE WalkInSale(o, q)
  <2>1. NewInvoice("WALK_IN", q, "PAID", "DELIVERED", q) \in Invoice
    BY <1>2, NewRowTypes DEF AllKinds, Statuses, Fulfillments
  <2>2. inv' \in [Orders -> Invoice]
    BY <1>6, <2>1 DEF WalkInSale, TypeOK
  <2>3. stock' \in Nat
    BY <1>6, <1>2 DEF WalkInSale, TypeOK, InStock
  <2>4. ledger' \in [Orders -> LedgerSums]
    BY <1>6, <1>2 DEF WalkInSale, TypeOK, LedgerSums
  <2> DEFINE g == PostPayment(books[o], NewPayment(q, "PREPAYMENT", "STAFF"))
  <2>5. PostSalesInvoice(g, q, q) \in Books(ShippingCosts)
    <3>1. g \in Books(ShippingCosts)
      BY <1>5
    <3> HIDE DEF g
    <3> QED
      BY <3>1, <1>2, PostingTypes
  <2>6. /\ pay' \in [Orders -> Seq(Payment)]
        /\ books' \in [Orders -> Books(ShippingCosts)]
    BY <1>6, <1>4, <2>5 DEF WalkInSale, TypeOK
  <2> QED
    BY <1>6, <2>2, <2>3, <2>4, <2>6 DEF WalkInSale, TypeOK, ClerkHasOrder
<1>7. ASSUME NEW kind \in Kinds, NEW paidNow \in BOOLEAN,
             CreateInvoice(o, q, kind, paidNow)
      PROVE  TypeInv'
  <2>1. \A s \in {"PAID", "ISSUED"}, paid \in {0, q},
           f \in {"NEEDS_PRODUCTION", "READY_TO_PACK", "AWAITING_PAYMENT"} :
          NewInvoice(kind, q, s, f, paid) \in Invoice
    BY <1>2, NewRowTypes DEF Statuses, Fulfillments
  <2>2. inv' \in [Orders -> Invoice]
    BY <1>7, <2>1 DEF CreateInvoice, TypeOK
  <2>3. /\ pay' \in [Orders -> Seq(Payment)]
        /\ books' \in [Orders -> Books(ShippingCosts)]
    BY <1>7, <1>4, <1>5 DEF CreateInvoice, TypeOK
  <2>4. /\ resv' \in [Orders -> Reservation] /\ task' \in [Orders -> Task]
        /\ demand' \in Seq(Orders)
    BY <1>7, <1>2, ReserveTypes DEF CreateInvoice
  <2> QED
    BY <1>7, <2>2, <2>3, <2>4 DEF CreateInvoice, TypeOK, ClerkHasOrder
<1>8. ASSUME NEW kind \in Kinds, Checkout(o, q, kind)
      PROVE  TypeInv'
  <2>1. \A f \in {"NEEDS_PRODUCTION", "READY_TO_PACK", "AWAITING_PAYMENT"} :
          NewInvoice(kind, q, "ISSUED", f, 0) \in Invoice
    BY <1>2, NewRowTypes DEF Statuses, Fulfillments
  <2>2. inv' \in [Orders -> Invoice]
    BY <1>8, <2>1 DEF Checkout, TypeOK
  <2>3. sub' \in [Orders -> Submission]
    BY <1>8 DEF Checkout, TypeOK, Submission
  <2>4. /\ resv' \in [Orders -> Reservation] /\ task' \in [Orders -> Task]
        /\ demand' \in Seq(Orders)
    BY <1>8, <1>2, ReserveTypes DEF Checkout
  <2> QED
    BY <1>8, <2>2, <2>3, <2>4 DEF Checkout, TypeOK, ClerkHasOrder
<1> QED
  BY <1>1, <1>6, <1>7, <1>8

\* Appending a payment, and marking one void, keep the payments well typed.
LEMMA PaymentRowTypes ==
  ASSUME TypeOK, NEW o \in Orders
  PROVE  /\ \A p \in Payment :
              [pay EXCEPT ![o] = Append(@, p)] \in [Orders -> Seq(Payment)]
         /\ \A i \in DOMAIN pay[o] :
              /\ pay[o][i] \in Payment
              /\ [pay EXCEPT ![o][i].live = FALSE] \in [Orders -> Seq(Payment)]
<1>1. pay \in [Orders -> Seq(Payment)] /\ pay[o] \in Seq(Payment)
  BY DEF TypeOK
<1>2. ASSUME NEW p \in Payment
      PROVE  [pay EXCEPT ![o] = Append(@, p)] \in [Orders -> Seq(Payment)]
  BY <1>1
<1>3. ASSUME NEW i \in DOMAIN pay[o]
      PROVE  /\ pay[o][i] \in Payment
             /\ [pay EXCEPT ![o][i].live = FALSE] \in [Orders -> Seq(Payment)]
  <2>1. i \in 1 .. Len(pay[o]) /\ pay[o][i] \in Payment
    BY <1>1, ElementOfSeq
  <2> DEFINE r == [pay[o][i] EXCEPT !.live = FALSE]
             s == [pay[o] EXCEPT ![i] = r]
  <2>2. r \in Payment
    BY <2>1 DEF Payment
  <2>3. s \in Seq(Payment)
    <3> HIDE DEF r
    <3> QED BY <1>1, <2>1, <2>2, ExceptSeq
  <2>4. [pay EXCEPT ![o][i].live = FALSE] = [pay EXCEPT ![o] = s]
    BY <1>1, <2>1
  <2> HIDE DEF s
  <2> QED
    BY <1>1, <2>1, <2>3, <2>4
<1> QED
  BY <1>2, <1>3

\* Paying keeps the types: recorded, verified, voided and uploaded payments.
LEMMA PayingTypes ==
  ASSUME TypeInv, Paying
  PROVE  TypeInv'
<1> USE DEF TypeInv
<1>1. ASSUME NEW o \in Orders, NEW amount \in Nat, RecordPayment(o, amount)
      PROVE  TypeInv'
  <2> DEFINE paid == inv[o].paid + amount
             status == IF paid >= GrandTotal(o) THEN "PAID" ELSE "PARTIAL"
             settled == SettledBeforeHandover(o)
             ful == IF settled /\ paid >= GrandTotal(o)
                    THEN FulfillmentWhenPaid(o) ELSE inv[o].ful
             p == NewPayment(amount, IF settled THEN "PREPAYMENT"
                                                ELSE "RECEIVABLE", "STAFF")
  <2>1. SetPaid(inv[o], paid, status, ful) \in Invoice
    <3>1. paid \in Nat /\ status \in Statuses /\ ful \in Fulfillments
      BY RowTypes DEF Statuses, Fulfillments, FulfillmentWhenPaid
    <3> HIDE DEF paid, status, ful
    <3> QED BY <3>1, RowTypes, InvoiceTypes
  <2>2. p \in Payment
    BY NewRowTypes
  <2>3. /\ inv' = [inv EXCEPT ![o] = SetPaid(@, paid, status, ful)]
        /\ pay' = [pay EXCEPT ![o] = Append(@, p)]
        /\ books' = [books EXCEPT ![o] = PostPayment(@, p)]
    BY <1>1 DEF RecordPayment
  <2> HIDE DEF p, paid, status, ful
  <2>4. /\ inv' \in [Orders -> Invoice] /\ pay' \in [Orders -> Seq(Payment)]
        /\ books' \in [Orders -> Books(ShippingCosts)]
    BY <2>1, <2>2, <2>3, RowTypes, PaymentRowTypes, PaymentPostingTypes
       DEF TypeOK
  <2> QED
    BY <1>1, <2>4 DEF RecordPayment, TypeOK, ClerkHasOrder
<1>2. ASSUME NEW o \in Orders, NEW amount \in Nat, VerifySubmission(o, amount)
      PROVE  TypeInv'
  <2> DEFINE paid == inv[o].paid + amount
             full == paid >= GrandTotal(o) - inv[o].returned
             status == IF full THEN "PAID" ELSE "PARTIAL"
             ful == IF full THEN FulfillmentWhenPaid(o) ELSE inv[o].ful
             p == NewPayment(amount, "PREPAYMENT", "PROOF")
  <2>1. SetPaid(inv[o], paid, status, ful) \in Invoice
    <3>1. paid \in Nat /\ status \in Statuses /\ ful \in Fulfillments
      BY RowTypes DEF Statuses, Fulfillments, FulfillmentWhenPaid
    <3> HIDE DEF paid, status, ful
    <3> QED BY <3>1, RowTypes, InvoiceTypes
  <2>2. p \in Payment
    BY NewRowTypes
  <2>3. /\ inv' = [inv EXCEPT ![o] = SetPaid(@, paid, status, ful)]
        /\ pay' = [pay EXCEPT ![o] = Append(@, p)]
        /\ books' = [books EXCEPT ![o] = PostPayment(@, p)]
    BY <1>2 DEF VerifySubmission
  <2>4. sub' \in [Orders -> Submission] /\ uploads' \in SUBSET Orders
    BY <1>2 DEF VerifySubmission, TypeOK, Submission
  <2> HIDE DEF p, paid, status, ful
  <2>5. /\ inv' \in [Orders -> Invoice] /\ pay' \in [Orders -> Seq(Payment)]
        /\ books' \in [Orders -> Books(ShippingCosts)]
    BY <2>1, <2>2, <2>3, RowTypes, PaymentRowTypes, PaymentPostingTypes
       DEF TypeOK
  <2> QED
    BY <1>2, <2>4, <2>5 DEF VerifySubmission, TypeOK, ClerkHasOrder
<1>3. ASSUME NEW o \in Orders, NEW i \in DOMAIN pay[o], VoidPayment(o, i)
      PROVE  TypeInv'
  <2> DEFINE p == pay[o][i]
             paid == Max({0, inv[o].paid - p.amount})
             ful == IF inv[o].ful = "READY_TO_PACK" /\ inv[o].kind # "CREDIT"
                    THEN "AWAITING_PAYMENT" ELSE inv[o].ful
  <2>1. p \in Payment /\ p.amount \in Nat
    BY PaymentRowTypes DEF Payment
  <2>2. paid \in Nat
    <3> DEFINE rest == inv[o].paid - p.amount
    <3>1. rest \in Int
      BY <2>1, RowTypes
    <3> HIDE DEF rest
    <3>2. Max({0, rest}) \in Nat
      BY <3>1, MaxOfTwo
    <3> QED
      BY <3>2 DEF rest
  <2>3. SetPaid(inv[o], paid, StatusAfterVoid(paid), ful) \in Invoice
    <3>1. StatusAfterVoid(paid) \in Statuses /\ ful \in Fulfillments
      BY RowTypes DEF Statuses, Fulfillments, StatusAfterVoid
    <3> HIDE DEF paid, ful
    <3> QED BY <2>2, <3>1, RowTypes, InvoiceTypes
  <2>4. /\ inv' = [inv EXCEPT ![o] =
                     SetPaid(@, paid, StatusAfterVoid(paid), ful)]
        /\ pay' = [pay EXCEPT ![o][i].live = FALSE]
        /\ books' = [books EXCEPT ![o] = ReversePayment(@, p)]
    BY <1>3 DEF VoidPayment
  <2> HIDE DEF p, paid, ful
  <2>5. /\ inv' \in [Orders -> Invoice] /\ pay' \in [Orders -> Seq(Payment)]
        /\ books' \in [Orders -> Books(ShippingCosts)]
    BY <2>1, <2>3, <2>4, RowTypes, PaymentRowTypes, PaymentPostingTypes
       DEF TypeOK
  <2> QED
    BY <1>3, <2>5 DEF VoidPayment, TypeOK, ClerkHasOrder
<1>4. ASSUME NEW o \in Orders,
             \/ ReadSubmission(o) \/ \E more \in BOOLEAN : WriteProof(o, more)
             \/ SubmitProofLate(o) \/ RejectSubmission(o)
      PROVE  TypeInv'
  <2>1. uploads' \in SUBSET Orders
    BY <1>4 DEF ReadSubmission, WriteProof, SubmitProofLate, RejectSubmission,
                TypeOK
  <2>2. \A s \in {"AWAITING_VERIFICATION", "EXPIRED", "REJECTED"} :
          [sub EXCEPT ![o].status = s] \in [Orders -> Submission]
    BY DEF TypeOK, Submission
  <2>3. sub' \in [Orders -> Submission]
    BY <1>4, <2>2 DEF ReadSubmission, WriteProof, SubmitProofLate,
                      RejectSubmission, TypeOK
  <2> QED
    BY <1>4, <2>1, <2>3 DEF ReadSubmission, WriteProof, SubmitProofLate,
                            RejectSubmission, TypeOK, ClerkHasOrder
<1>5. \A amount \in 1 .. MaxAmount : amount \in Nat
  OBVIOUS
<1> QED
  BY <1>1, <1>2, <1>3, <1>4, <1>5 DEF Paying

\* Handling a notification keeps the types.
LEMMA WebhookTypes ==
  ASSUME TypeInv, NEW o \in Orders,
         \/ WebhookSettlement(o) \/ WebhookFailure(o)
         \/ WebhookIgnored(o) \/ WebhookAccept(o)
  PROVE  TypeInv'
<1> USE DEF TypeInv
<1>1. CASE WebhookSettlement(o)
  <2> DEFINE amount == inv[o].qty
             paid == inv[o].paid + amount
             ful == FulfillmentWhenPaid(o)
             p == NewPayment(amount, "PREPAYMENT", "MIDTRANS")
  <2>1. SetPaid(inv[o], paid, "PAID", ful) \in Invoice
    <3>1. paid \in Nat /\ "PAID" \in Statuses /\ ful \in Fulfillments
      BY RowTypes DEF Statuses, Fulfillments, FulfillmentWhenPaid
    <3> HIDE DEF paid, ful
    <3> QED BY <3>1, RowTypes, InvoiceTypes
  <2>2. p \in Payment
    BY RowTypes, NewRowTypes
  <2>3. /\ inv' = [inv EXCEPT ![o] = SetPaid(@, paid, "PAID", ful)]
        /\ pay' = [pay EXCEPT ![o] = Append(@, p)]
        /\ books' = [books EXCEPT ![o] = PostPayment(@, p)]
    BY <1>1 DEF WebhookSettlement
  <2> HIDE DEF p, paid, ful
  <2>4. /\ inv' \in [Orders -> Invoice] /\ pay' \in [Orders -> Seq(Payment)]
        /\ books' \in [Orders -> Books(ShippingCosts)]
    BY <2>1, <2>2, <2>3, RowTypes, PaymentRowTypes, PaymentPostingTypes
       DEF TypeOK
  <2> QED
    BY <1>1, <2>4 DEF WebhookSettlement, TypeOK, ClerkHasOrder
<1>2. CASE WebhookFailure(o)
  <2>1. inv' \in [Orders -> Invoice]
    BY <1>2, RowTypes, InvoiceTypes DEF WebhookFailure, MarkVoid, TypeOK
  <2>2. books' \in [Orders -> Books(ShippingCosts)]
    BY <1>2, RowTypes, PostingTypes DEF WebhookFailure, TypeOK
  <2>3. stock' \in Nat /\ ledger' \in [Orders -> LedgerSums]
    BY <1>2, RowTypes DEF WebhookFailure, ReverseSaleEntries, TypeOK,
                          LedgerSums
  <2> QED
    BY <1>2, <2>1, <2>2, <2>3 DEF WebhookFailure, TypeOK, ClerkHasOrder
<1>3. CASE WebhookIgnored(o) \/ WebhookAccept(o)
  BY <1>3 DEF WebhookIgnored, WebhookAccept, TypeOK, ClerkHasOrder
<1> QED
  BY <1>1, <1>2, <1>3

\* What the actions that call an order off share.
LEMMA CallOffTypes ==
  ASSUME TypeOK, NEW o \in Orders
  PROVE  /\ MarkVoid(o) => inv' \in [Orders -> Invoice]
         /\ \A to \in {"RELEASED", "EXPIRED"} : ReleaseReservation(o, to) =>
              /\ resv' \in [Orders -> Reservation]
              /\ task' \in [Orders -> Task]
         /\ ReverseSaleEntries(o) =>
              stock' \in Nat /\ ledger' \in [Orders -> LedgerSums]
         /\ [books EXCEPT ![o] = ReverseSalesInvoice(@)]
              \in [Orders -> Books(ShippingCosts)]
<1>1. MarkVoid(o) => inv' \in [Orders -> Invoice]
  BY RowTypes, InvoiceTypes DEF MarkVoid, TypeOK
<1>2. ASSUME NEW to \in {"RELEASED", "EXPIRED"}, ReleaseReservation(o, to)
      PROVE  resv' \in [Orders -> Reservation] /\ task' \in [Orders -> Task]
  <2>1. resv' \in [Orders -> Reservation]
    BY <1>2 DEF ReleaseReservation, TypeOK, Reservation
  <2>2. task' \in [Orders -> Task]
    BY <1>2 DEF ReleaseReservation, TypeOK, Task
  <2> QED
    BY <2>1, <2>2
<1>3. ASSUME ReverseSaleEntries(o)
      PROVE  stock' \in Nat /\ ledger' \in [Orders -> LedgerSums]
  BY <1>3, RowTypes DEF ReverseSaleEntries, TypeOK, LedgerSums
<1>4. [books EXCEPT ![o] = ReverseSalesInvoice(@)]
        \in [Orders -> Books(ShippingCosts)]
  BY RowTypes, PostingTypes DEF TypeOK
<1> QED
  BY <1>1, <1>2, <1>3, <1>4

\* Voiding and expiring an order keep the types.
LEMMA CallingOffTypes ==
  ASSUME TypeInv, NEW o \in Orders,
         VoidInvoice(o) \/ ExpireSubmission(o) \/ ExpireOrder(o)
  PROVE  TypeInv'
<1> USE DEF TypeInv
<1>1. CASE VoidInvoice(o)
  <2>1. inv' \in [Orders -> Invoice]
    BY <1>1, CallOffTypes DEF VoidInvoice
  <2>2. resv' \in [Orders -> Reservation] /\ task' \in [Orders -> Task]
    BY <1>1, CallOffTypes DEF VoidInvoice, TypeOK
  <2>3. stock' \in Nat /\ ledger' \in [Orders -> LedgerSums]
    BY <1>1, CallOffTypes DEF VoidInvoice, TypeOK
  <2>4. books' \in [Orders -> Books(ShippingCosts)]
    BY <1>1, CallOffTypes DEF VoidInvoice, TypeOK
  <2> QED
    BY <1>1, <2>1, <2>2, <2>3, <2>4 DEF VoidInvoice, TypeOK, ClerkHasOrder
<1>2. CASE ExpireSubmission(o)
  <2>1. sub' \in [Orders -> Submission]
    BY <1>2 DEF ExpireSubmission, TypeOK, Submission
  <2>2. inv' \in [Orders -> Invoice]
    BY <1>2, CallOffTypes DEF ExpireSubmission, TypeOK
  <2>3. resv' \in [Orders -> Reservation] /\ task' \in [Orders -> Task]
    BY <1>2, CallOffTypes DEF ExpireSubmission, TypeOK
  <2>4. stock' \in Nat /\ ledger' \in [Orders -> LedgerSums]
    BY <1>2, CallOffTypes DEF ExpireSubmission, TypeOK
  <2>5. books' \in [Orders -> Books(ShippingCosts)]
    BY <1>2, CallOffTypes DEF ExpireSubmission, TypeOK
  <2> QED
    BY <1>2, <2>1, <2>2, <2>3, <2>4, <2>5
       DEF ExpireSubmission, TypeOK, ClerkHasOrder
<1>3. CASE ExpireOrder(o)
  <2>1. inv' \in [Orders -> Invoice]
    BY <1>3, CallOffTypes DEF ExpireOrder, TypeOK
  <2>2. resv' \in [Orders -> Reservation] /\ task' \in [Orders -> Task]
    BY <1>3, CallOffTypes DEF ExpireOrder, TypeOK
  <2>3. stock' \in Nat /\ ledger' \in [Orders -> LedgerSums]
    BY <1>3, CallOffTypes DEF ExpireOrder, TypeOK
  <2>4. books' \in [Orders -> Books(ShippingCosts)]
    BY <1>3, CallOffTypes DEF ExpireOrder, TypeOK
  <2> QED
    BY <1>3, <2>1, <2>2, <2>3, <2>4 DEF ExpireOrder, TypeOK, ClerkHasOrder
<1> QED
  BY <1>1, <1>2, <1>3

\* Deadlines and the choice of candidates keep the types.
LEMMA ClockTypes ==
  ASSUME TypeInv, PickExpiredOrders \/ Deadlines
  PROVE  TypeInv'
<1> USE DEF TypeInv
<1>1. CASE PickExpiredOrders
  BY <1>1 DEF PickExpiredOrders, TypeOK, ClerkHasOrder
<1>2. ASSUME NEW o \in Orders, ReservationDeadline(o)
      PROVE  TypeInv'
  <2>1. inv' \in [Orders -> Invoice]
    BY <1>2 DEF ReservationDeadline, TypeOK, Invoice
  <2>2. sub' \in [Orders -> Submission]
    BY <1>2 DEF ReservationDeadline, TypeOK, Submission
  <2> QED
    BY <1>2, <2>1, <2>2 DEF ReservationDeadline, TypeOK, ClerkHasOrder
<1>3. ASSUME NEW o \in Orders, SubmissionDeadline(o)
      PROVE  TypeInv'
  <2>1. sub' \in [Orders -> Submission]
    BY <1>3 DEF SubmissionDeadline, TypeOK, Submission
  <2> QED
    BY <1>3, <2>1 DEF SubmissionDeadline, TypeOK, ClerkHasOrder
<1> QED
  BY <1>1, <1>2, <1>3 DEF Deadlines

\* What Produce allocates to an order is at most what its task waits for.
LEMMA AllocationBounds ==
  ASSUME TypeOK, NEW available, NEW alloc \in [Orders -> 0 .. MaxQty],
         IsFifoAllocation(alloc, available), NEW o \in Orders
  PROVE  /\ alloc[o] \in Nat /\ alloc[o] <= task[o].shortage
         /\ alloc[o] > 0 => HasOpenTask(o) /\ ~IsDead(o)
<1>1. alloc[o] \in Nat
  BY BoundsAssumption
<1>2. alloc[o] <= Wanted(o)
  BY DEF IsFifoAllocation
<1> QED
  BY <1>1, <1>2, RowTypes DEF Wanted

\* Production keeps the types: no order is given more than is available.
LEMMA ProduceTypes ==
  ASSUME TypeInv, NEW units \in Nat, Produce(units)
  PROVE  TypeInv'
<1> USE DEF TypeInv
<1> DEFINE available == Max({0, stock + units - Reserved})
<1>1. PICK alloc \in [Orders -> 0 .. MaxQty] :
        /\ IsFifoAllocation(alloc, available)
        /\ resv' = [o \in Orders |->
             IF alloc[o] > 0 THEN [status |-> "ACTIVE",
                                   qty |-> resv[o].qty + alloc[o]]
                             ELSE resv[o]]
        /\ task' = [o \in Orders |->
             [status |-> IF alloc[o] > 0 /\ alloc[o] = task[o].shortage
                         THEN "COMPLETED"
                         ELSE IF IsDead(o) /\ IsReached(o, alloc, available)
                         THEN "CANCELLED" ELSE task[o].status,
              shortage |-> task[o].shortage - alloc[o]]]
        /\ inv' = [o \in Orders |->
             IF alloc[o] > 0 /\ alloc[o] = task[o].shortage
             THEN [inv[o] EXCEPT !.ful = IF inv[o].status = "PAID"
                                         THEN "READY_TO_PACK"
                                         ELSE "AWAITING_PAYMENT"]
             ELSE inv[o]]
  BY DEF Produce
<1> HIDE DEF available
<1>2. resv' \in [Orders -> Reservation]
  <2>1. \A o \in Orders : resv[o].qty + alloc[o] \in Nat
    BY <1>1, RowTypes, AllocationBounds
  <2> QED
    BY <1>1, <2>1 DEF TypeOK, Reservation
<1>3. task' \in [Orders -> Task]
  <2>1. \A o \in Orders : task[o].shortage - alloc[o] \in Nat
    BY <1>1, RowTypes, AllocationBounds
  <2> QED
    BY <1>1, <2>1 DEF TypeOK, Task
<1>4. inv' \in [Orders -> Invoice]
  <2>1. \A o \in Orders, f \in {"READY_TO_PACK", "AWAITING_PAYMENT"} :
          [inv[o] EXCEPT !.ful = f] \in Invoice
    BY DEF TypeOK, Invoice, Fulfillments
  <2> QED
    BY <1>1, <2>1 DEF TypeOK
<1>5. /\ stock' = stock + units
      /\ UNCHANGED <<otherOut, demand, ledger, pay, sub, books, clerk, picked,
                     accepted, uploads>>
  BY DEF Produce
<1> QED
  BY <1>2, <1>3, <1>4, <1>5 DEF TypeOK, ClerkHasOrder

\* Stock that moves without a sale keeps the types.
LEMMA MovingTypes ==
  ASSUME TypeInv, Moving
  PROVE  TypeInv'
<1> USE DEF TypeInv
<1>1. \A units \in Qtys : units \in Nat
  BY BoundsAssumption DEF Qtys
<1>2. ASSUME NEW units \in Nat, OtherOut(units)
      PROVE  TypeInv'
  BY <1>2 DEF OtherOut, InStock, TypeOK, ClerkHasOrder
<1>3. ASSUME NEW o \in Orders, NEW units \in Nat, CreateCreditNote(o, units)
      PROVE  TypeInv'
  <2> DEFINE owed == GrandTotal(o) - inv[o].paid - inv[o].returned
             part == Min({units, owed})
             arPortion == Max({0, part})
  <2>1. arPortion \in Int
    <3>1. owed \in Int
      BY RowTypes
    <3> HIDE DEF owed
    <3>2. part \in Int
      BY <3>1, MinOfTwo
    <3> HIDE DEF part
    <3> QED BY <3>2, MaxOfTwo
  <2>2. /\ inv' = [inv EXCEPT ![o] = Credited(@, units)]
        /\ books' = [books EXCEPT ![o] =
                       PostCreditNote(@, arPortion, units - arPortion)]
    BY <1>3 DEF CreateCreditNote
  <2> HIDE DEF arPortion
  <2>3. inv' \in [Orders -> Invoice]
    BY <2>2, RowTypes, InvoiceTypes DEF TypeOK
  <2>4. PostCreditNote(books[o], arPortion, units - arPortion)
          \in Books(ShippingCosts)
    <3>1. units - arPortion \in Int /\ books[o] \in Books(ShippingCosts)
      BY <2>1, RowTypes
    <3> QED
      BY <2>1, <3>1, PostingTypes
  <2>5. books' \in [Orders -> Books(ShippingCosts)]
    BY <2>2, <2>4 DEF TypeOK
  <2> QED
    BY <1>3, <2>3, <2>5 DEF CreateCreditNote, TypeOK, ClerkHasOrder
<1> QED
  BY <1>1, <1>2, <1>3, ProduceTypes DEF Moving

\* A clerk's request keeps the types, and is about an order that exists.
LEMMA RequestingTypes ==
  ASSUME TypeInv, Requesting
  PROVE  TypeInv'
<1> USE DEF TypeInv
<1>1. PICK c \in Clerks, o \in Orders, byTracking \in BOOLEAN,
           next \in OperatorTargets \cup {"SAME"},
           ship \in ShippingCosts \cup {NoCost} :
        ReadForShipping(c, o, next, byTracking, ship)
  BY DEF Requesting, OperatorTargets
<1>2. inv[o].ship \in ShippingCosts
  BY RowTypes
<1>3. [pc |-> "read", order |-> o, next |-> next, oldShip |-> inv[o].ship,
       newShip |-> ship, paid |-> 0, total |-> 0] \in ClerkState
  BY <1>2 DEF ClerkState
<1>4. clerk' \in [Clerks -> ClerkState] /\ ClerkHasOrder'
  BY <1>1, <1>3 DEF ReadForShipping, TypeOK, ClerkHasOrder
<1> QED
  BY <1>1, <1>4 DEF ReadForShipping, TypeOK

\* The journal of a shipping change keeps the books typed.
LEMMA ShippingBooksTypes ==
  ASSUME NEW k \in ClerkState, NEW g \in Books(ShippingCosts)
  PROVE  ShippingBooks(g, k) \in Books(ShippingCosts)
<1>1. k.oldShip \in ShippingCosts /\ k.newShip \in ShippingCosts \cup {NoCost}
  BY DEF ClerkState
<1> QED
  BY <1>1, PostingTypes DEF ShippingBooks

\* Shipping and hand-over keep the types: stock is checked when it is taken.
LEMMA ShippingTypes ==
  ASSUME TypeInv, NEW c \in Clerks, ClerkStep(c)
  PROVE  TypeInv'
<1> USE DEF TypeInv
<1> DEFINE k == clerk[c]
           o == k.order
<1>1. k \in ClerkState /\ (k.pc # "idle" => o \in Orders)
  BY DEF TypeOK, ClerkHasOrder
<1>2. k.paid \in Nat /\ k.total \in Nat
  BY <1>1 DEF ClerkState
<1>3. Idle \in ClerkState /\ Idle.pc = "idle"
  BY CostsAssumption DEF Idle, ClerkState
<1>4. CASE WriteShipping(c)
  <2>1. o \in Orders
    BY <1>1, <1>4 DEF WriteShipping
  <2>2. inv' \in [Orders -> Invoice]
    BY <1>1, <1>4, <2>1, RowTypes, InvoiceTypes DEF WriteShipping, TypeOK
  <2>3. books' \in [Orders -> Books(ShippingCosts)]
    BY <1>1, <1>4, <2>1, RowTypes, ShippingBooksTypes DEF WriteShipping, TypeOK
  <2>4. clerk' \in [Clerks -> ClerkState] /\ ClerkHasOrder'
    BY <1>3, <1>4 DEF WriteShipping, TypeOK, ClerkHasOrder
  <2> QED
    BY <1>4, <2>2, <2>3, <2>4 DEF WriteShipping, TypeOK
<1>5. CASE HandoverReads(c)
  <2>1. o \in Orders
    BY <1>1, <1>5 DEF HandoverReads
  <2>2. [k EXCEPT !.pc = "write"] \in ClerkState
    BY <1>1 DEF ClerkState
  <2>3. [k EXCEPT !.pc = "write"].order = o
    BY <1>1 DEF ClerkState
  <2>4. /\ Fulfilling(k, inv[o].paid, GrandTotal(o)) \in ClerkState
        /\ Fulfilling(k, inv[o].paid, GrandTotal(o)).order = o
    <3> DEFINE h1 == [k EXCEPT !.pc = "fulfil"]
               h2 == [h1 EXCEPT !.paid = inv[o].paid]
               h3 == [h2 EXCEPT !.total = GrandTotal(o)]
    <3>1. h1 \in ClerkState /\ h1.order = o
      BY <1>1 DEF ClerkState
    <3>2. h2 \in ClerkState /\ h2.order = o
      <4> HIDE DEF h1
      <4> QED BY <2>1, <3>1, RowTypes DEF ClerkState
    <3>3. h3 \in ClerkState /\ h3.order = o
      <4> HIDE DEF h2
      <4> QED BY <2>1, <3>2, RowTypes DEF ClerkState
    <3>4. Fulfilling(k, inv[o].paid, GrandTotal(o)) = h3
      BY DEF Fulfilling
    <3> HIDE DEF h3
    <3> QED
      BY <3>3, <3>4
  <2>5. \E s \in ClerkState : /\ clerk' = [clerk EXCEPT ![c] = s]
                              /\ s.pc = "idle" \/ s.order \in Orders
    BY <1>3, <1>5, <2>1, <2>2, <2>3, <2>4 DEF HandoverReads
  <2>6. clerk' \in [Clerks -> ClerkState] /\ ClerkHasOrder'
    BY <2>5 DEF TypeOK, ClerkHasOrder
  <2> QED
    BY <1>5, <2>6 DEF HandoverReads, TypeOK
<1>6. CASE HandoverWrites(c)
  <2>1. o \in Orders /\ k.paid \in Int /\ k.total \in Int
    BY <1>1, <1>2, <1>6 DEF HandoverWrites
  <2>2. inv' \in [Orders -> Invoice]
    BY <1>1, <1>6, <2>1, RowTypes, InvoiceTypes DEF HandoverWrites, TypeOK
  <2>3. PostSalesInvoice(books[o], k.total, k.paid) \in Books(ShippingCosts)
    BY <2>1, RowTypes, PostingTypes
  <2>4. books' \in [Orders -> Books(ShippingCosts)]
    BY <1>1, <1>6, <2>1, <2>3, ShippingBooksTypes DEF HandoverWrites, TypeOK
  <2>5. stock' \in Nat
    BY <1>6, <2>1, RowTypes DEF HandoverWrites, InStock, TypeOK
  <2>6. ledger' \in [Orders -> LedgerSums]
    <3>1. ledger[o].out + inv[o].qty \in Nat
      BY <2>1, RowTypes
    <3>2. ledger' = [ledger EXCEPT ![o].out = @ + inv[o].qty]
      BY <1>6 DEF HandoverWrites
    <3>3. ASSUME NEW n \in Nat, NEW w \in Orders
          PROVE  [ledger EXCEPT ![w].out = n] \in [Orders -> LedgerSums]
      BY DEF TypeOK, LedgerSums
    <3> QED
      BY <2>1, <3>1, <3>2, <3>3
  <2>7. resv' \in [Orders -> Reservation]
    BY <1>6, <2>1, RowTypes, NewRowTypes DEF HandoverWrites, TypeOK
  <2>8. task' \in [Orders -> Task]
    BY <1>6, <2>1 DEF HandoverWrites, TypeOK, Task
  <2>9. clerk' \in [Clerks -> ClerkState] /\ ClerkHasOrder'
    BY <1>3, <1>6 DEF HandoverWrites, TypeOK, ClerkHasOrder
  <2> QED
    BY <1>6, <2>2, <2>4, <2>5, <2>6, <2>7, <2>8, <2>9
       DEF HandoverWrites, TypeOK
<1>7. CASE ShippingFails(c)
  BY <1>3, <1>7 DEF ShippingFails, TypeOK, ClerkHasOrder
<1> QED
  BY <1>4, <1>5, <1>6, <1>7 DEF ClerkStep

\* Every step keeps the rows well typed.
LEMMA NextTypes == TypeInv /\ [Next]_vars => TypeInv'
<1> SUFFICES ASSUME TypeInv, [Next]_vars
             PROVE  TypeInv'
  OBVIOUS
<1>1. CASE Placing
  BY <1>1, PlacingTypes
<1>2. CASE Paying
  BY <1>2, PayingTypes
<1>3. CASE Cancelling \/ Cron
  BY <1>3, CallingOffTypes, ClockTypes DEF Cancelling, Cron
<1>4. CASE Deadlines
  BY <1>4, ClockTypes
<1>5. CASE Moving
  BY <1>5, MovingTypes
<1>6. CASE Requesting
  BY <1>6, RequestingTypes
<1>7. CASE Shipping
  BY <1>7, ShippingTypes DEF Shipping
<1>8. CASE Webhook \/ \E o \in Orders : WebhookAccept(o)
  BY <1>8, WebhookTypes DEF Webhook
<1>9. CASE UNCHANGED vars
  BY <1>9 DEF vars, TypeInv, TypeOK, ClerkHasOrder
<1> QED
  BY <1>1, <1>2, <1>3, <1>4, <1>5, <1>6, <1>7, <1>8, <1>9 DEF Next

\* In every reachable state the rows are well typed: no handler, however the
\* calls interleave, takes stock, a quantity or an amount below zero.
THEOREM TypeCorrect == Spec => []TypeOK
<1>1. TypeInv => TypeOK
  BY DEF TypeInv
<1> QED
  BY <1>1, InitTypes, NextTypes, PTL DEF Spec
-----------------------------------------------------------------------------
(* Stock, task, ledger and sale journal of an order move together. *)

\* An invoice that is not there yet has no rows, and nobody is at work on it.
Blank(o) ==
  /\ inv[o].qty = 0
  /\ resv[o].status # "ACTIVE" /\ resv[o].qty = 0
  /\ ~HasOpenTask(o) /\ task[o].shortage = 0
  /\ ledger[o].out = 0 /\ books[o].sale = "NONE"
  /\ pay[o] = << >> /\ sub[o].status = "NONE"
  /\ o \notin accepted /\ o \notin uploads
  /\ \A c \in Clerks : clerk[c].pc # "idle" => clerk[c].order # o

\* One order's share of the inductive invariant.
OrderInv(o) ==
  /\ inv[o].status = "NONE" => Blank(o)
  /\ inv[o].status # "NONE" => inv[o].qty > 0
  /\ HasOpenTask(o) \/ resv[o].status = "ACTIVE" =>
       resv[o].qty + task[o].shortage = inv[o].qty
  /\ books[o].sale # "NONE" => resv[o].status # "ACTIVE" /\ ~HasOpenTask(o)
  /\ ledger[o].out > 0 <=> books[o].sale # "NONE"
  /\ ledger[o].out > 0 /\ inv[o].kind # "WALK_IN" =>
       resv[o].status = "CONSUMED"
  /\ ledger[o].void > 0 => ledger[o].out > 0
  /\ inv[o].status = "VOID" => resv[o].status # "ACTIVE"

IInv == TypeInv /\ \A o \in Orders : OrderInv(o)

\* There are no orders yet, so the invariant of each holds.
LEMMA InitOrderInv == Init => \A o \in Orders : OrderInv(o)
  BY DEF Init, OrderInv, Blank, NoInvoice, NewInvoice, HasOpenTask, NoBooks,
         Idle

\* A step that leaves an order's rows alone, and starts nothing on it.
LEMMA Untouched ==
  ASSUME NEW w \in Orders, OrderInv(w),
         inv'[w] = inv[w], resv'[w] = resv[w], task'[w] = task[w],
         ledger'[w] = ledger[w], books'[w] = books[w], pay'[w] = pay[w],
         sub'[w] = sub[w],
         w \in accepted' => w \in accepted, w \in uploads' => w \in uploads,
         \A c \in Clerks :
           clerk'[c].pc # "idle" /\ clerk'[c].order = w =>
             clerk[c].pc # "idle" /\ clerk[c].order = w
  PROVE  OrderInv(w)'
BY DEF OrderInv, Blank, HasOpenTask

\* A step on a placed order that touches its money, status or requests, not
\* its stock.
LEMMA StockUntouched ==
  ASSUME NEW w \in Orders, OrderInv(w), inv[w].status # "NONE",
         inv'[w].status \notin {"NONE", "VOID"}
           \/ inv'[w].status = inv[w].status,
         inv'[w].qty = inv[w].qty, inv'[w].kind = inv[w].kind,
         resv'[w] = resv[w], task'[w] = task[w], ledger'[w] = ledger[w],
         books'[w].sale = "NONE" <=> books[w].sale = "NONE"
  PROVE  OrderInv(w)'
BY DEF OrderInv, HasOpenTask

\* Placing an order: what is promised and what is left to produce add up.
LEMMA PlacingOrderInv ==
  ASSUME IInv, Placing, NEW w \in Orders
  PROVE  OrderInv(w)'
<1> USE DEF IInv, TypeInv
<1>1. PICK o \in Orders, q \in Qtys :
        \/ WalkInSale(o, q)
        \/ \E kind \in Kinds, paidNow \in BOOLEAN :
             CreateInvoice(o, q, kind, paidNow)
        \/ \E kind \in Kinds : Checkout(o, q, kind)
  BY DEF Placing
<1>2. q \in Nat /\ q > 0
  BY BoundsAssumption DEF Qtys
<1>3. OrderInv(w)
  OBVIOUS
<1>4. inv[o].status = "NONE"
  BY <1>1 DEF WalkInSale, CreateInvoice, Checkout
<1>5. Blank(o)
  BY <1>4 DEF OrderInv
<1>6. CASE w # o
  <2>1. inv'[w] = inv[w] /\ pay'[w] = pay[w] /\ books'[w] = books[w]
    BY <1>1, <1>6 DEF WalkInSale, CreateInvoice, Checkout, TypeOK
  <2>2. resv'[w] = resv[w] /\ task'[w] = task[w]
    BY <1>1, <1>6 DEF WalkInSale, CreateInvoice, Checkout, ReserveInvoiceStock,
                      TypeOK
  <2>3. ledger'[w] = ledger[w] /\ sub'[w] = sub[w]
    BY <1>1, <1>6 DEF WalkInSale, CreateInvoice, Checkout, TypeOK
  <2>4. UNCHANGED <<accepted, uploads, clerk>>
    BY <1>1 DEF WalkInSale, CreateInvoice, Checkout
  <2> QED
    BY <1>3, <2>1, <2>2, <2>3, <2>4, Untouched
<1>7. CASE w = o /\ WalkInSale(o, q)
  <2>1. inv'[o] = NewInvoice("WALK_IN", q, "PAID", "DELIVERED", q)
    BY <1>7 DEF WalkInSale, TypeOK
  <2>2. inv'[o].status = "PAID" /\ inv'[o].qty = q /\ inv'[o].kind = "WALK_IN"
    BY <2>1 DEF NewInvoice
  <2>3. ledger'[o].out = q /\ ledger'[o].void = ledger[o].void
    BY <1>7 DEF WalkInSale, TypeOK, LedgerSums
  <2>4. books'[o].sale # "NONE"
    <3> DEFINE p == NewPayment(q, "PREPAYMENT", "STAFF")
               g == PostPayment(books[o], p)
    <3>1. g \in Books(ShippingCosts)
      BY <1>2, NewRowTypes, RowTypes, PaymentPostingTypes
    <3>2. books'[o] = PostSalesInvoice(g, q, q)
      BY <1>7 DEF WalkInSale, TypeOK
    <3> HIDE DEF g
    <3> QED BY <3>1, <3>2, PostingSale
  <2>5. resv' = resv /\ task' = task
    BY <1>7 DEF WalkInSale
  <2> QED
    BY <1>2, <1>5, <1>7, <2>2, <2>3, <2>4, <2>5
       DEF OrderInv, Blank, HasOpenTask
<1>8. CASE w = o /\ ~WalkInSale(o, q)
  <2>1. ReserveInvoiceStock(o, q)
    BY <1>1, <1>8 DEF CreateInvoice, Checkout
  <2>2. PICK got \in 0 .. q :
          /\ resv' = [resv EXCEPT ![o] =
                        IF got > 0 THEN [status |-> "ACTIVE", qty |-> got]
                                   ELSE @]
          /\ task' = [task EXCEPT ![o] =
                        IF got < q THEN NewTask(q, got) ELSE @]
    BY <2>1 DEF ReserveInvoiceStock
  <2>3. /\ inv'[o].status \in {"PAID", "ISSUED"} /\ inv'[o].qty = q
        /\ ledger'[o] = ledger[o]
    BY <1>1, <1>8 DEF CreateInvoice, Checkout, NewInvoice, TypeOK
  <2>4. books'[o].sale = "NONE"
    <3> DEFINE p == NewPayment(q, "PREPAYMENT", "STAFF")
    <3>1. p \in Payment /\ books[o] \in Books(ShippingCosts)
      BY <1>2, NewRowTypes, RowTypes
    <3>2. books'[o] \in {books[o], PostPayment(books[o], p)}
      BY <1>1, <1>8 DEF CreateInvoice, Checkout, TypeOK
    <3> HIDE DEF p
    <3> QED BY <1>5, <3>1, <3>2, PostingSale DEF Blank
  <2>5. /\ resv'[o].qty = got /\ (got = 0 => resv'[o].status # "ACTIVE")
        /\ resv'[o] = [status |-> "ACTIVE", qty |-> got] \/ resv'[o] = resv[o]
    BY <1>5, <2>2 DEF Blank, TypeOK
  <2>6. task'[o].shortage = q - got
    BY <1>2, <1>5, <2>2 DEF Blank, NewTask, TypeOK
  <2> QED
    BY <1>2, <1>5, <1>8, <2>3, <2>4, <2>5, <2>6
       DEF OrderInv, Blank, HasOpenTask
<1> QED
  BY <1>6, <1>7, <1>8

\* Payments and proofs do not touch the stock of an order.
LEMMA PayingOrderInv ==
  ASSUME IInv, Paying, NEW w \in Orders
  PROVE  OrderInv(w)'
<1> USE DEF IInv, TypeInv
<1>1. OrderInv(w)
  OBVIOUS
<1>2. ASSUME NEW o \in Orders, NEW amount \in Nat,
             RecordPayment(o, amount) \/ VerifySubmission(o, amount)
      PROVE  OrderInv(w)'
  <2>1. UNCHANGED <<resv, task, ledger, accepted, clerk>>
        /\ uploads' \subseteq uploads
    BY <1>2 DEF RecordPayment, VerifySubmission
  <2>2. CASE w # o
    <3>1. /\ inv'[w] = inv[w] /\ pay'[w] = pay[w] /\ books'[w] = books[w]
          /\ sub'[w] = sub[w]
      BY <1>2, <2>2 DEF RecordPayment, VerifySubmission, TypeOK
    <3> QED
      BY <1>1, <2>1, <3>1, Untouched
  <2>3. CASE w = o
    <3>1. inv[o].status # "NONE"
      BY <1>2 DEF RecordPayment, VerifySubmission, OrderInv, Blank
    <3>2. PICK paid \in Nat, s \in {"PAID", "PARTIAL"}, f \in Fulfillments,
               p \in Payment :
            /\ inv'[o] = SetPaid(inv[o], paid, s, f)
            /\ books'[o] = PostPayment(books[o], p)
      <4>1. /\ FulfillmentWhenPaid(o) \in Fulfillments
            /\ inv[o].ful \in Fulfillments /\ inv[o].paid + amount \in Nat
        BY RowTypes DEF FulfillmentWhenPaid, Fulfillments
      <4>2. \A book \in {"PREPAYMENT", "RECEIVABLE"},
               by \in {"STAFF", "PROOF"} :
              NewPayment(amount, book, by) \in Payment
        BY NewRowTypes
      <4> QED
        BY <1>2, <4>1, <4>2 DEF RecordPayment, VerifySubmission, TypeOK
    <3>3. /\ inv'[o].status = s
          /\ inv'[o].qty = inv[o].qty /\ inv'[o].kind = inv[o].kind
      BY <3>2, RowTypes, InvoiceFields
    <3>4. books'[o].sale = books[o].sale
      BY <3>2, RowTypes, PostingSale
    <3> QED
      BY <1>1, <2>1, <2>3, <3>1, <3>3, <3>4, StockUntouched
  <2> QED
    BY <2>2, <2>3
<1>3. ASSUME NEW o \in Orders, NEW i \in DOMAIN pay[o], VoidPayment(o, i)
      PROVE  OrderInv(w)'
  <2>1. UNCHANGED <<resv, task, ledger, accepted, uploads, clerk, sub>>
    BY <1>3 DEF VoidPayment
  <2>2. CASE w # o
    <3>1. inv'[w] = inv[w] /\ pay'[w] = pay[w] /\ books'[w] = books[w]
      BY <1>3, <2>2 DEF VoidPayment, TypeOK
    <3> QED
      BY <1>1, <2>1, <3>1, Untouched
  <2>3. CASE w = o
    <3>1. inv[o].status # "NONE"
      BY <1>3 DEF OrderInv, Blank
    <3>2. PICK paid, f :
            inv'[o] = SetPaid(inv[o], paid, StatusAfterVoid(paid), f)
      BY <1>3 DEF VoidPayment, TypeOK
    <3>3. books'[o] = ReversePayment(books[o], pay[o][i])
      BY <1>3 DEF VoidPayment, TypeOK
    <3>4. /\ inv'[o].status \in {"ISSUED", "PARTIAL"}
          /\ inv'[o].qty = inv[o].qty /\ inv'[o].kind = inv[o].kind
      BY <3>2, RowTypes, InvoiceFields DEF StatusAfterVoid
    <3>5. books'[o].sale = books[o].sale
      BY <3>3, RowTypes, PaymentRowTypes, PostingSale
    <3> QED
      BY <1>1, <2>1, <2>3, <3>1, <3>4, <3>5, StockUntouched
  <2> QED
    BY <2>2, <2>3
<1>4. ASSUME NEW o \in Orders,
             \/ ReadSubmission(o) \/ \E more \in BOOLEAN : WriteProof(o, more)
             \/ SubmitProofLate(o) \/ RejectSubmission(o)
      PROVE  OrderInv(w)'
  <2>1. UNCHANGED <<inv, resv, task, ledger, books, pay, accepted, clerk>>
    BY <1>4 DEF ReadSubmission, WriteProof, SubmitProofLate, RejectSubmission
  <2>2. CASE w # o
    <3>1. sub'[w] = sub[w] /\ (w \in uploads' => w \in uploads)
      BY <1>4, <2>2 DEF ReadSubmission, WriteProof, SubmitProofLate,
                        RejectSubmission, TypeOK
    <3> QED
      BY <1>1, <2>1, <3>1, Untouched
  <2>3. CASE w = o
    <3>1. inv[o].status # "NONE"
      BY <1>4 DEF ReadSubmission, WriteProof, SubmitProofLate,
                  RejectSubmission, OrderInv, Blank
    <3> QED
      BY <1>1, <2>1, <2>3, <3>1, StockUntouched
  <2> QED
    BY <2>2, <2>3
<1>5. \A amount \in 1 .. MaxAmount : amount \in Nat
  OBVIOUS
<1> QED
  BY <1>2, <1>3, <1>4, <1>5 DEF Paying

\* What calling an order off does to its own rows.
LEMMA CallOffRows ==
  ASSUME TypeOK, NEW o \in Orders
  PROVE  /\ MarkVoid(o) => /\ inv'[o].status = "VOID"
                           /\ inv'[o].qty = inv[o].qty
                           /\ inv'[o].kind = inv[o].kind
         /\ \A to \in {"RELEASED", "EXPIRED"} : ReleaseReservation(o, to) =>
              /\ resv'[o].status =
                   IF resv[o].status = "ACTIVE" THEN to ELSE resv[o].status
              /\ task'[o].status # "OPEN"
         /\ ReverseSaleEntries(o) =>
              /\ ledger'[o].out = ledger[o].out
              /\ ledger'[o].void = ledger[o].void + ledger[o].out
         /\ [books EXCEPT ![o] = ReverseSalesInvoice(@)][o].sale = "NONE"
              <=> books[o].sale = "NONE"
<1>1. MarkVoid(o) => /\ inv'[o].status = "VOID"
                     /\ inv'[o].qty = inv[o].qty
                     /\ inv'[o].kind = inv[o].kind
  BY RowTypes, InvoiceFields DEF MarkVoid, TypeOK
<1>2. ASSUME NEW to \in {"RELEASED", "EXPIRED"}, ReleaseReservation(o, to)
      PROVE  /\ resv'[o].status =
                  IF resv[o].status = "ACTIVE" THEN to ELSE resv[o].status
             /\ task'[o].status # "OPEN"
  BY <1>2 DEF ReleaseReservation, TypeOK, Reservation, Task
<1>3. ASSUME ReverseSaleEntries(o)
      PROVE  /\ ledger'[o].out = ledger[o].out
             /\ ledger'[o].void = ledger[o].void + ledger[o].out
  BY <1>3 DEF ReverseSaleEntries, TypeOK, LedgerSums
<1>4. [books EXCEPT ![o] = ReverseSalesInvoice(@)][o].sale = "NONE"
        <=> books[o].sale = "NONE"
  BY RowTypes, PostingSale DEF TypeOK
<1> QED
  BY <1>1, <1>2, <1>3, <1>4

\* Calling an order off: whoever does it, the order keeps no reservation.
LEMMA CallingOffOrderInv ==
  ASSUME IInv, NEW w \in Orders, NEW o \in Orders,
         VoidInvoice(o) \/ ExpireSubmission(o) \/ ExpireOrder(o)
           \/ WebhookFailure(o)
  PROVE  OrderInv(w)'
<1> USE DEF IInv, TypeInv
<1>1. OrderInv(w)
  OBVIOUS
<1>2. /\ UNCHANGED <<pay, uploads, clerk>> /\ accepted' \subseteq accepted
  BY DEF VoidInvoice, ExpireSubmission, ExpireOrder, WebhookFailure
<1>3. CASE w # o
  <2>1. inv'[w] = inv[w] /\ books'[w] = books[w]
    BY <1>3 DEF VoidInvoice, ExpireSubmission, ExpireOrder, WebhookFailure,
                MarkVoid, TypeOK
  <2>2. resv'[w] = resv[w] /\ task'[w] = task[w]
    BY <1>3 DEF VoidInvoice, ExpireSubmission, ExpireOrder, WebhookFailure,
                ReleaseReservation, TypeOK
  <2>3. ledger'[w] = ledger[w]
    BY <1>3 DEF VoidInvoice, ExpireSubmission, ExpireOrder, WebhookFailure,
                ReverseSaleEntries, TypeOK
  <2>4. sub'[w] = sub[w]
    BY <1>3 DEF VoidInvoice, ExpireSubmission, ExpireOrder, WebhookFailure,
                TypeOK
  <2> QED
    BY <1>1, <1>2, <2>1, <2>2, <2>3, <2>4, Untouched
<1>4. CASE w = o
  <2>1. sub' = sub \/ ExpireSubmission(o)
    BY DEF VoidInvoice, ExpireOrder, WebhookFailure
  <2>2. CASE UNCHANGED <<inv, resv, task, ledger, books>>
    <3>1. CASE inv[o].status # "NONE"
      BY <1>1, <1>4, <2>2, <3>1, StockUntouched
    <3>2. CASE inv[o].status = "NONE"
      <4>1. sub' = sub
        BY <1>1, <1>4, <2>1, <3>2 DEF ExpireSubmission, OrderInv, Blank
      <4> QED
        BY <1>1, <1>2, <2>2, <4>1, Untouched
    <3> QED
      BY <3>1, <3>2
  <2>3. CASE ~UNCHANGED <<inv, resv, task, ledger, books>>
    <3>1. inv'[o].status = "VOID" /\ inv'[o].qty = inv[o].qty
          /\ inv'[o].kind = inv[o].kind
      BY <2>3, CallOffRows DEF VoidInvoice, ExpireSubmission, ExpireOrder,
                               WebhookFailure
    <3>2. /\ ledger'[o].out = ledger[o].out
          /\ ledger'[o].void > 0 => ledger[o].out > 0
      <4>1. ledger' = ledger \/ ReverseSaleEntries(o)
        BY <2>3 DEF VoidInvoice, ExpireSubmission, ExpireOrder, WebhookFailure
      <4> QED
        BY <1>1, <1>4, <4>1, CallOffRows, RowTypes DEF OrderInv
    <3>3. books'[o].sale = "NONE" <=> books[o].sale = "NONE"
      BY CallOffRows DEF VoidInvoice, ExpireSubmission, ExpireOrder,
                         WebhookFailure
    <3>4. \/ resv' = resv /\ task' = task /\ resv[o].status # "ACTIVE"
          \/ ReleaseReservation(o, "RELEASED")
          \/ ReleaseReservation(o, "EXPIRED")
      BY <1>1, <1>4, <2>3 DEF VoidInvoice, ExpireSubmission, ExpireOrder,
              WebhookFailure, OrderInv, AlreadyReversed
    <3>5. /\ resv'[o].status # "ACTIVE"
          /\ resv'[o].status = resv[o].status \/ resv[o].status = "ACTIVE"
          /\ task'[o] = task[o] \/ task'[o].status # "OPEN"
          /\ resv'[o].qty = resv[o].qty /\ task'[o].shortage = task[o].shortage
      BY <3>4, CallOffRows DEF ReleaseReservation, TypeOK, Reservation, Task
    <3>6. inv[o].status # "NONE"
      BY <2>3 DEF VoidInvoice, ExpireSubmission, ExpireOrder, IsStillUnpaid,
                  WebhookFailure, OrderInv, Blank
    <3> QED
      BY <1>1, <1>4, <3>1, <3>2, <3>3, <3>5, <3>6 DEF OrderInv, HasOpenTask
  <2> QED
    BY <2>2, <2>3
<1> QED
  BY <1>3, <1>4

\* A settlement or a failure keeps the invariant of every order.
LEMMA WebhookOrderInv ==
  ASSUME IInv, NEW w \in Orders, NEW o \in Orders,
         WebhookSettlement(o) \/ WebhookIgnored(o) \/ WebhookAccept(o)
  PROVE  OrderInv(w)'
<1> USE DEF IInv, TypeInv
<1>1. OrderInv(w)
  OBVIOUS
<1>2. UNCHANGED <<resv, task, ledger, sub, uploads, clerk>>
  BY DEF WebhookSettlement, WebhookIgnored, WebhookAccept
<1>3. CASE w # o
  <2>1. inv'[w] = inv[w] /\ pay'[w] = pay[w] /\ books'[w] = books[w]
    BY <1>3 DEF WebhookSettlement, WebhookIgnored, WebhookAccept, TypeOK
  <2>2. w \in accepted' => w \in accepted
    BY <1>3 DEF WebhookSettlement, WebhookIgnored, WebhookAccept
  <2> QED
    BY <1>1, <1>2, <2>1, <2>2, Untouched
<1>4. CASE w = o
  <2>1. inv[o].status # "NONE"
    BY DEF WebhookSettlement, WebhookIgnored, WebhookAccept, OrderInv, Blank
  <2>2. CASE WebhookSettlement(o)
    <3> DEFINE p == NewPayment(inv[o].qty, "PREPAYMENT", "MIDTRANS")
    <3>1. PICK paid, f : inv'[o] = SetPaid(inv[o], paid, "PAID", f)
      BY <2>2 DEF WebhookSettlement, TypeOK
    <3>2. p \in Payment
      BY RowTypes, NewRowTypes
    <3>3. books'[o] = PostPayment(books[o], p)
      BY <2>2 DEF WebhookSettlement, TypeOK
    <3> HIDE DEF p
    <3>4. /\ inv'[o].status = "PAID"
          /\ inv'[o].qty = inv[o].qty /\ inv'[o].kind = inv[o].kind
      BY <3>1, RowTypes, InvoiceFields
    <3>5. books'[o].sale = books[o].sale
      BY <3>2, <3>3, RowTypes, PostingSale
    <3> QED
      BY <1>1, <1>2, <1>4, <2>1, <3>4, <3>5, StockUntouched
  <2>3. CASE WebhookIgnored(o) \/ WebhookAccept(o)
    <3>1. UNCHANGED <<inv, books>>
      BY <2>3 DEF WebhookIgnored, WebhookAccept
    <3> QED
      BY <1>1, <1>2, <1>4, <2>1, <3>1, StockUntouched
  <2> QED
    BY <2>2, <2>3
<1> QED
  BY <1>3, <1>4

\* Deadlines and the choice of candidates keep it.
LEMMA ClockOrderInv ==
  ASSUME IInv, NEW w \in Orders, PickExpiredOrders \/ Deadlines
  PROVE  OrderInv(w)'
<1> USE DEF IInv, TypeInv
<1>1. OrderInv(w)
  OBVIOUS
<1>2. CASE PickExpiredOrders
  BY <1>1, <1>2, Untouched DEF PickExpiredOrders
<1>3. ASSUME NEW o \in Orders, ReservationDeadline(o) \/ SubmissionDeadline(o)
      PROVE  OrderInv(w)'
  <2>1. UNCHANGED <<resv, task, ledger, books, pay, accepted, uploads, clerk>>
    BY <1>3 DEF ReservationDeadline, SubmissionDeadline
  <2>2. /\ inv'[w].status = inv[w].status /\ inv'[w].qty = inv[w].qty
        /\ inv'[w].kind = inv[w].kind
    <3>1. PICK due : inv' = inv \/ inv' = [inv EXCEPT ![o].due = due]
      BY <1>3 DEF ReservationDeadline, SubmissionDeadline
    <3>2. w # o => inv'[w] = inv[w]
      BY <3>1 DEF TypeOK
    <3>3. inv'[o] = inv[o] \/ inv'[o] = [inv[o] EXCEPT !.due = due]
      BY <3>1 DEF TypeOK
    <3>4. inv[o] \in Invoice
      BY RowTypes
    <3> QED
      BY <3>2, <3>3, <3>4 DEF Invoice
  <2>3. sub'[w].status = sub[w].status
    <3>1. PICK due : sub' = [sub EXCEPT ![o].due = due]
      BY <1>3 DEF ReservationDeadline, SubmissionDeadline
    <3> QED
      BY <3>1 DEF TypeOK, Submission
  <2> QED
    BY <1>1, <2>1, <2>2, <2>3 DEF OrderInv, Blank, HasOpenTask
<1> QED
  BY <1>2, <1>3 DEF Deadlines

\* Production: what is served moves from the task to the reservation.
LEMMA ProduceOrderInv ==
  ASSUME IInv, NEW units \in Nat, Produce(units), NEW w \in Orders
  PROVE  OrderInv(w)'
<1> USE DEF IInv, TypeInv
<1> DEFINE available == Max({0, stock + units - Reserved})
<1>1. PICK alloc \in [Orders -> 0 .. MaxQty] :
        /\ IsFifoAllocation(alloc, available)
        /\ resv' = [o \in Orders |->
             IF alloc[o] > 0 THEN [status |-> "ACTIVE",
                                   qty |-> resv[o].qty + alloc[o]]
                             ELSE resv[o]]
        /\ task' = [o \in Orders |->
             [status |-> IF alloc[o] > 0 /\ alloc[o] = task[o].shortage
                         THEN "COMPLETED"
                         ELSE IF IsDead(o) /\ IsReached(o, alloc, available)
                         THEN "CANCELLED" ELSE task[o].status,
              shortage |-> task[o].shortage - alloc[o]]]
        /\ inv' = [o \in Orders |->
             IF alloc[o] > 0 /\ alloc[o] = task[o].shortage
             THEN [inv[o] EXCEPT !.ful = IF inv[o].status = "PAID"
                                         THEN "READY_TO_PACK"
                                         ELSE "AWAITING_PAYMENT"]
             ELSE inv[o]]
  BY DEF Produce
<1> HIDE DEF available
<1>2. OrderInv(w)
  OBVIOUS
<1>3. /\ alloc[w] \in Nat /\ alloc[w] <= task[w].shortage
      /\ alloc[w] > 0 => HasOpenTask(w) /\ ~IsDead(w)
  BY <1>1, AllocationBounds
<1>4. /\ inv'[w].status = inv[w].status /\ inv'[w].qty = inv[w].qty
      /\ inv'[w].kind = inv[w].kind
  BY <1>1 DEF TypeOK, Invoice
<1>5. /\ resv'[w].qty = resv[w].qty + alloc[w]
      /\ resv'[w].status = IF alloc[w] > 0 THEN "ACTIVE" ELSE resv[w].status
  BY <1>1, <1>3, RowTypes
<1>6. /\ task'[w].shortage = task[w].shortage - alloc[w]
      /\ task'[w].status = "OPEN" => HasOpenTask(w)
  BY <1>1 DEF HasOpenTask
<1>7. UNCHANGED <<ledger, books, pay, sub, accepted, uploads, clerk>>
  BY DEF Produce
<1>8. CASE inv[w].status = "NONE"
  <2>1. alloc[w] = 0
    BY <1>2, <1>3, <1>8 DEF OrderInv, Blank
  <2>2. inv'[w] = inv[w] /\ resv'[w] = resv[w]
    BY <1>1, <2>1
  <2>3. task'[w].status # "OPEN" /\ task'[w].shortage = 0
    BY <1>2, <1>6, <1>8, <2>1 DEF OrderInv, Blank
  <2> QED
    BY <1>2, <1>7, <1>8, <2>2, <2>3 DEF OrderInv, Blank, HasOpenTask
<1>9. CASE inv[w].status # "NONE"
  <2>1. CASE alloc[w] = 0
    BY <1>2, <1>4, <1>5, <1>6, <1>7, <1>9, <2>1, RowTypes
       DEF OrderInv, HasOpenTask
  <2>2. CASE alloc[w] > 0
    <3>1. resv'[w].qty + task'[w].shortage = inv[w].qty
      BY <1>2, <1>3, <1>5, <1>6, <2>2, RowTypes DEF OrderInv
    <3>2. inv[w].status # "VOID" /\ books[w].sale = "NONE"
      BY <1>2, <1>3, <2>2 DEF OrderInv, IsDead
    <3> QED
      BY <1>2, <1>4, <1>7, <1>9, <3>1, <3>2 DEF OrderInv
  <2> QED
    BY <1>3, <2>1, <2>2
<1> QED
  BY <1>8, <1>9

\* Production, returns and stock taken elsewhere keep it.
LEMMA MovingOrderInv ==
  ASSUME IInv, Moving, NEW w \in Orders
  PROVE  OrderInv(w)'
<1> USE DEF IInv, TypeInv
<1>1. OrderInv(w)
  OBVIOUS
<1>2. \A units \in Qtys : units \in Nat /\ units > 0
  BY BoundsAssumption DEF Qtys
<1>3. ASSUME NEW units \in Nat, OtherOut(units)
      PROVE  OrderInv(w)'
  BY <1>1, <1>3, Untouched DEF OtherOut
<1>4. ASSUME NEW o \in Orders, NEW units \in Nat, units > 0,
             CreateCreditNote(o, units)
      PROVE  OrderInv(w)'
  <2>1. UNCHANGED <<resv, task, ledger, pay, sub, accepted, uploads, clerk>>
    BY <1>4 DEF CreateCreditNote
  <2>2. CASE w # o
    <3>1. inv'[w] = inv[w] /\ books'[w] = books[w]
      BY <1>4, <2>2 DEF CreateCreditNote, TypeOK
    <3> QED
      BY <1>1, <2>1, <3>1, Untouched
  <2>3. CASE w = o
    <3>1. inv[o].status # "NONE"
      BY <1>4, RowTypes DEF CreateCreditNote, OrderInv, Blank
    <3>2. inv'[o] = Credited(inv[o], units)
      BY <1>4 DEF CreateCreditNote, TypeOK
    <3>3. PICK a, b : books'[o] = PostCreditNote(books[o], a, b)
      BY <1>4 DEF CreateCreditNote, TypeOK
    <3>4. /\ inv'[o].status \in {inv[o].status, "RETURNED"}
          /\ inv'[o].qty = inv[o].qty /\ inv'[o].kind = inv[o].kind
      BY <3>2, RowTypes, InvoiceFields
    <3>5. books'[o].sale = books[o].sale
      BY <3>3, RowTypes, PostingSale
    <3> QED
      BY <1>1, <2>1, <2>3, <3>1, <3>4, <3>5, StockUntouched
  <2> QED
    BY <2>2, <2>3
<1> QED
  BY <1>2, <1>3, <1>4, ProduceOrderInv DEF Moving

\* A clerk's request only reads, and reads an order that exists.
LEMMA RequestingOrderInv ==
  ASSUME IInv, Requesting, NEW w \in Orders
  PROVE  OrderInv(w)'
<1> USE DEF IInv, TypeInv
<1>1. PICK c \in Clerks, o \in Orders, byTracking \in BOOLEAN,
           next \in OperatorTargets \cup {"SAME"},
           ship \in ShippingCosts \cup {NoCost} :
        ReadForShipping(c, o, next, byTracking, ship)
  BY DEF Requesting, OperatorTargets
<1>2. OrderInv(w)
  OBVIOUS
<1>3. UNCHANGED <<inv, resv, task, ledger, books, pay, sub, accepted, uploads>>
  BY <1>1 DEF ReadForShipping
<1>4. CASE w # o
  <2>1. \A d \in Clerks : clerk'[d].order = w => clerk'[d] = clerk[d]
    BY <1>1, <1>4 DEF ReadForShipping, TypeOK
  <2> QED
    BY <1>2, <1>3, <2>1, Untouched
<1>5. CASE w = o
  <2>1. inv[o].status # "NONE"
    BY <1>1 DEF ReadForShipping
  <2> QED
    BY <1>2, <1>3, <1>5, <2>1, StockUntouched
<1> QED
  BY <1>4, <1>5

\* Hand-over: goods, reservation, task and sale journal in one transaction.
LEMMA ShippingOrderInv ==
  ASSUME IInv, NEW c \in Clerks, ClerkStep(c), NEW w \in Orders
  PROVE  OrderInv(w)'
<1> USE DEF IInv, TypeInv
<1> DEFINE k == clerk[c]
           o == k.order
<1>1. OrderInv(w)
  OBVIOUS
<1>2. /\ UNCHANGED <<pay, sub, accepted, uploads>> /\ k.pc # "idle"
      /\ k \in ClerkState /\ o \in Orders
  BY DEF ClerkStep, WriteShipping, HandoverReads, HandoverWrites,
         ShippingFails, TypeOK, ClerkHasOrder
<1>3. inv[o].status # "NONE"
  BY <1>2 DEF OrderInv, Blank
<1>4. PICK s \in ClerkState : /\ clerk' = [clerk EXCEPT ![c] = s]
                              /\ s.pc = "idle" \/ s.order = o
  <2>1. Idle \in ClerkState /\ Idle.pc = "idle"
    BY CostsAssumption DEF Idle, ClerkState
  <2>2. CASE ~HandoverReads(c)
    BY <2>1, <2>2 DEF ClerkStep, WriteShipping, HandoverWrites, ShippingFails
  <2>3. CASE HandoverReads(c)
    <3>1. clerk' \in [Clerks -> ClerkState]
      BY <2>3, ShippingTypes DEF ClerkStep, TypeOK
    <3>2. [k EXCEPT !.pc = "write"].order = o
      BY <1>2 DEF ClerkState
    <3>3. Fulfilling(k, inv[o].paid, GrandTotal(o)).order = o
      BY <1>2 DEF ClerkState, Fulfilling
    <3>4. \E s : /\ clerk' = [clerk EXCEPT ![c] = s]
                 /\ s.pc = "idle" \/ s.order = o
      BY <2>1, <2>3, <3>2, <3>3 DEF HandoverReads
    <3> QED
      BY <3>1, <3>4 DEF TypeOK
  <2> QED
    BY <2>2, <2>3
<1>5. CASE w # o
  <2>1. inv'[w] = inv[w] /\ books'[w] = books[w]
    BY <1>5 DEF ClerkStep, WriteShipping, HandoverReads, HandoverWrites,
                ShippingFails, TypeOK
  <2>2. resv'[w] = resv[w] /\ task'[w] = task[w] /\ ledger'[w] = ledger[w]
    BY <1>5 DEF ClerkStep, WriteShipping, HandoverReads, HandoverWrites,
                ShippingFails, TypeOK
  <2>3. \A d \in Clerks :
          clerk'[d].pc # "idle" /\ clerk'[d].order = w =>
            clerk[d].pc # "idle" /\ clerk[d].order = w
    <3> HIDE DEF o
    <3> QED BY <1>4, <1>5 DEF TypeOK
  <2> QED
    BY <1>1, <1>2, <2>1, <2>2, <2>3, Untouched
<1>6. CASE w = o /\ ~HandoverWrites(c)
  <2>1. UNCHANGED <<resv, task, ledger>>
    BY <1>6 DEF ClerkStep, WriteShipping, HandoverReads, ShippingFails
  <2>2. /\ inv'[o] \in {inv[o], ShippingInvoice(inv[o], k)}
        /\ books'[o] \in {books[o], ShippingBooks(books[o], k)}
    BY <1>2, <1>6 DEF ClerkStep, WriteShipping, HandoverReads, ShippingFails,
                      TypeOK
  <2>3. /\ inv'[o].status = inv[o].status /\ inv'[o].qty = inv[o].qty
        /\ inv'[o].kind = inv[o].kind
    BY <1>2, <2>2, RowTypes, InvoiceFields
  <2>4. books'[o].sale = books[o].sale
    BY <1>2, <2>2, RowTypes, PostingSale
  <2> QED
    BY <1>1, <1>3, <1>6, <2>1, <2>3, <2>4, StockUntouched
<1>7. CASE w = o /\ HandoverWrites(c)
  <2>1. inv'[o] = ShippingInvoice(inv[o], k)
    BY <1>2, <1>7 DEF HandoverWrites, TypeOK
  <2>2. /\ inv'[o].status = inv[o].status /\ inv'[o].qty = inv[o].qty
        /\ inv'[o].kind = inv[o].kind
    BY <1>2, <2>1, RowTypes, InvoiceFields
  <2>3. resv'[o].status = "CONSUMED"
    BY <1>2, <1>7 DEF HandoverWrites, Consumed, TypeOK, Reservation
  <2>4. task'[o].status # "OPEN"
    BY <1>2, <1>7 DEF HandoverWrites, TypeOK, Task
  <2>5. /\ ledger'[o].out = ledger[o].out + inv[o].qty
        /\ ledger'[o].void = ledger[o].void
    BY <1>2, <1>7 DEF HandoverWrites, TypeOK, LedgerSums
  <2>6. books'[o].sale # "NONE"
    <3> DEFINE g == PostSalesInvoice(books[o], k.total, k.paid)
    <3>1. k.total \in Int /\ k.paid \in Int
      BY <1>2 DEF ClerkState
    <3>2. books[o] \in Books(ShippingCosts)
      BY <1>2, RowTypes
    <3>3. g \in Books(ShippingCosts)
      BY <3>1, <3>2, PostingTypes
    <3>4. g.sale # "NONE"
      BY <3>2, PostingSale
    <3>5. books'[o] = ShippingBooks(g, k)
      BY <1>2, <1>7 DEF HandoverWrites, TypeOK
    <3> HIDE DEF g
    <3> QED BY <1>2, <3>3, <3>4, <3>5, PostingSale
  <2>7. ledger'[o].out > 0
    BY <1>1, <1>2, <1>3, <1>7, <2>5, RowTypes DEF OrderInv
  <2> QED
    BY <1>1, <1>3, <1>7, <2>2, <2>3, <2>4, <2>6, <2>7 DEF OrderInv, HasOpenTask
<1> QED
  BY <1>5, <1>6, <1>7

\* Every step keeps the invariant of every order.
LEMMA NextOrderInv == IInv /\ [Next]_vars => \A w \in Orders : OrderInv(w)'
<1> SUFFICES ASSUME IInv, [Next]_vars, NEW w \in Orders
             PROVE  OrderInv(w)'
  OBVIOUS
<1>1. CASE Placing
  BY <1>1, PlacingOrderInv
<1>2. CASE Paying
  BY <1>2, PayingOrderInv
<1>3. CASE Cancelling \/ Cron
  BY <1>3, CallingOffOrderInv, ClockOrderInv DEF Cancelling, Cron
<1>4. CASE Deadlines
  BY <1>4, ClockOrderInv
<1>5. CASE Moving
  BY <1>5, MovingOrderInv
<1>6. CASE Requesting
  BY <1>6, RequestingOrderInv
<1>7. CASE Shipping
  BY <1>7, ShippingOrderInv DEF Shipping
<1>8. CASE Webhook \/ \E o \in Orders : WebhookAccept(o)
  BY <1>8, WebhookOrderInv, CallingOffOrderInv DEF Webhook
<1>9. CASE UNCHANGED vars
  BY <1>9, Untouched DEF vars, IInv
<1> QED
  BY <1>1, <1>2, <1>3, <1>4, <1>5, <1>6, <1>7, <1>8, <1>9 DEF Next

\* The inductive invariant holds always.
LEMMA Inductive == Spec => []IInv
<1>1. Init => IInv
  BY InitTypes, InitOrderInv DEF IInv
<1>2. IInv /\ [Next]_vars => IInv'
  <2> SUFFICES ASSUME IInv, [Next]_vars
               PROVE  IInv'
    OBVIOUS
  <2>1. TypeInv'
    BY NextTypes DEF IInv
  <2>2. \A w \in Orders : OrderInv(w)'
    BY NextOrderInv
  <2> QED
    BY <2>1, <2>2 DEF IInv
<1> QED
  BY <1>1, <1>2, PTL DEF Spec

\* What is promised to a waiting order and what production still owes it
\* always add up to what was ordered, for any number of orders, of clerks and
\* of units, and any order in which production serves them.
THEOREM DemandAlwaysAccounted == Spec => []DemandAccounted
<1>1. IInv => DemandAccounted
  BY DEF IInv, OrderInv, DemandAccounted
<1> QED
  BY <1>1, Inductive, PTL

\* An order whose sale is booked holds no stock and waits for none, even when
\* hand-overs, voids and production interleave.
THEOREM SoldHoldsNothing == Spec => []NothingHeldOnceSold
<1>1. IInv => NothingHeldOnceSold
  BY DEF IInv, OrderInv, NothingHeldOnceSold
<1> QED
  BY <1>1, Inductive, PTL

\* Goods, reservation and sale journal move together, whatever the number of
\* clerks that hand the same order over.
THEOREM HandoverAlwaysWhole == Spec => []HandoverIsWhole
<1>1. IInv => HandoverIsWhole
  BY DEF IInv, OrderInv, HandoverIsWhole
<1> QED
  BY <1>1, Inductive, PTL

\* A void order never holds stock, whoever voids it and whatever is produced
\* afterwards.
THEOREM VoidFreesStock == Spec => []VoidHoldsNoStock
<1>1. IInv => VoidHoldsNoStock
  BY DEF IInv, OrderInv, VoidHoldsNoStock
<1> QED
  BY <1>1, Inductive, PTL

\* The behaviours in which one call is handled at a time are among those of
\* Spec, so all of the above holds of them too.
THEOREM SerialRefinesSpec == SerialSpec => Spec
<1>1. SerialStep => Next
  BY DEF SerialStep, Next, Cron, Paying
<1>2. [SerialStep]_vars => [Next]_vars
  BY <1>1
<1> QED
  BY <1>2, PTL DEF SerialSpec, Spec
=============================================================================
