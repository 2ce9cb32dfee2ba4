------------------------ MODULE SalesOrderMoneyProofs ------------------------
(***************************************************************************)
(* Theorems about the money of SalesOrder: invoices against their payments *)
(* and against the journals, for any set of orders, any number of clerks   *)
(* and any bounds, while calls interleave.                                 *)
(***************************************************************************)
EXTENDS SalesOrderProofs, QuantityProofs
-----------------------------------------------------------------------------
(* Sums of payments. *)

\* What the payments of a sequence still count for.
Counted(s) == [i \in DOMAIN s |-> IF s[i].live THEN s[i].amount ELSE 0]

\* The payments of a sequence are finitely many, their amounts natural.
LEMMA CountedType ==
  ASSUME NEW s \in Seq(Payment)
  PROVE  /\ DOMAIN s = 1 .. Len(s) /\ Len(s) \in Nat
         /\ IsFiniteSet(DOMAIN s)
         /\ Counted(s) \in [DOMAIN s -> Nat]
         /\ Total(Counted(s)) \in Nat
<1>1. DOMAIN s = 1 .. Len(s) /\ Len(s) \in Nat
  OBVIOUS
<1>2. IsFiniteSet(DOMAIN s)
  BY <1>1, FS_Interval
<1>3. Counted(s) \in [DOMAIN s -> Nat]
  <2>1. \A i \in DOMAIN s : s[i] \in Payment
    OBVIOUS
  <2> QED
    BY <2>1 DEF Counted, Payment
<1>4. Total(Counted(s)) \in Nat
  BY <1>2, <1>3, TotalType
<1> QED
  BY <1>1, <1>2, <1>3, <1>4

\* h has the quantities of q and one more, of a.
Extends(h, q, a) ==
  \E D, E :
    /\ IsFiniteSet(D) /\ E \in SUBSET D
    /\ a \in D /\ \A x \in D : x \in E <=> x # a
    /\ q \in [E -> Nat] /\ h \in [D -> Nat]
    /\ \A x \in E : h[x] = q[x]

\* The sum of quantities of which one is new.
LEMMA TotalGrows ==
  ASSUME NEW h, NEW q, NEW a, Extends(h, q, a)
  PROVE  Total(h) = Total(q) + h[a]
<1>1. PICK D, E :
        /\ IsFiniteSet(D) /\ E \in SUBSET D
        /\ a \in D /\ \A x \in D : x \in E <=> x # a
        /\ q \in [E -> Nat] /\ h \in [D -> Nat]
        /\ \A x \in E : h[x] = q[x]
  BY DEF Extends
<1> DEFINE old == [x \in D |-> IF x = a THEN 0 ELSE q[x]]
<1>2. /\ old \in [D -> Nat] /\ old[a] = 0
      /\ \A x \in E : q[x] = old[x]
      /\ \A x \in D \ E : old[x] = 0
      /\ \A x \in D : x # a => h[x] = old[x]
  BY <1>1
<1> HIDE DEF old
<1>3. Total(old) = Total(q)
  BY <1>1, <1>2, TotalWithin
<1>4. Total(h) + old[a] = Total(old) + h[a]
  BY <1>1, <1>2, TotalChange
<1>5. Total(h) \in Nat /\ Total(old) \in Nat /\ h[a] \in Nat
  BY <1>1, <1>2, TotalType
<1> QED
  BY <1>2, <1>3, <1>4, <1>5

\* A new payment adds its amount.
LEMMA CountedAppend ==
  ASSUME NEW s \in Seq(Payment), NEW p \in Payment, p.live
  PROVE  Total(Counted(Append(s, p))) = Total(Counted(s)) + p.amount
<1> DEFINE n == Len(s)
           t == Append(s, p)
           h == Counted(t)
           q == Counted(s)
<1>1. /\ DOMAIN s = 1 .. n /\ n \in Nat /\ q \in [1 .. n -> Nat]
  BY CountedType
<1>2. /\ t \in Seq(Payment) /\ DOMAIN t = 1 .. n + 1
      /\ t[n + 1] = p /\ \A i \in 1 .. n : t[i] = s[i]
  BY <1>1
<1> HIDE DEF n, t
<1>3. h \in [1 .. n + 1 -> Nat]
  BY <1>2, CountedType
<1>4. h[n + 1] = p.amount /\ \A i \in 1 .. n : h[i] = q[i]
  BY <1>1, <1>2 DEF Counted
<1> HIDE DEF h, q
<1>5. Total(h) = Total(q) + h[n + 1]
  <2> DEFINE D == 1 .. n + 1
             E == 1 .. n
             a == n + 1
  <2>1. /\ IsFiniteSet(D) /\ E \in SUBSET D
        /\ a \in D /\ \A x \in D : x \in E <=> x # a
    BY <1>1, FS_Interval
  <2>2. /\ q \in [E -> Nat] /\ h \in [D -> Nat]
        /\ \A x \in E : h[x] = q[x]
    BY <1>1, <1>3, <1>4
  <2> HIDE DEF D, E, a
  <2>3. Extends(h, q, a)
    BY <2>1, <2>2 DEF Extends
  <2>4. Total(h) = Total(q) + h[a]
    BY <2>3, TotalGrows
  <2> QED
    BY <2>4 DEF a
<1> QED
  BY <1>4, <1>5 DEF h, q, t

\* A payment that is voided counts no more, and what remains is not negative.
LEMMA CountedVoid ==
  ASSUME NEW s \in Seq(Payment), NEW i \in DOMAIN s, s[i].live
  PROVE  /\ [s EXCEPT ![i].live = FALSE] \in Seq(Payment)
         /\ Total(Counted([s EXCEPT ![i].live = FALSE])) + s[i].amount
              = Total(Counted(s))
<1> DEFINE t == [s EXCEPT ![i].live = FALSE]
           D == DOMAIN s
<1>1. D = 1 .. Len(s) /\ Len(s) \in Nat /\ IsFiniteSet(D)
      /\ Counted(s) \in [D -> Nat]
  BY CountedType
<1>2. \A j \in D : s[j] \in Payment
  OBVIOUS
<1>3. [s[i] EXCEPT !.live = FALSE] \in Payment
  BY <1>2 DEF Payment
<1>4. t \in [1 .. Len(s) -> Payment]
  BY <1>1, <1>2, <1>3
<1>5. t \in Seq(Payment) /\ DOMAIN t = D
  BY <1>1, <1>4
<1>6. Counted(t) \in [D -> Nat]
  <2> HIDE DEF t
  <2> QED BY <1>5, CountedType
<1>7. /\ Counted(t)[i] = 0 /\ Counted(s)[i] = s[i].amount
      /\ \A j \in D : j # i => Counted(t)[j] = Counted(s)[j]
  <2>1. t[i].live = FALSE /\ \A j \in D : j # i => t[j] = s[j]
    BY <1>2 DEF Payment
  <2> HIDE DEF t
  <2> QED BY <1>5, <2>1 DEF Counted
<1>8. Total(Counted(t)) + Counted(s)[i] = Total(Counted(s)) + Counted(t)[i]
  <2> DEFINE c == Counted(s)
             d == Counted(t)
  <2>1. i \in D /\ c \in [D -> Nat] /\ d \in [D -> Nat] /\ IsFiniteSet(D)
        /\ \A j \in D : j # i => d[j] = c[j]
    BY <1>1, <1>6, <1>7
  <2> HIDE DEF D, c, d
  <2>2. Total(d) + c[i] = Total(c) + d[i]
    BY <2>1, TotalChange
  <2> QED
    BY <2>2 DEF c, d
<1>9. Total(Counted(s)) \in Nat /\ Total(Counted(t)) \in Nat
  <2> HIDE DEF t
  <2> QED BY <1>5, CountedType
<1> QED
  BY <1>5, <1>7, <1>8, <1>9

\* When nothing is counted, no payment is live.
LEMMA NothingCounted ==
  ASSUME NEW s \in Seq(Payment), Total(Counted(s)) = 0,
         \A i \in DOMAIN s : s[i].amount > 0
  PROVE  \A i \in DOMAIN s : ~s[i].live
<1> SUFFICES ASSUME NEW i \in DOMAIN s, s[i].live
             PROVE  FALSE
  OBVIOUS
<1>1. /\ IsFiniteSet(DOMAIN s) /\ Counted(s) \in [DOMAIN s -> Nat]
  BY CountedType
<1>2. Counted(s)[i] <= Total(Counted(s))
  BY <1>1, TotalChange
<1>3. Counted(s)[i] = s[i].amount
  BY DEF Counted
<1>4. s[i].amount > 0 /\ s[i].amount \in Nat
  <2>1. s[i] \in Payment
    OBVIOUS
  <2> QED
    BY <2>1 DEF Payment
<1> QED
  BY <1>2, <1>3, <1>4
-----------------------------------------------------------------------------
(* What a step may do to the money of one order, whichever action it is. *)

\* Nothing: at most the fulfillment status is set back, or the deadline set.
Keeps(w) ==
  /\ pay'[w] = pay[w] /\ books'[w] = books[w] /\ ledger'[w] = ledger[w]
  /\ inv'[w].status = inv[w].status /\ inv'[w].qty = inv[w].qty
  /\ inv'[w].ship = inv[w].ship /\ inv'[w].paid = inv[w].paid
  /\ inv'[w].returned = inv[w].returned
  /\ \/ inv'[w].ful = inv[w].ful
     \/ inv'[w].ful # "DELIVERED" /\ inv[w].status # "VOID"

\* The order is placed: unpaid, paid at once, or paid and handed over.
Places(w) ==
  \E q \in Nat \ {0}, kind \in AllKinds, f \in Fulfillments :
    /\ inv[w].status = "NONE"
    /\ \/ /\ inv'[w] = NewInvoice(kind, q, "ISSUED", f, 0)
          /\ f # "DELIVERED" /\ ledger'[w] = ledger[w]
          /\ pay'[w] = pay[w] /\ books'[w] = books[w]
       \/ \E p \in Payment :
            /\ p = NewPayment(q, "PREPAYMENT", "STAFF")
            /\ pay'[w] = <<p>>
            /\ inv'[w] = NewInvoice(kind, q, "PAID", f, q)
            /\ \/ /\ f # "DELIVERED" /\ ledger'[w] = ledger[w]
                  /\ books'[w] = PostPayment(books[w], p)
               \/ /\ ledger'[w] = [ledger[w] EXCEPT !.out = q]
                  /\ books'[w] =
                       PostSalesInvoice(PostPayment(books[w], p), q, q)

\* Money comes in.
Pays(w) ==
  \E p \in Payment, s \in {"PAID", "PARTIAL"}, f \in Fulfillments :
    /\ inv[w].status \notin {"NONE", "VOID"}
    /\ p.live /\ p.amount > 0
    /\ p.book = "PREPAYMENT" \/ inv[w].ful = "DELIVERED"
    /\ inv[w].paid + p.amount <= GrandTotal(w)
    /\ inv'[w] = SetPaid(inv[w], inv[w].paid + p.amount, s, f)
    /\ f = inv[w].ful \/ f # "DELIVERED"
    /\ s = "PAID" =>
         \/ inv[w].paid + p.amount >= GrandTotal(w) - inv[w].returned
         \/ w \in accepted /\ p.amount = inv[w].qty
    /\ pay'[w] = Append(pay[w], p) /\ ledger'[w] = ledger[w]
    /\ books'[w] = PostPayment(books[w], p)

\* A payment is taken back.
TakesBack(w) ==
  \E i \in DOMAIN pay[w], f \in Fulfillments :
    LET paid == Max({0, inv[w].paid - pay[w][i].amount})
    IN  /\ inv[w].status # "VOID" /\ pay[w][i].live
        /\ inv'[w] = SetPaid(inv[w], paid, StatusAfterVoid(paid), f)
        /\ f = inv[w].ful \/ f # "DELIVERED"
        /\ pay'[w] = [pay[w] EXCEPT ![i].live = FALSE]
        /\ books'[w] = ReversePayment(books[w], pay[w][i])
        /\ ledger'[w] = ledger[w]

\* The order is called off.
CallsOff(w) ==
  /\ inv[w].status \notin {"NONE", "VOID"} /\ inv[w].paid = 0
  /\ inv'[w] = Voided(inv[w]) /\ pay'[w] = pay[w]
  /\ \/ books'[w] = books[w]
     \/ books'[w] = ReverseSalesInvoice(books[w])
  /\ \/ /\ AlreadyReversed(w) \/ ledger[w].out = 0
        /\ ledger'[w] = ledger[w]
     \/ /\ ledger'[w] = [ledger[w] EXCEPT !.void = @ + ledger[w].out]
        /\ books'[w] = ReverseSalesInvoice(books[w])

\* Goods come back.
Credits(w) ==
  \E units \in Nat \ {0}, a \in Int :
    /\ inv[w].ful = "DELIVERED"
    /\ inv'[w] = Credited(inv[w], units) /\ pay'[w] = pay[w]
    /\ ledger'[w] = ledger[w]
    /\ books'[w] = PostCreditNote(books[w], a, units - a)

\* A clerk writes to the order.
Ships(w) ==
  \E c \in Clerks :
    clerk[c].order = w /\ (WriteShipping(c) \/ HandoverWrites(c))

MoneyStep(w) == \/ Keeps(w) \/ Places(w) \/ Pays(w) \/ TakesBack(w)
                \/ CallsOff(w) \/ Credits(w) \/ Ships(w)

\* Rows that stay as they are keep their money.
LEMMA SameRowsKeep ==
  ASSUME NEW w, inv'[w] = inv[w], pay'[w] = pay[w], books'[w] = books[w],
         ledger'[w] = ledger[w]
  PROVE  MoneyStep(w)
BY DEF MoneyStep, Keeps

\* Placing an order.
LEMMA PlacingMoney ==
  ASSUME IInv, Placing, NEW w \in Orders
  PROVE  MoneyStep(w)
<1> USE DEF IInv, TypeInv
<1>1. PICK o \in Orders, q \in Qtys :
        \/ WalkInSale(o, q)
        \/ \E kind \in Kinds, paidNow \in BOOLEAN :
             CreateInvoice(o, q, kind, paidNow)
        \/ \E kind \in Kinds : Checkout(o, q, kind)
  BY DEF Placing
<1>2. q \in Nat \ {0} /\ Kinds \subseteq AllKinds
  BY BoundsAssumption, KindsAssumption DEF Qtys
<1>3. inv[o].status = "NONE"
  BY <1>1 DEF WalkInSale, CreateInvoice, Checkout
<1>4. CASE w # o
  <2>1. /\ inv'[w] = inv[w] /\ pay'[w] = pay[w]
        /\ books'[w] = books[w] /\ ledger'[w] = ledger[w]
    BY <1>1, <1>4 DEF WalkInSale, CreateInvoice, Checkout, TypeOK
  <2> QED
    BY <2>1, SameRowsKeep
<1>5. CASE w = o
  <2> DEFINE p == NewPayment(q, "PREPAYMENT", "STAFF")
  <2>1. p \in Payment
    BY <1>2, NewRowTypes
  <2>2. CASE WalkInSale(o, q)
    <3>1. /\ inv'[o] = NewInvoice("WALK_IN", q, "PAID", "DELIVERED", q)
          /\ pay'[o] = <<p>>
          /\ books'[o] = PostSalesInvoice(PostPayment(books[o], p), q, q)
          /\ ledger'[o] = [ledger[o] EXCEPT !.out = q]
      BY <2>2 DEF WalkInSale, TypeOK
    <3> QED
      BY <1>2, <1>3, <1>5, <2>1, <3>1
         DEF MoneyStep, Places, AllKinds, Fulfillments
  <2>3. ASSUME NEW kind \in Kinds, NEW paidNow \in BOOLEAN,
               CreateInvoice(o, q, kind, paidNow)
        PROVE  MoneyStep(w)
    <3>1. PICK f \in {"NEEDS_PRODUCTION", "READY_TO_PACK",
                      "AWAITING_PAYMENT"} :
            inv' = [inv EXCEPT ![o] =
                      IF paidNow THEN NewInvoice(kind, q, "PAID", f, q)
                                 ELSE NewInvoice(kind, q, "ISSUED", f, 0)]
      BY <2>3 DEF CreateInvoice
    <3>2. /\ ledger'[o] = ledger[o]
          /\ pay'[o] = IF paidNow THEN <<p>> ELSE pay[o]
          /\ books'[o] = IF paidNow THEN PostPayment(books[o], p)
                                    ELSE books[o]
      BY <2>3 DEF CreateInvoice, TypeOK
    <3>3. inv'[o] = IF paidNow THEN NewInvoice(kind, q, "PAID", f, q)
                               ELSE NewInvoice(kind, q, "ISSUED", f, 0)
      BY <3>1 DEF TypeOK
    <3>4. f \in Fulfillments /\ f # "DELIVERED" /\ kind \in AllKinds
      BY <1>2 DEF Fulfillments
    <3> HIDE DEF p
    <3>5. CASE paidNow
      <4>1. /\ pay'[o] = <<p>> /\ books'[o] = PostPayment(books[o], p)
            /\ ledger'[o] = ledger[o]
            /\ inv'[o] = NewInvoice(kind, q, "PAID", f, q)
        BY <3>2, <3>3, <3>5
      <4>2. Places(o)
        BY <1>2, <1>3, <2>1, <3>4, <4>1 DEF Places, p
      <4> QED
        BY <1>5, <4>2 DEF MoneyStep
    <3>6. CASE ~paidNow
      <4>1. /\ pay'[o] = pay[o] /\ books'[o] = books[o]
            /\ ledger'[o] = ledger[o]
            /\ inv'[o] = NewInvoice(kind, q, "ISSUED", f, 0)
        BY <3>2, <3>3, <3>6
      <4>2. Places(o)
        BY <1>2, <1>3, <3>4, <4>1 DEF Places
      <4> QED
        BY <1>5, <4>2 DEF MoneyStep
    <3> QED
      BY <3>5, <3>6
  <2>4. ASSUME NEW kind \in Kinds, Checkout(o, q, kind)
        PROVE  MoneyStep(w)
    <3>1. PICK f \in {"NEEDS_PRODUCTION", "READY_TO_PACK",
                      "AWAITING_PAYMENT"} :
            inv' = [inv EXCEPT ![o] = NewInvoice(kind, q, "ISSUED", f, 0)]
      BY <2>4 DEF Checkout
    <3>2. /\ inv'[o] = NewInvoice(kind, q, "ISSUED", f, 0)
          /\ pay'[o] = pay[o] /\ books'[o] = books[o]
          /\ ledger'[o] = ledger[o]
      BY <2>4, <3>1 DEF Checkout, TypeOK
    <3>3. f \in Fulfillments /\ f # "DELIVERED" /\ kind \in AllKinds
      BY <1>2 DEF Fulfillments
    <3>4. Places(o)
      BY <1>2, <1>3, <3>2, <3>3 DEF Places
    <3> QED
      BY <1>5, <3>4 DEF MoneyStep
  <2> QED
    BY <1>1, <2>2, <2>3, <2>4
<1> QED
  BY <1>4, <1>5

\* What recordPayment, the verification of a proof and the settlement of a
\* notification write to an order.
LEMMA PayRows ==
  ASSUME TypeOK, NEW o \in Orders, NEW p \in Payment, p.live, p.amount > 0,
         p.book = "PREPAYMENT" \/ inv[o].ful = "DELIVERED",
         inv[o].status \notin {"NONE", "VOID"},
         inv[o].paid + p.amount <= GrandTotal(o),
         NEW s \in {"PAID", "PARTIAL"}, NEW f \in Fulfillments,
         f = inv[o].ful \/ f # "DELIVERED",
         s = "PAID" =>
           \/ inv[o].paid + p.amount >= GrandTotal(o) - inv[o].returned
           \/ o \in accepted /\ p.amount = inv[o].qty,
         inv' = [inv EXCEPT ![o] = SetPaid(@, inv[o].paid + p.amount, s, f)],
         pay' = [pay EXCEPT ![o] = Append(@, p)],
         books' = [books EXCEPT ![o] = PostPayment(@, p)],
         ledger' = ledger, NEW w \in Orders
  PROVE  MoneyStep(w)
<1>1. CASE w # o
  <2>1. inv'[w] = inv[w] /\ pay'[w] = pay[w] /\ books'[w] = books[w]
    BY <1>1 DEF TypeOK
  <2> QED
    BY <2>1, SameRowsKeep
<1>2. CASE w = o
  <2>1. /\ inv'[o] = SetPaid(inv[o], inv[o].paid + p.amount, s, f)
        /\ pay'[o] = Append(pay[o], p) /\ books'[o] = PostPayment(books[o], p)
    BY DEF TypeOK
  <2>2. Pays(o)
    BY <2>1 DEF Pays
  <2> QED
    BY <1>2, <2>2 DEF MoneyStep
<1> QED
  BY <1>1, <1>2

\* The status an order gets when it is paid in full.
LEMMA WhenPaid ==
  ASSUME NEW o
  PROVE  /\ FulfillmentWhenPaid(o) \in Fulfillments
         /\ FulfillmentWhenPaid(o) # "DELIVERED"
BY DEF FulfillmentWhenPaid, Fulfillments

\* Payments, their voids and their proofs.
LEMMA PayingMoney ==
  ASSUME IInv, Paying, NEW w \in Orders
  PROVE  MoneyStep(w)
<1> USE DEF IInv, TypeInv
<1>1. ASSUME NEW o \in Orders, NEW amount \in 1 .. MaxAmount,
             RecordPayment(o, amount)
      PROVE  MoneyStep(w)
  <2> DEFINE book == IF SettledBeforeHandover(o) THEN "PREPAYMENT"
                                                 ELSE "RECEIVABLE"
             p == NewPayment(amount, book, "STAFF")
             full == inv[o].paid + amount >= GrandTotal(o)
             s == IF full THEN "PAID" ELSE "PARTIAL"
             f == IF SettledBeforeHandover(o) /\ full
                  THEN FulfillmentWhenPaid(o) ELSE inv[o].ful
  <2>1. amount \in Nat /\ amount > 0 /\ inv[o].paid \in Nat
        /\ inv[o].returned \in Nat /\ GrandTotal(o) \in Nat
    BY RowTypes
  <2>2. p \in Payment
    BY <2>1, NewRowTypes
  <2>3. p.live /\ p.amount = amount /\ p.book = book
    BY DEF NewPayment
  <2>4. book = "PREPAYMENT" \/ inv[o].ful = "DELIVERED"
    BY DEF SettledBeforeHandover
  <2>5. inv[o].status \notin {"NONE", "VOID"}
    BY <1>1 DEF RecordPayment
  <2>6. inv[o].paid + amount <= GrandTotal(o)
    <3> DEFINE due == GrandTotal(o) - inv[o].returned
    <3>1. inv[o].paid + amount <= Max({0, due})
      BY <1>1 DEF RecordPayment, MayPay
    <3>2. due \in Int /\ due <= GrandTotal(o)
      BY <2>1
    <3> HIDE DEF due
    <3>3. Max({0, due}) = IF 0 >= due THEN 0 ELSE due
      BY <3>2, MaxOfTwo
    <3> QED
      BY <2>1, <3>1, <3>2, <3>3
  <2>7. s \in {"PAID", "PARTIAL"} /\ f \in Fulfillments
        /\ (f = inv[o].ful \/ f # "DELIVERED")
    BY WhenPaid, RowTypes
  <2>8. s = "PAID" => inv[o].paid + amount >= GrandTotal(o) - inv[o].returned
    BY <2>1
  <2>9. /\ inv' = [inv EXCEPT ![o] = SetPaid(@, inv[o].paid + amount, s, f)]
        /\ pay' = [pay EXCEPT ![o] = Append(@, p)]
        /\ books' = [books EXCEPT ![o] = PostPayment(@, p)]
        /\ ledger' = ledger
    BY <1>1 DEF RecordPayment
  <2> HIDE DEF p, s, f, book
  <2> QED
    BY <2>1, <2>2, <2>3, <2>4, <2>5, <2>6, <2>7, <2>8, <2>9, PayRows
<1>2. ASSUME NEW o \in Orders, NEW amount \in 1 .. MaxAmount,
             VerifySubmission(o, amount)
      PROVE  MoneyStep(w)
  <2> DEFINE p == NewPayment(amount, "PREPAYMENT", "PROOF")
             full == inv[o].paid + amount >= GrandTotal(o) - inv[o].returned
             s == IF full THEN "PAID" ELSE "PARTIAL"
             f == IF full THEN FulfillmentWhenPaid(o) ELSE inv[o].ful
  <2>1. amount \in Nat /\ amount > 0 /\ inv[o].paid \in Nat
        /\ inv[o].returned \in Nat /\ GrandTotal(o) \in Nat
    BY RowTypes
  <2>2. p \in Payment
    BY <2>1, NewRowTypes
  <2>3. p.live /\ p.amount = amount /\ p.book = "PREPAYMENT"
    BY DEF NewPayment
  <2>4. inv[o].status \notin {"NONE", "VOID"}
    BY <1>2 DEF VerifySubmission, OrderInv, Blank
  <2>5. inv[o].paid + amount <= GrandTotal(o)
    <3> DEFINE due == GrandTotal(o) - inv[o].paid - inv[o].returned
    <3>1. amount <= Max({0, due})
      BY <1>2 DEF VerifySubmission, Outstanding
    <3>2. due \in Int /\ due <= GrandTotal(o) - inv[o].paid
      BY <2>1
    <3> HIDE DEF due
    <3>3. Max({0, due}) = IF 0 >= due THEN 0 ELSE due
      BY <3>2, MaxOfTwo
    <3> QED
      BY <2>1, <3>1, <3>2, <3>3
  <2>6. s \in {"PAID", "PARTIAL"} /\ f \in Fulfillments
        /\ (f = inv[o].ful \/ f # "DELIVERED")
    BY WhenPaid, RowTypes
  <2>7. s = "PAID" => inv[o].paid + amount >= GrandTotal(o) - inv[o].returned
    OBVIOUS
  <2>8. /\ inv' = [inv EXCEPT ![o] = SetPaid(@, inv[o].paid + amount, s, f)]
        /\ pay' = [pay EXCEPT ![o] = Append(@, p)]
        /\ books' = [books EXCEPT ![o] = PostPayment(@, p)]
        /\ ledger' = ledger
    BY <1>2 DEF VerifySubmission
  <2> HIDE DEF p, s, f
  <2> QED
    BY <2>1, <2>2, <2>3, <2>4, <2>5, <2>6, <2>7, <2>8, PayRows
<1>3. ASSUME NEW o \in Orders, NEW i \in DOMAIN pay[o], VoidPayment(o, i)
      PROVE  MoneyStep(w)
  <2>1. CASE w # o
    <3>1. /\ inv'[w] = inv[w] /\ pay'[w] = pay[w]
          /\ books'[w] = books[w] /\ ledger'[w] = ledger[w]
      BY <1>3, <2>1 DEF VoidPayment, TypeOK
    <3> QED
      BY <3>1, SameRowsKeep
  <2>2. CASE w = o
    <3> DEFINE paid == Max({0, inv[o].paid - pay[o][i].amount})
               f == IF inv[o].ful = "READY_TO_PACK" /\ inv[o].kind # "CREDIT"
                    THEN "AWAITING_PAYMENT" ELSE inv[o].ful
    <3>1. inv[o].status # "VOID" /\ pay[o][i].live
      BY <1>3 DEF VoidPayment, IsVoidable
    <3>2. /\ inv'[o] = SetPaid(inv[o], paid, StatusAfterVoid(paid), f)
          /\ books'[o] = ReversePayment(books[o], pay[o][i])
          /\ ledger'[o] = ledger[o]
      BY <1>3 DEF VoidPayment, TypeOK
    <3>3. pay'[o] = [pay[o] EXCEPT ![i].live = FALSE]
      BY <1>3 DEF VoidPayment, TypeOK
    <3>4. f \in Fulfillments /\ (f = inv[o].ful \/ f # "DELIVERED")
      BY RowTypes DEF Fulfillments
    <3> HIDE DEF f
    <3>5. TakesBack(o)
      BY <3>1, <3>2, <3>3, <3>4 DEF TakesBack
    <3> QED
      BY <2>2, <3>5 DEF MoneyStep
  <2> QED
    BY <2>1, <2>2
<1>4. ASSUME NEW o \in Orders,
             \/ ReadSubmission(o) \/ \E more \in BOOLEAN : WriteProof(o, more)
             \/ SubmitProofLate(o) \/ RejectSubmission(o)
      PROVE  MoneyStep(w)
  BY <1>4, SameRowsKeep DEF ReadSubmission, WriteProof, SubmitProofLate,
                            RejectSubmission
<1> QED
  BY <1>1, <1>2, <1>3, <1>4 DEF Paying

\* Notifications of the payment gateway.
LEMMA WebhookMoney ==
  ASSUME IInv, NEW w \in Orders, NEW o \in Orders,
         WebhookSettlement(o) \/ WebhookIgnored(o) \/ WebhookAccept(o)
  PROVE  MoneyStep(w)
<1> USE DEF IInv, TypeInv
<1>1. CASE WebhookSettlement(o)
  <2> DEFINE p == NewPayment(inv[o].qty, "PREPAYMENT", "MIDTRANS")
             f == FulfillmentWhenPaid(o)
  <2>1. inv[o].status \notin {"NONE", "VOID"} /\ o \in accepted
    BY <1>1 DEF WebhookSettlement, MaySettle, OrderInv, Blank
  <2>2. inv[o].qty \in Nat /\ inv[o].qty > 0
    BY <2>1, RowTypes DEF OrderInv
  <2>3. p \in Payment
    BY <2>2, NewRowTypes
  <2>4. p.live /\ p.amount = inv[o].qty /\ p.book = "PREPAYMENT"
    BY DEF NewPayment
  <2>5. inv[o].paid + inv[o].qty <= GrandTotal(o)
    BY <1>1 DEF WebhookSettlement
  <2>6. /\ inv' = [inv EXCEPT ![o] =
                     SetPaid(@, inv[o].paid + inv[o].qty, "PAID", f)]
        /\ pay' = [pay EXCEPT ![o] = Append(@, p)]
        /\ books' = [books EXCEPT ![o] = PostPayment(@, p)]
        /\ ledger' = ledger
    BY <1>1 DEF WebhookSettlement
  <2>7. f \in Fulfillments /\ f # "DELIVERED"
    BY WhenPaid
  <2> HIDE DEF p, f
  <2> QED
    BY <2>1, <2>2, <2>3, <2>4, <2>5, <2>6, <2>7, PayRows
<1>2. CASE WebhookIgnored(o) \/ WebhookAccept(o)
  BY <1>2, SameRowsKeep DEF WebhookIgnored, WebhookAccept
<1> QED
  BY <1>1, <1>2

\* Voids, expiry and failed payments.
LEMMA CallingOffMoney ==
  ASSUME IInv, NEW w \in Orders, NEW o \in Orders,
         VoidInvoice(o) \/ ExpireSubmission(o) \/ ExpireOrder(o)
           \/ WebhookFailure(o)
  PROVE  MoneyStep(w)
<1> USE DEF IInv, TypeInv
<1>1. UNCHANGED pay
  BY DEF VoidInvoice, ExpireSubmission, ExpireOrder, WebhookFailure
<1>2. CASE w # o
  <2>1. inv'[w] = inv[w] /\ books'[w] = books[w] /\ ledger'[w] = ledger[w]
    BY <1>2 DEF VoidInvoice, ExpireSubmission, ExpireOrder, WebhookFailure,
                MarkVoid, ReverseSaleEntries, TypeOK
  <2> QED
    BY <1>1, <2>1, SameRowsKeep
<1>3. CASE w = o
  <2>1. CASE UNCHANGED <<inv, books, ledger>>
    BY <1>1, <2>1, SameRowsKeep
  <2>2. CASE ~UNCHANGED <<inv, books, ledger>>
    <3>1. MarkVoid(o) /\ inv[o].paid = 0
      BY <2>2 DEF VoidInvoice, ExpireSubmission, ExpireOrder, WebhookFailure,
                  IsStillUnpaid
    <3>2. inv[o].status \notin {"NONE", "VOID"}
      BY <2>2 DEF VoidInvoice, ExpireSubmission, ExpireOrder, IsStillUnpaid,
                  WebhookFailure, OrderInv, Blank
    <3>3. \/ books' = books
          \/ books' = [books EXCEPT ![o] = ReverseSalesInvoice(@)]
      BY DEF VoidInvoice, ExpireSubmission, ExpireOrder, WebhookFailure
    <3>4. \/ books'[o] = books[o]
          \/ books'[o] = ReverseSalesInvoice(books[o])
      BY <3>3 DEF TypeOK
    <3>5. inv'[o] = Voided(inv[o])
      BY <3>1 DEF MarkVoid, TypeOK
    <3>6. \/ /\ AlreadyReversed(o) \/ ledger[o].out = 0
             /\ ledger'[o] = ledger[o]
          \/ /\ ledger'[o] = [ledger[o] EXCEPT !.void = @ + ledger[o].out]
             /\ books'[o] = ReverseSalesInvoice(books[o])
      <4>1. \/ /\ AlreadyReversed(o) \/ ledger[o].out = 0
               /\ ledger' = ledger
            \/ /\ ReverseSaleEntries(o)
               /\ books' = [books EXCEPT ![o] = ReverseSalesInvoice(@)]
        BY <2>2 DEF VoidInvoice, ExpireSubmission, ExpireOrder,
                    WebhookFailure
      <4> QED
        BY <4>1 DEF ReverseSaleEntries, TypeOK
    <3>7. CallsOff(o)
      BY <1>1, <3>1, <3>2, <3>4, <3>5, <3>6 DEF CallsOff
    <3> QED
      BY <1>3, <3>7 DEF MoneyStep
  <2> QED
    BY <2>1, <2>2
<1> QED
  BY <1>2, <1>3

\* Deadlines pass.
LEMMA ClockMoney ==
  ASSUME IInv, PickExpiredOrders \/ Deadlines, NEW w \in Orders
  PROVE  MoneyStep(w)
<1> USE DEF IInv, TypeInv
<1>1. UNCHANGED <<pay, books, ledger>>
  BY DEF PickExpiredOrders, Deadlines, ReservationDeadline, SubmissionDeadline
<1>2. \/ inv'[w] = inv[w] \/ inv'[w] = [inv[w] EXCEPT !.due = TRUE]
  BY DEF PickExpiredOrders, Deadlines, ReservationDeadline,
         SubmissionDeadline, TypeOK
<1>3. inv[w] \in Invoice
  BY RowTypes
<1> QED
  BY <1>1, <1>2, <1>3 DEF MoneyStep, Keeps, Invoice

\* Production, returns and stock taken elsewhere.
LEMMA MovingMoney ==
  ASSUME IInv, Moving, NEW w \in Orders
  PROVE  MoneyStep(w)
<1> USE DEF IInv, TypeInv
<1>1. \A units \in Qtys : units \in Nat /\ units > 0
  BY BoundsAssumption DEF Qtys
<1>2. ASSUME NEW units \in Nat, OtherOut(units)
      PROVE  MoneyStep(w)
  BY <1>2, SameRowsKeep DEF OtherOut
<1>3. ASSUME NEW units \in Nat, Produce(units)
      PROVE  MoneyStep(w)
  <2>1. UNCHANGED <<pay, books, ledger>>
    BY <1>3 DEF Produce
  <2> DEFINE available == Max({0, stock + units - Reserved})
  <2>2. PICK alloc \in [Orders -> 0 .. MaxQty] :
          /\ IsFifoAllocation(alloc, available)
          /\ inv' = [o \in Orders |->
               IF alloc[o] > 0 /\ alloc[o] = task[o].shortage
               THEN [inv[o] EXCEPT !.ful = IF inv[o].status = "PAID"
                                           THEN "READY_TO_PACK"
                                           ELSE "AWAITING_PAYMENT"]
               ELSE inv[o]]
    BY <1>3 DEF Produce
  <2> HIDE DEF available
  <2>3. alloc[w] > 0 => inv[w].status # "VOID"
    BY <2>2, AllocationBounds DEF IsDead
  <2>4. inv[w] \in Invoice
    BY RowTypes
  <2>5. CASE alloc[w] > 0 /\ alloc[w] = task[w].shortage
    <3> DEFINE f == IF inv[w].status = "PAID" THEN "READY_TO_PACK"
                                              ELSE "AWAITING_PAYMENT"
    <3>1. f # "DELIVERED"
      OBVIOUS
    <3>2. inv'[w] = [inv[w] EXCEPT !.ful = f]
      BY <2>2, <2>5
    <3> HIDE DEF f
    <3> QED
      BY <2>1, <2>3, <2>4, <2>5, <3>1, <3>2 DEF MoneyStep, Keeps, Invoice
  <2>6. CASE ~(alloc[w] > 0 /\ alloc[w] = task[w].shortage)
    <3>1. inv'[w] = inv[w]
      BY <2>2, <2>6
    <3> QED
      BY <2>1, <3>1, SameRowsKeep
  <2> QED
    BY <2>5, <2>6
<1>4. ASSUME NEW o \in Orders, NEW units \in Nat, units > 0,
             CreateCreditNote(o, units)
      PROVE  MoneyStep(w)
  <2>1. CASE w # o
    <3>1. /\ inv'[w] = inv[w] /\ pay'[w] = pay[w]
          /\ books'[w] = books[w] /\ ledger'[w] = ledger[w]
      BY <1>4, <2>1 DEF CreateCreditNote, TypeOK
    <3> QED
      BY <3>1, SameRowsKeep
  <2>2. CASE w = o
    <3> DEFINE owed == GrandTotal(o) - inv[o].paid - inv[o].returned
               a == Max({0, Min({units, owed})})
    <3>1. a \in Int
      <4>1. owed \in Int
        BY RowTypes
      <4> HIDE DEF owed
      <4>2. Min({units, owed}) \in Int
        BY <4>1, MinOfTwo
      <4> QED
        BY <4>2, MaxOfTwo
    <3>2. /\ inv[o].ful = "DELIVERED" /\ pay'[o] = pay[o]
          /\ ledger'[o] = ledger[o]
          /\ inv'[o] = Credited(inv[o], units)
          /\ books'[o] = PostCreditNote(books[o], a, units - a)
      BY <1>4 DEF CreateCreditNote, TypeOK
    <3> HIDE DEF a
    <3>3. Credits(o)
      BY <1>4, <3>1, <3>2 DEF Credits
    <3> QED
      BY <2>2, <3>3 DEF MoneyStep
  <2> QED
    BY <2>1, <2>2
<1> QED
  BY <1>1, <1>2, <1>3, <1>4 DEF Moving

\* A clerk's request and its steps.
LEMMA ShippingMoney ==
  ASSUME IInv, Requesting \/ Shipping, NEW w \in Orders
  PROVE  MoneyStep(w)
<1> USE DEF IInv, TypeInv
<1>1. CASE UNCHANGED <<inv, pay, books, ledger>>
  BY <1>1, SameRowsKeep
<1>2. ASSUME NEW c \in Clerks, WriteShipping(c) \/ HandoverWrites(c)
      PROVE  MoneyStep(w)
  <2>1. CASE clerk[c].order = w
    BY <1>2, <2>1 DEF MoneyStep, Ships
  <2>2. CASE clerk[c].order # w
    <3>1. /\ inv'[w] = inv[w] /\ pay'[w] = pay[w]
          /\ books'[w] = books[w] /\ ledger'[w] = ledger[w]
      BY <1>2, <2>2 DEF WriteShipping, HandoverWrites, TypeOK
    <3> QED
      BY <3>1, SameRowsKeep
  <2> QED
    BY <2>1, <2>2
<1>3. Requesting => UNCHANGED <<inv, pay, books, ledger>>
  BY DEF Requesting, ReadForShipping
<1>4. ASSUME NEW c \in Clerks, HandoverReads(c) \/ ShippingFails(c)
      PROVE  UNCHANGED <<inv, pay, books, ledger>>
  BY <1>4 DEF HandoverReads, ShippingFails
<1> QED
  BY <1>1, <1>2, <1>3, <1>4 DEF Shipping, ClerkStep

\* Every step is one of those, for every order.
LEMMA MoneySteps ==
  ASSUME IInv, [Next]_vars, NEW w \in Orders
  PROVE  MoneyStep(w)
<1>1. CASE Placing
  BY <1>1, PlacingMoney
<1>2. CASE Paying
  BY <1>2, PayingMoney
<1>3. CASE Cancelling \/ Cron
  BY <1>3, CallingOffMoney, ClockMoney DEF Cancelling, Cron
<1>4. CASE Deadlines
  BY <1>4, ClockMoney
<1>5. CASE Moving
  BY <1>5, MovingMoney
<1>6. CASE Requesting \/ Shipping
  BY <1>6, ShippingMoney
<1>7. CASE Webhook \/ \E o \in Orders : WebhookAccept(o)
  BY <1>7, WebhookMoney, CallingOffMoney DEF Webhook
<1>8. CASE UNCHANGED vars
  BY <1>8, SameRowsKeep DEF vars
<1> QED
  BY <1>1, <1>2, <1>3, <1>4, <1>5, <1>6, <1>7, <1>8 DEF Next

-----------------------------------------------------------------------------
(* The journals and the fields they move. *)

\* The journal of a payment, and its mirror.
LEMMA PaymentAmounts ==
  ASSUME NEW g \in Books(ShippingCosts), NEW p \in Payment
  PROVE  /\ PostPayment(g, p).deposit =
              g.deposit + (IF p.book = "PREPAYMENT" THEN p.amount ELSE 0)
         /\ PostPayment(g, p).ar =
              g.ar - (IF p.book = "PREPAYMENT" THEN 0 ELSE p.amount)
         /\ PostPayment(g, p).refund = g.refund
         /\ PostPayment(g, p).sale = g.sale
         /\ PostPayment(g, p).saleAr = g.saleAr
         /\ PostPayment(g, p).saleDeposit = g.saleDeposit
         /\ ReversePayment(g, p).deposit =
              g.deposit - (IF p.book = "PREPAYMENT" THEN p.amount ELSE 0)
         /\ ReversePayment(g, p).ar =
              g.ar + (IF p.book = "PREPAYMENT" THEN 0 ELSE p.amount)
         /\ ReversePayment(g, p).refund = g.refund
         /\ ReversePayment(g, p).sale = g.sale
         /\ ReversePayment(g, p).saleAr = g.saleAr
         /\ ReversePayment(g, p).saleDeposit = g.saleDeposit
<1>1. p.amount \in Int /\ g.deposit \in Int /\ g.ar \in Int
  BY DEF Payment, Books
<1>2. CASE p.book = "PREPAYMENT"
  BY <1>1, <1>2 DEF PostPayment, ReversePayment, PostCustomerPrepayment, Books
<1>3. CASE p.book # "PREPAYMENT"
  BY <1>1, <1>3 DEF PostPayment, ReversePayment, PostCustomerPayment, Books
<1> QED
  BY <1>2, <1>3

\* The sale journal and its mirror.
LEMMA SaleAmounts ==
  ASSUME NEW g \in Books(ShippingCosts)
  PROVE  /\ \A t, p \in Int : g.sale = "NONE" =>
              /\ PostSalesInvoice(g, t, p).sale = "POSTED"
              /\ PostSalesInvoice(g, t, p).saleAr = t - p
              /\ PostSalesInvoice(g, t, p).saleDeposit = p
              /\ PostSalesInvoice(g, t, p).ar = g.ar + (t - p)
              /\ PostSalesInvoice(g, t, p).deposit = g.deposit - p
              /\ PostSalesInvoice(g, t, p).refund = g.refund
         /\ \A t, p : g.sale # "NONE" => PostSalesInvoice(g, t, p) = g
         /\ g.sale = "POSTED" =>
              /\ ReverseSalesInvoice(g).sale = "REVERSED"
              /\ ReverseSalesInvoice(g).ar = g.ar - g.saleAr
              /\ ReverseSalesInvoice(g).deposit = g.deposit + g.saleDeposit
              /\ ReverseSalesInvoice(g).refund = g.refund
         /\ g.sale # "POSTED" => ReverseSalesInvoice(g) = g
<1>1. ASSUME NEW t \in Int, NEW p \in Int, g.sale = "NONE"
      PROVE  /\ PostSalesInvoice(g, t, p).sale = "POSTED"
             /\ PostSalesInvoice(g, t, p).saleAr = t - p
             /\ PostSalesInvoice(g, t, p).saleDeposit = p
             /\ PostSalesInvoice(g, t, p).ar = g.ar + (t - p)
             /\ PostSalesInvoice(g, t, p).deposit = g.deposit - p
             /\ PostSalesInvoice(g, t, p).refund = g.refund
  BY <1>1 DEF PostSalesInvoice, Books
<1>2. \A t, p : g.sale # "NONE" => PostSalesInvoice(g, t, p) = g
  BY DEF PostSalesInvoice
<1>3. g.sale = "POSTED" =>
        /\ ReverseSalesInvoice(g).sale = "REVERSED"
        /\ ReverseSalesInvoice(g).ar = g.ar - g.saleAr
        /\ ReverseSalesInvoice(g).deposit = g.deposit + g.saleDeposit
        /\ ReverseSalesInvoice(g).refund = g.refund
  BY DEF ReverseSalesInvoice, Books
<1>4. g.sale # "POSTED" => ReverseSalesInvoice(g) = g
  BY DEF ReverseSalesInvoice
<1> QED
  BY <1>1, <1>2, <1>3, <1>4

\* A credit note, and the journal of a changed shipping cost.
LEMMA OtherAmounts ==
  ASSUME NEW g \in Books(ShippingCosts)
  PROVE  /\ \A a, b \in Int :
              /\ PostCreditNote(g, a, b).ar = g.ar - a
              /\ PostCreditNote(g, a, b).refund = g.refund + b
              /\ PostCreditNote(g, a, b).deposit = g.deposit
              /\ PostCreditNote(g, a, b).sale = g.sale
              /\ PostCreditNote(g, a, b).saleAr = g.saleAr
              /\ PostCreditNote(g, a, b).saleDeposit = g.saleDeposit
         /\ \A k \in ClerkState :
              /\ ShippingBooks(g, k).deposit = g.deposit
              /\ ShippingBooks(g, k).refund = g.refund
              /\ ShippingBooks(g, k).sale = g.sale
              /\ ShippingCosts = {0} => ShippingBooks(g, k) = g
<1>1. \A a, b \in Int :
        /\ PostCreditNote(g, a, b).ar = g.ar - a
        /\ PostCreditNote(g, a, b).refund = g.refund + b
        /\ PostCreditNote(g, a, b).deposit = g.deposit
        /\ PostCreditNote(g, a, b).sale = g.sale
        /\ PostCreditNote(g, a, b).saleAr = g.saleAr
        /\ PostCreditNote(g, a, b).saleDeposit = g.saleDeposit
  BY DEF PostCreditNote, Books
<1>2. ASSUME NEW k \in ClerkState
      PROVE  /\ ShippingBooks(g, k).deposit = g.deposit
             /\ ShippingBooks(g, k).refund = g.refund
             /\ ShippingBooks(g, k).sale = g.sale
             /\ ShippingCosts = {0} => ShippingBooks(g, k) = g
  <2>1. /\ ShippingBooks(g, k).deposit = g.deposit
        /\ ShippingBooks(g, k).refund = g.refund
        /\ ShippingBooks(g, k).sale = g.sale
    BY DEF ShippingBooks, PostShippingAdjustment, Books
  <2>2. ASSUME ShippingCosts = {0}
        PROVE  ShippingBooks(g, k) = g
    <3>1. k.oldShip = 0 /\ k.newShip \in {0, NoCost}
      BY <2>2 DEF ClerkState
    <3> QED
      BY <3>1 DEF ShippingBooks, PostShippingAdjustment
  <2> QED
    BY <2>1, <2>2
<1> QED
  BY <1>1, <1>2

\* What the updates write to the money of an invoice.
LEMMA InvoiceMoney ==
  ASSUME NEW i \in Invoice
  PROVE  /\ \A paid, s, f :
              /\ SetPaid(i, paid, s, f).paid = paid
              /\ SetPaid(i, paid, s, f).status = s
              /\ SetPaid(i, paid, s, f).ful = f
              /\ SetPaid(i, paid, s, f).returned = i.returned
              /\ SetPaid(i, paid, s, f).qty = i.qty
              /\ SetPaid(i, paid, s, f).ship = i.ship
         /\ Voided(i).paid = i.paid /\ Voided(i).returned = i.returned
         /\ Voided(i).qty = i.qty /\ Voided(i).ship = i.ship
         /\ Voided(i).status = "VOID" /\ Voided(i).ful = "CANCELLED"
         /\ \A n \in Nat :
              /\ Credited(i, n).paid = i.paid
              /\ Credited(i, n).returned = i.returned + n
              /\ Credited(i, n).qty = i.qty /\ Credited(i, n).ship = i.ship
              /\ Credited(i, n).ful = i.ful
              /\ Credited(i, n).status \in {i.status, "RETURNED"}
         /\ \A k \in ClerkState :
              /\ ShippingInvoice(i, k).paid = i.paid
              /\ ShippingInvoice(i, k).returned = i.returned
              /\ ShippingInvoice(i, k).qty = i.qty
              /\ ShippingInvoice(i, k).status = i.status
              /\ ShippingInvoice(i, k).ful =
                   IF k.next = "SAME" THEN i.ful ELSE k.next
              /\ ShippingInvoice(i, k).ship =
                   IF k.newShip = NoCost THEN i.ship ELSE k.newShip
<1>1. \A paid, s, f :
        /\ SetPaid(i, paid, s, f).paid = paid
        /\ SetPaid(i, paid, s, f).status = s
        /\ SetPaid(i, paid, s, f).ful = f
        /\ SetPaid(i, paid, s, f).returned = i.returned
        /\ SetPaid(i, paid, s, f).qty = i.qty
        /\ SetPaid(i, paid, s, f).ship = i.ship
  BY DEF SetPaid, Invoice
<1>2. /\ Voided(i).paid = i.paid /\ Voided(i).returned = i.returned
      /\ Voided(i).qty = i.qty /\ Voided(i).ship = i.ship
      /\ Voided(i).status = "VOID" /\ Voided(i).ful = "CANCELLED"
  BY DEF Voided, Invoice
<1>3. \A n \in Nat :
        /\ Credited(i, n).paid = i.paid
        /\ Credited(i, n).returned = i.returned + n
        /\ Credited(i, n).qty = i.qty /\ Credited(i, n).ship = i.ship
        /\ Credited(i, n).ful = i.ful
        /\ Credited(i, n).status \in {i.status, "RETURNED"}
  BY DEF Credited, Invoice
<1>4. \A k \in ClerkState :
        /\ ShippingInvoice(i, k).paid = i.paid
        /\ ShippingInvoice(i, k).returned = i.returned
        /\ ShippingInvoice(i, k).qty = i.qty
        /\ ShippingInvoice(i, k).status = i.status
        /\ ShippingInvoice(i, k).ful =
             IF k.next = "SAME" THEN i.ful ELSE k.next
        /\ ShippingInvoice(i, k).ship =
             IF k.newShip = NoCost THEN i.ship ELSE k.newShip
  BY DEF ShippingInvoice, Invoice, ClerkState
<1> QED
  BY <1>1, <1>2, <1>3, <1>4

\* The journal of a credit note, for one pair of amounts.
LEMMA CreditAmounts ==
  ASSUME NEW g \in Books(ShippingCosts), NEW a \in Int, NEW b \in Int
  PROVE  /\ PostCreditNote(g, a, b).ar = g.ar - a
         /\ PostCreditNote(g, a, b).refund = g.refund + b
         /\ PostCreditNote(g, a, b).deposit = g.deposit
         /\ PostCreditNote(g, a, b).sale = g.sale
         /\ PostCreditNote(g, a, b).saleAr = g.saleAr
         /\ PostCreditNote(g, a, b).saleDeposit = g.saleDeposit
BY OtherAmounts

\* A payment written to an invoice, one row at a time.
LEMMA PaidRow ==
  ASSUME NEW i \in Invoice, NEW j, NEW n, NEW s, NEW f, j = SetPaid(i, n, s, f)
  PROVE  /\ j.paid = n /\ j.status = s /\ j.qty = i.qty
         /\ j.returned = i.returned /\ j.ship = i.ship /\ j.ful = f
BY InvoiceMoney

\* A credit written to an invoice.
LEMMA CreditedRow ==
  ASSUME NEW i \in Invoice, NEW j, NEW n \in Nat, j = Credited(i, n)
  PROVE  /\ j.paid = i.paid /\ j.qty = i.qty /\ j.ship = i.ship
         /\ j.returned = i.returned + n /\ j.ful = i.ful
         /\ j.status \in {i.status, "RETURNED"}
BY InvoiceMoney

\* A clerk's write to an invoice.
LEMMA ShippingRow ==
  ASSUME NEW i \in Invoice, NEW j, NEW k \in ClerkState,
         j = ShippingInvoice(i, k)
  PROVE  /\ j.paid = i.paid /\ j.returned = i.returned
         /\ j.qty = i.qty /\ j.status = i.status
BY InvoiceMoney

-----------------------------------------------------------------------------
(* Clerks and the sales they rely on. *)

\* What a step may do to a clerk's call: nothing, end it, begin it, or go from
\* its first read to the writes.
ClerkMove(c) ==
  LET k == clerk[c]
      o == k.order
  IN  \/ clerk'[c] = k
      \/ clerk'[c] = Idle
      \/ \E x \in Orders : \E next, byTracking, ship :
           ReadForShipping(c, x, next, byTracking, ship)
      \/ /\ HandoverReads(c)
         /\ \/ /\ clerk'[c] = [k EXCEPT !.pc = "write"]
               /\ inv[o].ful = "DELIVERED"
            \/ /\ clerk'[c] = Fulfilling(k, inv[o].paid, GrandTotal(o))
               /\ ~IsRefused(o)

\* Only requests and the clerks' own steps move a clerk.
LEMMA ClerksWait ==
  ASSUME [Next]_vars, ~Requesting, ~Shipping
  PROVE  UNCHANGED clerk
<1>1. Placing \/ Paying => UNCHANGED clerk
  <2>1. Placing => UNCHANGED clerk
    BY DEF Placing, WalkInSale, CreateInvoice, Checkout
  <2>2. \A o, amount : RecordPayment(o, amount) => UNCHANGED clerk
    BY DEF RecordPayment
  <2>3. \A o, amount : VerifySubmission(o, amount) => UNCHANGED clerk
    BY DEF VerifySubmission
  <2>4. \A o, i : VoidPayment(o, i) => UNCHANGED clerk
    BY DEF VoidPayment
  <2>5. \A o, more : WriteProof(o, more) => UNCHANGED clerk
    BY DEF WriteProof
  <2>6. \A o : ReadSubmission(o) \/ SubmitProofLate(o) \/ RejectSubmission(o)
                => UNCHANGED clerk
    BY DEF ReadSubmission, SubmitProofLate, RejectSubmission
  <2> QED
    BY <2>1, <2>2, <2>3, <2>4, <2>5, <2>6 DEF Paying
<1>2. Cancelling \/ Cron \/ Deadlines => UNCHANGED clerk
  BY DEF Cancelling, VoidInvoice, Cron, PickExpiredOrders, ExpireSubmission,
         ExpireOrder, Deadlines, ReservationDeadline, SubmissionDeadline
<1>3. Moving => UNCHANGED clerk
  BY DEF Moving, Produce, OtherOut, CreateCreditNote
<1>4. Webhook \/ (\E o \in Orders : WebhookAccept(o)) => UNCHANGED clerk
  BY DEF Webhook, WebhookSettlement, WebhookFailure, WebhookIgnored,
         WebhookAccept
<1>5. UNCHANGED vars => UNCHANGED clerk
  BY DEF vars
<1> QED
  BY <1>1, <1>2, <1>3, <1>4, <1>5 DEF Next

\* Every step is one of those, for every clerk.
LEMMA ClerkMoves ==
  ASSUME IInv, [Next]_vars, NEW c \in Clerks
  PROVE  ClerkMove(c)
<1> USE DEF IInv, TypeInv
<1>1. CASE UNCHANGED clerk
  BY <1>1 DEF ClerkMove
<1>2. CASE Requesting
  <2>1. PICK d \in Clerks, o \in Orders, byTracking \in BOOLEAN,
             next \in OperatorTargets \cup {"SAME"},
             ship \in ShippingCosts \cup {NoCost} :
          ReadForShipping(d, o, next, byTracking, ship)
    BY <1>2 DEF Requesting, OperatorTargets
  <2>2. CASE c = d
    BY <2>1, <2>2 DEF ClerkMove
  <2>3. CASE c # d
    <3>1. clerk'[c] = clerk[c]
      BY <2>1, <2>3 DEF ReadForShipping, TypeOK
    <3> QED
      BY <3>1 DEF ClerkMove
  <2> QED
    BY <2>2, <2>3
<1>3. ASSUME NEW d \in Clerks, ClerkStep(d)
      PROVE  ClerkMove(c)
  <2>1. CASE c = d /\ ~HandoverReads(d)
    <3>1. clerk'[c] = Idle
      BY <1>3, <2>1 DEF ClerkStep, WriteShipping, HandoverWrites,
                        ShippingFails, TypeOK
    <3> QED
      BY <3>1 DEF ClerkMove
  <2>2. CASE c = d /\ HandoverReads(d)
    <3> DEFINE k == clerk[c]
               o == k.order
               ended == clerk'[c] = Idle
               again == /\ clerk'[c] = [k EXCEPT !.pc = "write"]
                        /\ inv[o].ful = "DELIVERED"
               begun == /\ clerk'[c] = Fulfilling(k, inv[o].paid,
                                                  GrandTotal(o))
                        /\ ~IsRefused(o)
    <3>1. clerk'[c] = IF inv[o].ful = "DELIVERED"
                      THEN [k EXCEPT !.pc = "write"]
                      ELSE IF IsRefused(o) THEN Idle
                      ELSE Fulfilling(k, inv[o].paid, GrandTotal(o))
      BY <2>2 DEF HandoverReads, TypeOK
    <3>2. ended \/ again \/ begun
      BY <3>1
    <3>3. again \/ begun => ClerkMove(c)
      BY <2>2 DEF ClerkMove
    <3> QED
      BY <3>2, <3>3 DEF ClerkMove
  <2>3. CASE c # d
    <3>1. \E x : clerk' = [clerk EXCEPT ![d] = x]
      BY <1>3 DEF ClerkStep, WriteShipping, HandoverReads, HandoverWrites,
                  ShippingFails
    <3>2. clerk'[c] = clerk[c]
      BY <2>3, <3>1 DEF TypeOK
    <3> QED
      BY <3>2 DEF ClerkMove
  <2> QED
    BY <2>1, <2>2, <2>3
<1> QED
  BY <1>1, <1>2, <1>3, ClerksWait DEF Shipping

\* A clerk that is there before and after a step was at the same order before.
LEMMA ClerkStays ==
  ASSUME IInv, [Next]_vars, NEW c \in Clerks,
         clerk'[c].pc \in {"write", "fulfil"}
  PROVE  /\ clerk[c].pc # "idle" /\ clerk'[c].order = clerk[c].order
         /\ clerk[c].order \in Orders /\ clerk[c] \in ClerkState
         /\ \/ clerk'[c] = clerk[c]
            \/ /\ clerk'[c].pc = "write" /\ UNCHANGED <<inv, books>>
               /\ inv[clerk[c].order].ful = "DELIVERED"
            \/ /\ clerk'[c].pc = "fulfil" /\ UNCHANGED <<inv, books>>
               /\ clerk'[c].total = GrandTotal(clerk[c].order)
<1> USE DEF IInv, TypeInv
<1>1. ClerkMove(c)
  BY ClerkMoves
<1>2. clerk[c] \in ClerkState
  BY DEF TypeOK
<1>3. clerk[c].pc # "idle" => clerk[c].order \in Orders
  BY DEF ClerkHasOrder
<1>4. CASE clerk'[c] = clerk[c]
  BY <1>2, <1>3, <1>4
<1>5. CASE HandoverReads(c)
  <2>1. clerk[c].pc = "read" /\ UNCHANGED <<inv, books>>
    BY <1>5 DEF HandoverReads
  <2> DEFINE k == clerk[c]
             o == k.order
  <2>2. /\ [k EXCEPT !.pc = "write"].pc = "write"
        /\ [k EXCEPT !.pc = "write"].order = o
        /\ Fulfilling(k, inv[o].paid, GrandTotal(o)).pc = "fulfil"
        /\ Fulfilling(k, inv[o].paid, GrandTotal(o)).order = o
        /\ Fulfilling(k, inv[o].paid, GrandTotal(o)).total = GrandTotal(o)
    BY <1>2 DEF Fulfilling, ClerkState
  <2>3. Idle.pc = "idle"
    BY DEF Idle
  <2>4. ~ \E x \in Orders : \E next, byTracking, ship :
            ReadForShipping(c, x, next, byTracking, ship)
    BY <2>1 DEF ReadForShipping
  <2> QED
    BY <1>1, <1>2, <1>3, <2>1, <2>2, <2>3, <2>4 DEF ClerkMove
<1>6. CASE clerk'[c] = Idle
  BY <1>6 DEF Idle
<1>7. ASSUME NEW x \in Orders, NEW next, NEW byTracking, NEW ship,
             ReadForShipping(c, x, next, byTracking, ship)
      PROVE  FALSE
  BY <1>7 DEF ReadForShipping, TypeOK
<1> QED
  BY <1>1, <1>4, <1>5, <1>6, <1>7 DEF ClerkMove

\* A sale that is booked stays booked, or becomes reversed.
LEMMA SaleStays ==
  ASSUME IInv, [Next]_vars, NEW w \in Orders, books[w].sale # "NONE"
  PROVE  books'[w].sale # "NONE"
<1> USE DEF IInv, TypeInv
<1>1. MoneyStep(w)
  BY MoneySteps
<1>2. books[w] \in Books(ShippingCosts) /\ pay[w] \in Seq(Payment)
  BY RowTypes
<1>3. ~Places(w)
  BY DEF Places, OrderInv, Blank
<1>4. CASE Pays(w)
  BY <1>2, <1>4, PostingSale DEF Pays
<1>5. CASE TakesBack(w)
  <2>1. \A i \in DOMAIN pay[w] : pay[w][i] \in Payment
    BY <1>2
  <2> QED
    BY <1>2, <1>5, <2>1, PostingSale DEF TakesBack
<1>6. CASE CallsOff(w)
  BY <1>2, <1>6, PostingSale DEF CallsOff
<1>7. CASE Credits(w)
  BY <1>2, <1>7, PostingSale DEF Credits
<1>8. CASE Ships(w)
  <2>1. PICK c \in Clerks :
          clerk[c].order = w /\ (WriteShipping(c) \/ HandoverWrites(c))
    BY <1>8 DEF Ships
  <2>2. clerk[c] \in ClerkState
    BY DEF TypeOK
  <2>3. PICK g \in Books(ShippingCosts) :
          books'[w] = ShippingBooks(g, clerk[c]) /\ g.sale # "NONE"
    <3>1. CASE WriteShipping(c)
      BY <1>2, <2>1, <3>1 DEF WriteShipping, TypeOK
    <3>2. CASE HandoverWrites(c)
      <4> DEFINE g == PostSalesInvoice(books[w], clerk[c].total,
                                       clerk[c].paid)
      <4>1. g = books[w]
        BY <1>2, SaleAmounts
      <4>2. books'[w] = ShippingBooks(g, clerk[c])
        BY <2>1, <3>2 DEF HandoverWrites, TypeOK
      <4> QED
        BY <1>2, <4>1, <4>2
    <3> QED
      BY <2>1, <3>1, <3>2
  <2> QED
    BY <2>2, <2>3, PostingSale
<1>9. CASE Keeps(w)
  BY <1>9 DEF Keeps
<1> QED
  BY <1>1, <1>3, <1>4, <1>5, <1>6, <1>7, <1>8, <1>9 DEF MoneyStep

-----------------------------------------------------------------------------
(* The money of an order, as an invariant. *)

\* What has been paid is what the live payments add up to, within the bill;
\* before the sale is booked it is all held as an advance.
MoneyInv(o) ==
  /\ inv[o].paid = Total(Counted(pay[o]))
  /\ \A i \in DOMAIN pay[o] : pay[o][i].amount > 0
  /\ inv[o].status = "VOID" => inv[o].paid = 0
  /\ inv[o].paid <= GrandTotal(o)
  /\ inv[o].ful = "DELIVERED" => books[o].sale # "NONE"
  /\ books[o].sale = "NONE" =>
       /\ books[o].deposit = inv[o].paid /\ books[o].refund = 0
       /\ \A i \in DOMAIN pay[o] :
            pay[o][i].live => pay[o][i].book = "PREPAYMENT"

\* A clerk that writes without handing over does so to an order that is sold.
ClerkSold(c) ==
  clerk[c].pc = "write" => books[clerk[c].order].sale # "NONE"

MInv == /\ IInv
        /\ \A o \in Orders : MoneyInv(o)
        /\ \A c \in Clerks : ClerkSold(c)

\* No order, no money.
LEMMA InitMoney == Init => MInv
<1> SUFFICES ASSUME Init PROVE MInv
  OBVIOUS
<1>1. IInv
  BY InitTypes, InitOrderInv DEF IInv
<1>2. ASSUME NEW o \in Orders
      PROVE  MoneyInv(o)
  <2>1. pay[o] = << >> /\ books[o] = NoBooks /\ inv[o] = NoInvoice
    BY DEF Init
  <2>2. Counted(pay[o]) \in [{} -> Nat]
    BY <2>1 DEF Counted
  <2>3. Total(Counted(pay[o])) = 0
    BY <2>2, TotalZero
  <2> QED
    BY <2>1, <2>3 DEF MoneyInv, NoBooks, NoInvoice, NewInvoice, GrandTotal
<1>3. \A c \in Clerks : ClerkSold(c)
  BY DEF Init, ClerkSold, Idle
<1> QED
  BY <1>1, <1>2, <1>3 DEF MInv

\* Facts about the rows of an order that its cases share.
LEMMA MoneyTypes ==
  ASSUME IInv, NEW w \in Orders
  PROVE  /\ inv[w] \in Invoice /\ books[w] \in Books(ShippingCosts)
         /\ pay[w] \in Seq(Payment)
         /\ \A i \in DOMAIN pay[w] : pay[w][i] \in Payment
         /\ \A i \in DOMAIN pay[w] : pay[w][i].amount \in Nat
         /\ inv[w].paid \in Nat /\ inv[w].qty \in Nat /\ inv[w].ship \in Nat
         /\ inv[w].returned \in Nat /\ GrandTotal(w) \in Nat
         /\ books[w].deposit \in Int /\ books[w].refund \in Int
         /\ books[w].ar \in Int /\ Total(Counted(pay[w])) \in Nat
<1> USE DEF IInv, TypeInv
<1>1. /\ inv[w] \in Invoice /\ books[w] \in Books(ShippingCosts)
      /\ pay[w] \in Seq(Payment) /\ GrandTotal(w) \in Nat
      /\ inv[w].paid \in Nat /\ inv[w].qty \in Nat /\ inv[w].ship \in Nat
      /\ inv[w].returned \in Nat
  BY RowTypes
<1>2. /\ \A i \in DOMAIN pay[w] : pay[w][i] \in Payment
      /\ \A i \in DOMAIN pay[w] : pay[w][i].amount \in Nat
  <2>1. \A i \in DOMAIN pay[w] : pay[w][i] \in Payment
    BY <1>1
  <2>2. \A p \in Payment : p.amount \in Nat
    BY DEF Payment
  <2> QED
    BY <2>1, <2>2
<1>3. books[w].deposit \in Int /\ books[w].refund \in Int
      /\ books[w].ar \in Int
  BY <1>1 DEF Books
<1>4. Total(Counted(pay[w])) \in Nat
  BY <1>1, CountedType
<1> QED
  BY <1>1, <1>2, <1>3, <1>4

\* The money of an order that is placed.
LEMMA PlacesMoneyInv ==
  ASSUME MInv, NEW w \in Orders, Places(w)
  PROVE  MoneyInv(w)'
<1>1. PICK q \in Nat \ {0}, kind \in AllKinds, f \in Fulfillments :
        /\ inv[w].status = "NONE"
        /\ \/ /\ inv'[w] = NewInvoice(kind, q, "ISSUED", f, 0)
              /\ f # "DELIVERED"
              /\ pay'[w] = pay[w] /\ books'[w] = books[w]
           \/ \E p \in Payment :
                /\ p = NewPayment(q, "PREPAYMENT", "STAFF")
                /\ pay'[w] = <<p>>
                /\ inv'[w] = NewInvoice(kind, q, "PAID", f, q)
                /\ \/ f # "DELIVERED" /\ books'[w] = PostPayment(books[w], p)
                   \/ books'[w] =
                        PostSalesInvoice(PostPayment(books[w], p), q, q)
  BY DEF Places
<1>2. /\ books[w] \in Books(ShippingCosts) /\ pay[w] \in Seq(Payment)
      /\ inv[w].paid \in Nat /\ books[w].deposit \in Int
  BY MoneyTypes DEF MInv
<1>3. /\ pay[w] = << >> /\ books[w].sale = "NONE"
  BY <1>1 DEF MInv, IInv, OrderInv, Blank
<1>4. Total(Counted(<< >>)) = 0
  <2>1. Counted(<< >>) \in [{} -> Nat]
    BY DEF Counted
  <2> QED
    BY <2>1, TotalZero
<1>5. inv[w].paid = 0 /\ books[w].deposit = 0 /\ books[w].refund = 0
  BY <1>3, <1>4 DEF MInv, MoneyInv
<1>6. CASE /\ inv'[w] = NewInvoice(kind, q, "ISSUED", f, 0)
           /\ f # "DELIVERED"
           /\ pay'[w] = pay[w] /\ books'[w] = books[w]
  <2>1. /\ inv'[w].paid = 0 /\ inv'[w].qty = q /\ inv'[w].ship = 0
        /\ inv'[w].status = "ISSUED" /\ inv'[w].ful = f
    BY <1>6 DEF NewInvoice
  <2>2. GrandTotal(w)' = q
    BY <2>1 DEF GrandTotal
  <2> QED
    BY <1>3, <1>4, <1>5, <1>6, <2>1, <2>2 DEF MoneyInv
<1>7. ASSUME NEW p \in Payment,
             p = NewPayment(q, "PREPAYMENT", "STAFF"), pay'[w] = <<p>>,
             inv'[w] = NewInvoice(kind, q, "PAID", f, q),
             \/ f # "DELIVERED" /\ books'[w] = PostPayment(books[w], p)
             \/ books'[w] = PostSalesInvoice(PostPayment(books[w], p), q, q)
      PROVE  MoneyInv(w)'
  <2>1. /\ inv'[w].paid = q /\ inv'[w].qty = q /\ inv'[w].ship = 0
        /\ inv'[w].status = "PAID" /\ inv'[w].ful = f
    BY <1>7 DEF NewInvoice
  <2>2. GrandTotal(w)' = q
    BY <2>1 DEF GrandTotal
  <2>3. p.amount = q /\ p.live /\ p.book = "PREPAYMENT"
    BY <1>7 DEF NewPayment
  <2>4. Total(Counted(pay'[w])) = q
    <3>1. << >> \in Seq(Payment) /\ Append(<< >>, p) = <<p>>
      OBVIOUS
    <3>2. Total(Counted(Append(<< >>, p))) = Total(Counted(<< >>)) + p.amount
      BY <2>3, <3>1, CountedAppend
    <3> QED
      BY <1>4, <1>7, <2>3, <3>1, <3>2
  <2>5. \A i \in DOMAIN pay'[w] : pay'[w][i] = p
    BY <1>7
  <2> DEFINE g == PostPayment(books[w], p)
  <2>6. g \in Books(ShippingCosts) /\ g.sale = "NONE"
        /\ g.deposit = q /\ g.refund = 0
    BY <1>2, <1>3, <1>5, <2>3, PaymentPostingTypes, PaymentAmounts
  <2>7. \/ f # "DELIVERED" /\ books'[w] = g
        \/ books'[w].sale # "NONE"
    <3> HIDE DEF g
    <3> QED BY <1>7, <2>6, PostingSale DEF g
  <2> HIDE DEF g
  <2> QED
    BY <2>1, <2>2, <2>3, <2>4, <2>5, <2>6, <2>7 DEF MoneyInv
<1> QED
  BY <1>1, <1>6, <1>7

\* The money of an order that is paid.
LEMMA PaysMoneyInv ==
  ASSUME MInv, NEW w \in Orders, Pays(w)
  PROVE  MoneyInv(w)'
<1>1. PICK p \in Payment, s \in {"PAID", "PARTIAL"}, f \in Fulfillments :
        /\ inv[w].status \notin {"NONE", "VOID"}
        /\ p.live /\ p.amount > 0
        /\ p.book = "PREPAYMENT" \/ inv[w].ful = "DELIVERED"
        /\ inv[w].paid + p.amount <= GrandTotal(w)
        /\ inv'[w] = SetPaid(inv[w], inv[w].paid + p.amount, s, f)
        /\ f = inv[w].ful \/ f # "DELIVERED"
        /\ pay'[w] = Append(pay[w], p)
        /\ books'[w] = PostPayment(books[w], p)
  BY DEF Pays
<1>2. MoneyInv(w) /\ IInv
  BY DEF MInv
<1>3. /\ inv[w] \in Invoice /\ books[w] \in Books(ShippingCosts)
      /\ pay[w] \in Seq(Payment) /\ inv[w].paid \in Nat
      /\ books[w].deposit \in Int /\ p.amount \in Nat
  BY <1>2, MoneyTypes DEF Payment
<1>4. /\ inv'[w].paid = inv[w].paid + p.amount /\ inv'[w].status = s
      /\ inv'[w].ful = f /\ inv'[w].qty = inv[w].qty
      /\ inv'[w].ship = inv[w].ship
  BY <1>1, <1>3, InvoiceMoney
<1>5. GrandTotal(w)' = GrandTotal(w)
  BY <1>4 DEF GrandTotal
<1>6. inv'[w].paid = Total(Counted(pay'[w]))
  BY <1>1, <1>2, <1>3, <1>4, CountedAppend DEF MoneyInv
<1>7. \A i \in DOMAIN pay'[w] : pay'[w][i] = p \/
        (i \in DOMAIN pay[w] /\ pay'[w][i] = pay[w][i])
  BY <1>1, <1>3
<1>8. /\ books'[w].sale = books[w].sale /\ books'[w].refund = books[w].refund
      /\ books'[w].deposit =
           books[w].deposit + (IF p.book = "PREPAYMENT" THEN p.amount ELSE 0)
  BY <1>1, <1>3, PaymentAmounts
<1>9. books[w].sale = "NONE" => p.book = "PREPAYMENT"
  BY <1>1, <1>2 DEF MoneyInv
<1>10. s # "VOID" /\ inv[w].status # "VOID"
  BY <1>1
<1> QED
  BY <1>1, <1>2, <1>4, <1>5, <1>6, <1>7, <1>8, <1>9, <1>10 DEF MoneyInv

\* The money of an order one of whose payments is taken back.
LEMMA TakesBackMoneyInv ==
  ASSUME MInv, NEW w \in Orders, TakesBack(w)
  PROVE  MoneyInv(w)'
<1>1. PICK i \in DOMAIN pay[w], f \in Fulfillments :
        LET paid == Max({0, inv[w].paid - pay[w][i].amount})
        IN  /\ inv[w].status # "VOID" /\ pay[w][i].live
            /\ inv'[w] = SetPaid(inv[w], paid, StatusAfterVoid(paid), f)
            /\ f = inv[w].ful \/ f # "DELIVERED"
            /\ pay'[w] = [pay[w] EXCEPT ![i].live = FALSE]
            /\ books'[w] = ReversePayment(books[w], pay[w][i])
  BY DEF TakesBack
<1>2. MoneyInv(w) /\ IInv
  BY DEF MInv
<1> DEFINE p == pay[w][i]
           n == inv[w].paid - p.amount
<1>3. /\ inv[w] \in Invoice /\ books[w] \in Books(ShippingCosts)
      /\ pay[w] \in Seq(Payment) /\ p \in Payment /\ p.amount \in Nat
      /\ \A j \in DOMAIN pay[w] : pay[w][j] \in Payment
      /\ inv[w].paid \in Nat /\ books[w].deposit \in Int
  BY <1>2, MoneyTypes
<1>4. /\ pay'[w] \in Seq(Payment)
      /\ Total(Counted(pay'[w])) + p.amount = Total(Counted(pay[w]))
  BY <1>1, <1>3, CountedVoid
<1>5. Total(Counted(pay'[w])) \in Nat
  BY <1>4, CountedType
<1>6. n \in Nat /\ n = Total(Counted(pay'[w]))
  BY <1>2, <1>3, <1>4, <1>5 DEF MoneyInv
<1>7. Max({0, n}) = n
  <2> HIDE DEF n
  <2>1. Max({0, n}) = IF 0 >= n THEN 0 ELSE n
    BY <1>6, MaxOfTwo
  <2> QED
    BY <1>6, <2>1
<1>8. /\ inv'[w].paid = n /\ inv'[w].status = StatusAfterVoid(n)
      /\ inv'[w].ful = f /\ inv'[w].qty = inv[w].qty
      /\ inv'[w].ship = inv[w].ship
  BY <1>1, <1>3, <1>7, InvoiceMoney
<1>9. GrandTotal(w)' = GrandTotal(w) /\ GrandTotal(w) \in Nat
  BY <1>2, <1>8, MoneyTypes DEF GrandTotal
<1>10. inv'[w].status # "VOID"
  BY <1>8 DEF StatusAfterVoid
<1>11. DOMAIN pay'[w] = DOMAIN pay[w] /\ \A j \in DOMAIN pay[w] :
         /\ pay'[w][j].amount = pay[w][j].amount
         /\ pay'[w][j].book = pay[w][j].book
         /\ pay'[w][j].live => pay[w][j].live
  BY <1>1, <1>3 DEF Payment
<1>12. /\ books'[w].sale = books[w].sale /\ books'[w].refund = books[w].refund
       /\ books'[w].deposit =
            books[w].deposit - (IF p.book = "PREPAYMENT" THEN p.amount ELSE 0)
  BY <1>1, <1>3, PaymentAmounts
<1>13. books[w].sale = "NONE" => p.book = "PREPAYMENT"
  BY <1>1, <1>2 DEF MoneyInv
<1>14. n <= inv[w].paid /\ (f = inv[w].ful \/ f # "DELIVERED")
  BY <1>1, <1>3
<1>15. inv'[w].paid <= GrandTotal(w)'
  BY <1>2, <1>3, <1>6, <1>8, <1>9, <1>14 DEF MoneyInv
<1>16. books'[w].sale = "NONE" => books'[w].deposit = inv'[w].paid
                                  /\ books'[w].refund = 0
  BY <1>2, <1>8, <1>12, <1>13 DEF MoneyInv
<1> HIDE DEF n, p
<1> QED
  BY <1>2, <1>6, <1>8, <1>10, <1>11, <1>12, <1>14, <1>15, <1>16 DEF MoneyInv

\* The money of an order that is called off, or whose goods come back.
LEMMA CallsOffMoneyInv ==
  ASSUME MInv, NEW w \in Orders, CallsOff(w) \/ Credits(w) \/ Keeps(w)
  PROVE  MoneyInv(w)'
<1>1. MoneyInv(w) /\ IInv
  BY DEF MInv
<1>2. inv[w] \in Invoice /\ books[w] \in Books(ShippingCosts)
  BY <1>1, MoneyTypes
<1>3. pay'[w] = pay[w]
  BY DEF CallsOff, Credits, Keeps
<1>4. /\ inv'[w].paid = inv[w].paid /\ inv'[w].qty = inv[w].qty
      /\ inv'[w].ship = inv[w].ship
      /\ inv'[w].status = "VOID" => inv[w].paid = 0
      /\ inv'[w].ful = "DELIVERED" => inv[w].ful = "DELIVERED"
  <2>1. CASE CallsOff(w)
    BY <1>2, <2>1, InvoiceMoney DEF CallsOff
  <2>2. CASE Credits(w)
    <3>1. PICK units \in Nat : inv'[w] = Credited(inv[w], units)
      BY <2>2 DEF Credits
    <3>2. inv'[w].status \in {inv[w].status, "RETURNED"}
      BY <1>2, <3>1, InvoiceMoney
    <3> QED
      BY <1>1, <1>2, <3>1, <3>2, InvoiceMoney DEF MoneyInv
  <2>3. CASE Keeps(w)
    BY <1>1, <2>3 DEF Keeps, MoneyInv
  <2> QED
    BY <2>1, <2>2, <2>3
<1>5. GrandTotal(w)' = GrandTotal(w)
  BY <1>4 DEF GrandTotal
<1>6. \/ books'[w] = books[w]
      \/ books[w].sale # "NONE" /\ books'[w].sale # "NONE"
  <2>1. CASE CallsOff(w)
    BY <1>2, <2>1, SaleAmounts, PostingSale DEF CallsOff
  <2>2. CASE Credits(w)
    BY <1>1, <1>2, <2>2, PostingSale DEF Credits, MoneyInv
  <2>3. CASE Keeps(w)
    BY <2>3 DEF Keeps
  <2> QED
    BY <2>1, <2>2, <2>3
<1> QED
  BY <1>1, <1>3, <1>4, <1>5, <1>6 DEF MoneyInv

\* The money of an order a clerk writes to.
LEMMA ShipsMoneyInv ==
  ASSUME MInv, NEW w \in Orders, Ships(w)
  PROVE  MoneyInv(w)'
<1>1. PICK c \in Clerks :
        clerk[c].order = w /\ (WriteShipping(c) \/ HandoverWrites(c))
  BY DEF Ships
<1>2. MoneyInv(w) /\ IInv /\ ClerkSold(c) /\ TypeOK
  BY DEF MInv, IInv, TypeInv
<1> DEFINE k == clerk[c]
<1>3. /\ inv[w] \in Invoice /\ books[w] \in Books(ShippingCosts)
      /\ k \in ClerkState
  BY <1>2, MoneyTypes DEF TypeOK
<1>4. inv'[w] = ShippingInvoice(inv[w], k) /\ MayStore(inv'[w])
      /\ pay'[w] = pay[w]
  BY <1>1, <1>2 DEF WriteShipping, HandoverWrites, TypeOK
<1>5. /\ inv'[w].paid = inv[w].paid /\ inv'[w].status = inv[w].status
      /\ inv'[w].ful = IF k.next = "SAME" THEN inv[w].ful ELSE k.next
  BY <1>3, <1>4, InvoiceMoney
<1>6. inv'[w].paid <= GrandTotal(w)'
  BY <1>4 DEF MayStore, GrandTotal
<1>7. CASE WriteShipping(c)
  <2>1. books'[w] = ShippingBooks(books[w], k)
    BY <1>1, <1>2, <1>7 DEF WriteShipping, TypeOK
  <2>2. /\ books'[w].deposit = books[w].deposit
        /\ books'[w].refund = books[w].refund
        /\ books'[w].sale = books[w].sale
    BY <1>3, <2>1, OtherAmounts
  <2>3. inv'[w].ful = "DELIVERED" => books[w].sale # "NONE"
    BY <1>1, <1>2, <1>5, <1>7 DEF WriteShipping, MoneyInv, ClerkSold
  <2> QED
    BY <1>2, <1>4, <1>5, <1>6, <2>2, <2>3 DEF MoneyInv
<1>8. CASE HandoverWrites(c)
  <2> DEFINE g == PostSalesInvoice(books[w], k.total, k.paid)
  <2>1. k.total \in Int /\ k.paid \in Int
    BY <1>3 DEF ClerkState
  <2>2. g \in Books(ShippingCosts) /\ g.sale # "NONE"
    <3>1. g \in Books(ShippingCosts)
      BY <1>3, <2>1, PostingTypes
    <3>2. g.sale # "NONE"
      BY <1>3, PostingSale
    <3> QED
      BY <3>1, <3>2
  <2>3. books'[w] = ShippingBooks(g, k)
    BY <1>1, <1>2, <1>8 DEF HandoverWrites, TypeOK
  <2> HIDE DEF g
  <2>4. books'[w].sale # "NONE"
    BY <1>3, <2>2, <2>3, PostingSale
  <2> QED
    BY <1>2, <1>4, <1>5, <1>6, <2>4 DEF MoneyInv
<1> QED
  BY <1>1, <1>7, <1>8

\* Every step keeps the money of every order in order.
LEMMA NextMoney == MInv /\ [Next]_vars => MInv'
<1> SUFFICES ASSUME MInv, [Next]_vars
             PROVE  MInv'
  OBVIOUS
<1>1. IInv /\ IInv'
  BY NextTypes, NextOrderInv DEF MInv, IInv
<1>2. ASSUME NEW w \in Orders
      PROVE  MoneyInv(w)'
  <2>1. MoneyStep(w)
    BY <1>1, MoneySteps
  <2> QED
    BY <2>1, PlacesMoneyInv, PaysMoneyInv, TakesBackMoneyInv,
       CallsOffMoneyInv, ShipsMoneyInv DEF MoneyStep
<1>3. ASSUME NEW c \in Clerks
      PROVE  ClerkSold(c)'
  <2> SUFFICES ASSUME clerk'[c].pc = "write"
               PROVE  books'[clerk'[c].order].sale # "NONE"
    BY DEF ClerkSold
  <2> DEFINE o == clerk[c].order
  <2>1. /\ o \in Orders /\ clerk'[c].order = o
        /\ \/ clerk'[c] = clerk[c]
           \/ UNCHANGED <<inv, books>> /\ inv[o].ful = "DELIVERED"
    BY <1>1, ClerkStays
  <2>2. books[o].sale # "NONE"
    BY <2>1 DEF MInv, ClerkSold, MoneyInv
  <2>3. books'[o].sale # "NONE"
    BY <1>1, <2>1, <2>2, SaleStays
  <2> QED
    BY <2>1, <2>3
<1> QED
  BY <1>1, <1>2, <1>3 DEF MInv

\* The invariant holds always.
LEMMA MoneyInductive == Spec => []MInv
BY InitMoney, NextMoney, PTL DEF Spec

\* An invoice's paidAmount is the sum of its payments that are not void,
\* whichever of the till, the proofs and the gateway they came through and
\* however their handlers interleave.
THEOREM PaidAlwaysSum == Spec => []PaidIsSumOfPayments
<1>1. MInv => PaidIsSumOfPayments
  BY DEF MInv, MoneyInv, PaidIsSumOfPayments, LivePaid, Counted
<1> QED
  BY <1>1, MoneyInductive, PTL

\* No money is stranded on a void order, whoever voids it while it is paid.
THEOREM VoidFreesMoney == Spec => []VoidHoldsNoMoney
<1>1. MInv => VoidHoldsNoMoney
  <2> SUFFICES ASSUME MInv, NEW o \in Orders, inv[o].status = "VOID"
               PROVE  /\ inv[o].paid = 0
                      /\ \A i \in DOMAIN pay[o] : ~pay[o][i].live
    BY DEF VoidHoldsNoMoney
  <2>1. MoneyInv(o) /\ pay[o] \in Seq(Payment)
    BY MoneyTypes DEF MInv
  <2> QED
    BY <2>1, NothingCounted DEF MoneyInv
<1> QED
  BY <1>1, MoneyInductive, PTL

\* No order is paid beyond its total, although four handlers add payments and
\* a fifth lowers the total.
THEOREM PaidAlwaysWithin == Spec => []PaidWithinTotal
<1>1. MInv => PaidWithinTotal
  BY DEF MInv, MoneyInv, PaidWithinTotal
<1> QED
  BY <1>1, MoneyInductive, PTL

\* Until the sale is booked, what the customer paid is an advance the roastery
\* owes back.
THEOREM DepositAlwaysHeld == Spec => []DepositHeldUntilSale
<1>1. MInv => DepositHeldUntilSale
  BY DEF MInv, MoneyInv, DepositHeldUntilSale
<1> QED
  BY <1>1, MoneyInductive, PTL

-----------------------------------------------------------------------------
(* The journals against the documents, when shipping costs stay zero.      *)
(* With other costs the journal of a changed cost is skipped when its      *)
(* reference was used before, and the statement is false.                  *)

\* Receivable, advance and refund of an order add up to its documents, and
\* the sale journal to the bill.
NetInv(o) ==
  /\ inv[o].status = "NONE" => inv[o].returned = 0
  /\ NetPosition(books[o]) =
       (IF books[o].sale = "POSTED" THEN inv[o].qty ELSE 0)
         - inv[o].paid - inv[o].returned
  /\ books[o].sale = "POSTED" =>
       books[o].saleAr + books[o].saleDeposit = inv[o].qty

\* A clerk about to hand over has read the bill as it is.
ClerkTotal(c) ==
  clerk[c].pc = "fulfil" => clerk[c].total = inv[clerk[c].order].qty

NInv == /\ MInv
        /\ \A o \in Orders : NetInv(o)
        /\ \A c \in Clerks : ClerkTotal(c)

\* With no shipping cost the bill is what was ordered.
LEMMA BillIsQty ==
  ASSUME ShippingCosts = {0}, IInv, NEW w \in Orders
  PROVE  GrandTotal(w) = inv[w].qty
<1>1. inv[w].ship \in ShippingCosts /\ inv[w].qty \in Nat
  BY RowTypes DEF IInv, TypeInv
<1> QED
  BY <1>1 DEF GrandTotal

\* The fields of the books of an order.
LEMMA BookTypes ==
  ASSUME NEW g \in Books(ShippingCosts)
  PROVE  /\ g.ar \in Int /\ g.deposit \in Int /\ g.refund \in Int
         /\ g.saleAr \in Int /\ g.saleDeposit \in Int
         /\ NetPosition(g) \in Int
         /\ NetPosition(g) = g.ar - g.deposit - g.refund
<1>1. /\ g.ar \in Int /\ g.deposit \in Int /\ g.refund \in Int
      /\ g.saleAr \in Int /\ g.saleDeposit \in Int
  BY DEF Books
<1> QED
  BY <1>1 DEF NetPosition

\* Posting or mirroring the sale moves the balance by the bill.
LEMMA SaleMovesNet ==
  ASSUME NEW g \in Books(ShippingCosts), NEW t \in Int, NEW p \in Int
  PROVE  /\ g.sale = "NONE" =>
              /\ NetPosition(PostSalesInvoice(g, t, p)) = NetPosition(g) + t
              /\ PostSalesInvoice(g, t, p).sale = "POSTED"
              /\ PostSalesInvoice(g, t, p).saleAr
                   + PostSalesInvoice(g, t, p).saleDeposit = t
         /\ g.sale # "NONE" => PostSalesInvoice(g, t, p) = g
         /\ g.sale = "POSTED" =>
              /\ NetPosition(ReverseSalesInvoice(g))
                   = NetPosition(g) - (g.saleAr + g.saleDeposit)
              /\ ReverseSalesInvoice(g).sale = "REVERSED"
         /\ g.sale # "POSTED" => ReverseSalesInvoice(g) = g
<1>1. /\ g.ar \in Int /\ g.deposit \in Int /\ g.refund \in Int
      /\ g.saleAr \in Int /\ g.saleDeposit \in Int
  BY BookTypes
<1> DEFINE s == PostSalesInvoice(g, t, p)
           r == ReverseSalesInvoice(g)
<1>2. g.sale = "NONE" =>
        /\ s.sale = "POSTED" /\ s.saleAr = t - p /\ s.saleDeposit = p
        /\ s.ar = g.ar + (t - p) /\ s.deposit = g.deposit - p
        /\ s.refund = g.refund
  BY SaleAmounts
<1>3. g.sale = "POSTED" =>
        /\ r.sale = "REVERSED" /\ r.ar = g.ar - g.saleAr
        /\ r.deposit = g.deposit + g.saleDeposit /\ r.refund = g.refund
  BY SaleAmounts
<1>4. /\ g.sale # "NONE" => s = g
      /\ g.sale # "POSTED" => r = g
  BY SaleAmounts
<1> HIDE DEF s, r
<1>5. g.sale = "NONE" =>
        NetPosition(s) = NetPosition(g) + t /\ s.saleAr + s.saleDeposit = t
  BY <1>1, <1>2 DEF NetPosition
<1>6. g.sale = "POSTED" =>
        NetPosition(r) = NetPosition(g) - (g.saleAr + g.saleDeposit)
  BY <1>1, <1>3 DEF NetPosition
<1> QED
  BY <1>2, <1>3, <1>4, <1>5, <1>6 DEF s, r

\* A payment moves the balance by its amount, whichever way it is booked.
LEMMA PaymentMovesNet ==
  ASSUME NEW g \in Books(ShippingCosts), NEW p \in Payment
  PROVE  /\ NetPosition(PostPayment(g, p)) = NetPosition(g) - p.amount
         /\ NetPosition(ReversePayment(g, p)) = NetPosition(g) + p.amount
<1>1. g.ar \in Int /\ g.deposit \in Int /\ g.refund \in Int
  BY BookTypes
<1>2. p.amount \in Int
  BY DEF Payment
<1> DEFINE a == PostPayment(g, p)
           b == ReversePayment(g, p)
<1>3. /\ a.deposit =
           g.deposit + (IF p.book = "PREPAYMENT" THEN p.amount ELSE 0)
      /\ a.ar = g.ar - (IF p.book = "PREPAYMENT" THEN 0 ELSE p.amount)
      /\ a.refund = g.refund
  BY PaymentAmounts
<1>4. /\ b.deposit =
           g.deposit - (IF p.book = "PREPAYMENT" THEN p.amount ELSE 0)
      /\ b.ar = g.ar + (IF p.book = "PREPAYMENT" THEN 0 ELSE p.amount)
      /\ b.refund = g.refund
  BY PaymentAmounts
<1> HIDE DEF a, b
<1>5. NetPosition(a) = NetPosition(g) - p.amount
  BY <1>1, <1>2, <1>3 DEF NetPosition
<1>6. NetPosition(b) = NetPosition(g) + p.amount
  BY <1>1, <1>2, <1>4 DEF NetPosition
<1> QED
  BY <1>5, <1>6 DEF a, b

\* What a void payment leaves of the amount paid.
LEMMA PaidAfterVoid ==
  ASSUME MInv, NEW w \in Orders, NEW i \in DOMAIN pay[w], pay[w][i].live
  PROVE  /\ inv[w].paid - pay[w][i].amount \in Nat
         /\ Max({0, inv[w].paid - pay[w][i].amount})
              = inv[w].paid - pay[w][i].amount
<1> DEFINE t == [pay[w] EXCEPT ![i].live = FALSE]
           n == inv[w].paid - pay[w][i].amount
<1>1. /\ pay[w] \in Seq(Payment) /\ inv[w].paid = Total(Counted(pay[w]))
      /\ pay[w][i].amount \in Nat /\ inv[w].paid \in Nat
  BY MoneyTypes DEF MInv, MoneyInv
<1>2. /\ t \in Seq(Payment)
      /\ Total(Counted(t)) + pay[w][i].amount = Total(Counted(pay[w]))
  BY <1>1, CountedVoid
<1> HIDE DEF t
<1>3. Total(Counted(t)) \in Nat
  BY <1>2, CountedType
<1>4. n \in Nat
  BY <1>1, <1>2, <1>3
<1> HIDE DEF n
<1>5. Max({0, n}) = IF 0 >= n THEN 0 ELSE n
  BY <1>4, MaxOfTwo
<1>6. Max({0, n}) = n
  BY <1>4, <1>5
<1> QED
  BY <1>4, <1>6 DEF n

\* Each kind of step moves the balance and the documents alike.
LEMMA MoneyStepNet ==
  ASSUME ShippingCosts = {0}, NInv, NEW w \in Orders, MoneyStep(w)
  PROVE  NetInv(w)'
<1>1. IInv /\ TypeOK /\ MoneyInv(w) /\ NetInv(w)
  BY DEF NInv, MInv, IInv, TypeInv
<1>2. /\ inv[w] \in Invoice /\ books[w] \in Books(ShippingCosts)
      /\ pay[w] \in Seq(Payment) /\ inv[w].paid \in Nat
      /\ inv[w].qty \in Nat /\ inv[w].returned \in Nat
      /\ NetPosition(books[w]) \in Int
  BY <1>1, MoneyTypes, BookTypes
<1>3. CASE Keeps(w)
  BY <1>1, <1>3 DEF Keeps, NetInv
<1>4. CASE Places(w)
  <2>1. PICK q \in Nat \ {0}, kind \in AllKinds, f \in Fulfillments :
          /\ inv[w].status = "NONE"
          /\ \/ /\ inv'[w] = NewInvoice(kind, q, "ISSUED", f, 0)
                /\ books'[w] = books[w]
             \/ \E p \in Payment :
                  /\ p = NewPayment(q, "PREPAYMENT", "STAFF")
                  /\ inv'[w] = NewInvoice(kind, q, "PAID", f, q)
                  /\ \/ books'[w] = PostPayment(books[w], p)
                     \/ books'[w] =
                          PostSalesInvoice(PostPayment(books[w], p), q, q)
    BY <1>4 DEF Places
  <2>2. books[w].sale = "NONE" /\ pay[w] = << >>
    BY <1>1, <2>1 DEF IInv, OrderInv, Blank
  <2>3. books[w].deposit = 0 /\ books[w].refund = 0 /\ inv[w].paid = 0
    <3>1. Counted(<< >>) \in [{} -> Nat]
      BY DEF Counted
    <3>2. Total(Counted(<< >>)) = 0
      BY <3>1, TotalZero
    <3> QED
      BY <1>1, <2>2, <3>2 DEF MoneyInv
  <2>4. NetPosition(books[w]) = 0 - inv[w].returned
    BY <1>1, <1>2, <2>2, <2>3 DEF NetInv
  <2>5. inv[w].returned = 0 /\ NetPosition(books[w]) = 0
    BY <1>1, <1>2, <2>1, <2>4 DEF NetInv
  <2>6. CASE /\ inv'[w] = NewInvoice(kind, q, "ISSUED", f, 0)
             /\ books'[w] = books[w]
    BY <2>2, <2>5, <2>6 DEF NetInv, NewInvoice
  <2>7. ASSUME NEW p \in Payment, p = NewPayment(q, "PREPAYMENT", "STAFF"),
               inv'[w] = NewInvoice(kind, q, "PAID", f, q),
               \/ books'[w] = PostPayment(books[w], p)
               \/ books'[w] = PostSalesInvoice(PostPayment(books[w], p), q, q)
        PROVE  NetInv(w)'
    <3> DEFINE g == PostPayment(books[w], p)
    <3>1. /\ inv'[w].paid = q /\ inv'[w].qty = q /\ inv'[w].returned = 0
          /\ inv'[w].status = "PAID" /\ p.amount = q
      BY <2>7 DEF NewInvoice, NewPayment
    <3>2. g \in Books(ShippingCosts) /\ g.sale = "NONE"
          /\ NetPosition(g) = NetPosition(books[w]) - p.amount
      BY <1>2, <2>2, PaymentPostingTypes, PaymentAmounts, PaymentMovesNet
    <3>3. books'[w] = g \/ books'[w] = PostSalesInvoice(g, q, q)
      BY <2>7
    <3> HIDE DEF g
    <3>4. CASE books'[w] = g
      BY <2>5, <3>1, <3>2, <3>4 DEF NetInv
    <3>5. CASE books'[w] = PostSalesInvoice(g, q, q)
      <4>1. /\ NetPosition(books'[w]) = NetPosition(g) + q
            /\ books'[w].sale = "POSTED"
            /\ books'[w].saleAr + books'[w].saleDeposit = q
        BY <3>2, <3>5, SaleMovesNet
      <4> QED
        BY <2>5, <3>1, <3>2, <4>1 DEF NetInv
    <3> QED
      BY <3>3, <3>4, <3>5
  <2> QED
    BY <2>1, <2>6, <2>7
<1>5. CASE Pays(w)
  <2>1. PICK p \in Payment, s \in {"PAID", "PARTIAL"}, f \in Fulfillments :
          /\ inv'[w] = SetPaid(inv[w], inv[w].paid + p.amount, s, f)
          /\ books'[w] = PostPayment(books[w], p)
    BY <1>5 DEF Pays
  <2>2. p.amount \in Nat
    BY DEF Payment
  <2>3. /\ inv'[w].paid = inv[w].paid + p.amount /\ inv'[w].qty = inv[w].qty
        /\ inv'[w].returned = inv[w].returned /\ inv'[w].status = s
    BY <1>2, <2>1, InvoiceMoney
  <2>4. /\ NetPosition(books'[w]) = NetPosition(books[w]) - p.amount
        /\ books'[w].sale = books[w].sale
        /\ books'[w].saleAr = books[w].saleAr
        /\ books'[w].saleDeposit = books[w].saleDeposit
    BY <1>2, <2>1, PaymentMovesNet, PaymentAmounts
  <2> QED
    BY <1>1, <1>2, <2>2, <2>3, <2>4 DEF NetInv
<1>6. CASE TakesBack(w)
  <2> DEFINE paid(j) == Max({0, inv[w].paid - pay[w][j].amount})
  <2>1. PICK i \in DOMAIN pay[w], f \in Fulfillments :
          /\ pay[w][i].live
          /\ inv'[w] = SetPaid(inv[w], paid(i), StatusAfterVoid(paid(i)), f)
          /\ books'[w] = ReversePayment(books[w], pay[w][i])
    BY <1>6 DEF TakesBack
  <2>2. pay[w][i] \in Payment /\ pay[w][i].amount \in Nat
    BY <1>1, MoneyTypes
  <2>3. paid(i) = inv[w].paid - pay[w][i].amount
    BY <2>1, PaidAfterVoid DEF NInv
  <2>4. /\ inv'[w].paid = inv[w].paid - pay[w][i].amount
        /\ inv'[w].qty = inv[w].qty /\ inv'[w].returned = inv[w].returned
        /\ inv'[w].status \in {"ISSUED", "PARTIAL"}
    <3> HIDE DEF paid
    <3>1. /\ inv'[w].paid = paid(i) /\ inv'[w].qty = inv[w].qty
          /\ inv'[w].returned = inv[w].returned
          /\ inv'[w].status = StatusAfterVoid(paid(i))
      BY <1>2, <2>1, PaidRow
    <3>2. StatusAfterVoid(paid(i)) \in {"ISSUED", "PARTIAL"}
      BY DEF StatusAfterVoid
    <3> QED
      BY <2>3, <3>1, <3>2
  <2>5. /\ NetPosition(books'[w]) = NetPosition(books[w]) + pay[w][i].amount
        /\ books'[w].sale = books[w].sale
        /\ books'[w].saleAr = books[w].saleAr
        /\ books'[w].saleDeposit = books[w].saleDeposit
    BY <1>2, <2>1, <2>2, PaymentMovesNet, PaymentAmounts
  <2> QED
    BY <1>1, <1>2, <2>2, <2>4, <2>5 DEF NetInv
<1>7. CASE CallsOff(w)
  <2>1. /\ inv'[w].paid = inv[w].paid /\ inv'[w].qty = inv[w].qty
        /\ inv'[w].returned = inv[w].returned /\ inv'[w].status = "VOID"
    BY <1>2, <1>7, InvoiceMoney DEF CallsOff
  <2>2. CASE books'[w] = books[w]
    BY <1>1, <2>1, <2>2 DEF NetInv
  <2>3. CASE books'[w] = ReverseSalesInvoice(books[w])
    <3>1. CASE books[w].sale = "POSTED"
      <4>1. /\ NetPosition(books'[w]) = NetPosition(books[w])
                 - (books[w].saleAr + books[w].saleDeposit)
            /\ books'[w].sale = "REVERSED"
        BY <1>2, <2>3, <3>1, SaleMovesNet
      <4> QED
        BY <1>1, <1>2, <2>1, <3>1, <4>1 DEF NetInv
    <3>2. CASE books[w].sale # "POSTED"
      <4>1. books'[w] = books[w]
        BY <1>2, <2>3, <3>2, SaleMovesNet
      <4> QED
        BY <2>2, <4>1
    <3> QED
      BY <3>1, <3>2
  <2> QED
    BY <1>7, <2>2, <2>3 DEF CallsOff
<1>8. CASE Credits(w)
  <2>1. PICK units \in Nat \ {0}, a \in Int :
          /\ inv[w].ful = "DELIVERED" /\ inv'[w] = Credited(inv[w], units)
          /\ books'[w] = PostCreditNote(books[w], a, units - a)
    BY <1>8 DEF Credits
  <2>2. /\ inv'[w].paid = inv[w].paid /\ inv'[w].qty = inv[w].qty
        /\ inv'[w].returned = inv[w].returned + units
        /\ inv'[w].status \in {inv[w].status, "RETURNED"}
    <3>1. units \in Nat /\ inv'[w] = Credited(inv[w], units)
      BY <2>1
    <3>2. inv[w] \in Invoice
      BY <1>2
    <3> QED
      BY <3>1, <3>2, CreditedRow, Zenon
  <2>3. inv[w].status # "NONE"
    BY <1>1, <2>1 DEF MoneyInv, IInv, OrderInv, Blank
  <2> DEFINE g == books[w]
             h == PostCreditNote(g, a, units - a)
  <2>4. g.ar \in Int /\ g.deposit \in Int /\ g.refund \in Int
    BY <1>2, BookTypes
  <2>5. /\ h.ar = g.ar - a /\ h.refund = g.refund + (units - a)
        /\ h.deposit = g.deposit /\ h.sale = g.sale
        /\ h.saleAr = g.saleAr /\ h.saleDeposit = g.saleDeposit
    <3>1. g \in Books(ShippingCosts) /\ units - a \in Int
      BY <1>2
    <3> QED
      BY <3>1, CreditAmounts, Zenon
  <2> HIDE DEF g, h
  <2>6. NetPosition(h) = NetPosition(g) - units
    BY <2>4, <2>5 DEF NetPosition
  <2>7. /\ NetPosition(books'[w]) = NetPosition(books[w]) - units
        /\ books'[w].sale = books[w].sale
        /\ books'[w].saleAr = books[w].saleAr
        /\ books'[w].saleDeposit = books[w].saleDeposit
    BY <2>1, <2>5, <2>6 DEF g, h
  <2> QED
    BY <1>1, <1>2, <2>2, <2>3, <2>7 DEF NetInv
<1>9. CASE Ships(w)
  <2>1. PICK c \in Clerks :
          clerk[c].order = w /\ (WriteShipping(c) \/ HandoverWrites(c))
    BY <1>9 DEF Ships
  <2> DEFINE k == clerk[c]
  <2>2. k \in ClerkState /\ ClerkTotal(c)
    BY <1>1 DEF TypeOK, NInv
  <2>3. inv'[w] = ShippingInvoice(inv[w], k)
    BY <1>1, <2>1 DEF WriteShipping, HandoverWrites, TypeOK
  <2>4. /\ inv'[w].paid = inv[w].paid /\ inv'[w].qty = inv[w].qty
        /\ inv'[w].returned = inv[w].returned
        /\ inv'[w].status = inv[w].status
    <3> HIDE DEF k
    <3> QED BY <1>2, <2>2, <2>3, ShippingRow
  <2>5. CASE WriteShipping(c)
    <3>1. books'[w] = ShippingBooks(books[w], k)
      BY <1>1, <2>1, <2>5 DEF WriteShipping, TypeOK
    <3>2. books'[w] = books[w]
      BY <1>2, <2>2, <3>1, OtherAmounts
    <3> QED
      BY <1>1, <2>4, <3>2 DEF NetInv
  <2>6. CASE HandoverWrites(c)
    <3> DEFINE g == PostSalesInvoice(books[w], k.total, k.paid)
    <3>1. k.total \in Int /\ k.paid \in Int /\ k.total = inv[w].qty
      BY <2>1, <2>2, <2>6 DEF ClerkState, HandoverWrites, ClerkTotal
    <3>2. g \in Books(ShippingCosts)
      BY <1>2, <3>1, PostingTypes
    <3>3. books'[w] = ShippingBooks(g, k)
      BY <1>1, <2>1, <2>6 DEF HandoverWrites, TypeOK
    <3>4. books'[w] = g
      <4> HIDE DEF g
      <4> QED BY <2>2, <3>2, <3>3, OtherAmounts
    <3>5. CASE books[w].sale = "NONE"
      <4>1. /\ NetPosition(books'[w]) = NetPosition(books[w]) + k.total
            /\ books'[w].sale = "POSTED"
            /\ books'[w].saleAr + books'[w].saleDeposit = k.total
        BY <1>2, <3>1, <3>4, <3>5, SaleMovesNet
      <4> QED
        BY <1>1, <1>2, <2>4, <3>1, <3>5, <4>1 DEF NetInv
    <3>6. CASE books[w].sale # "NONE"
      <4>1. books'[w] = books[w]
        BY <1>2, <3>1, <3>4, <3>6, SaleMovesNet
      <4> QED
        BY <1>1, <2>4, <4>1 DEF NetInv
    <3> QED
      BY <3>5, <3>6
  <2> QED
    BY <2>1, <2>5, <2>6
<1> QED
  BY <1>3, <1>4, <1>5, <1>6, <1>7, <1>8, <1>9 DEF MoneyStep

\* What was ordered does not change once an order is there.
LEMMA QtyStays ==
  ASSUME IInv, [Next]_vars, NEW w \in Orders, inv[w].status # "NONE"
  PROVE  inv'[w].qty = inv[w].qty
<1>1. MoneyStep(w) /\ inv[w] \in Invoice /\ TypeOK
  BY MoneySteps, MoneyTypes DEF IInv, TypeInv
<1>2. CASE Keeps(w)
  BY <1>2 DEF Keeps
<1>3. ~Places(w)
  BY DEF Places
<1>4. CASE Pays(w) \/ TakesBack(w)
  <2>1. PICK n, s, f : inv'[w] = SetPaid(inv[w], n, s, f)
    BY <1>4 DEF Pays, TakesBack
  <2> QED
    BY <1>1, <2>1, PaidRow
<1>5. CASE CallsOff(w)
  BY <1>1, <1>5, InvoiceMoney DEF CallsOff
<1>7. CASE Credits(w)
  <2>1. PICK units \in Nat : inv'[w] = Credited(inv[w], units)
    BY <1>7 DEF Credits
  <2> QED
    BY <1>1, <2>1, CreditedRow, Zenon
<1>6. CASE Ships(w)
  <2>1. PICK c \in Clerks :
          clerk[c].order = w /\ (WriteShipping(c) \/ HandoverWrites(c))
    BY <1>6 DEF Ships
  <2>2. clerk[c] \in ClerkState /\ inv'[w] = ShippingInvoice(inv[w], clerk[c])
    BY <1>1, <2>1 DEF WriteShipping, HandoverWrites, TypeOK
  <2> QED
    BY <1>1, <2>2, InvoiceMoney
<1> QED
  BY <1>1, <1>2, <1>3, <1>4, <1>5, <1>6, <1>7 DEF MoneyStep

\* Every step keeps journals and documents in balance.
LEMMA NextNet ==
  ASSUME ShippingCosts = {0}
  PROVE  NInv /\ [Next]_vars => NInv'
<1> SUFFICES ASSUME NInv, [Next]_vars
             PROVE  NInv'
  OBVIOUS
<1>1. IInv /\ MInv'
  BY NextMoney DEF NInv, MInv
<1>2. \A w \in Orders : NetInv(w)'
  BY <1>1, MoneySteps, MoneyStepNet
<1>3. ASSUME NEW c \in Clerks
      PROVE  ClerkTotal(c)'
  <2> SUFFICES ASSUME clerk'[c].pc = "fulfil"
               PROVE  clerk'[c].total = inv'[clerk'[c].order].qty
    BY DEF ClerkTotal
  <2> DEFINE o == clerk[c].order
  <2>1. /\ o \in Orders /\ clerk'[c].order = o /\ clerk[c].pc # "idle"
        /\ \/ clerk'[c] = clerk[c]
           \/ clerk'[c].total = GrandTotal(o)
    BY <1>1, ClerkStays
  <2>2. inv[o].status # "NONE"
    BY <1>1, <2>1 DEF IInv, OrderInv, Blank
  <2>3. inv'[o].qty = inv[o].qty
    BY <1>1, <2>1, <2>2, QtyStays
  <2>4. clerk'[c].total = inv[o].qty
    BY <1>1, <2>1, BillIsQty DEF NInv, ClerkTotal
  <2> QED
    BY <2>1, <2>3, <2>4
<1> QED
  BY <1>1, <1>2, <1>3 DEF NInv

\* While shipping costs stay zero, receivable, advance and refund of an order
\* together say what its documents say, whatever interleaves: double
\* hand-overs, payments and voids between the reads and writes of a clerk.
THEOREM BooksAlwaysMatch ==
  ASSUME ShippingCosts = {0}
  PROVE  Spec => []BooksMatchDocuments
<1>1. Init => NInv
  <2> SUFFICES ASSUME Init PROVE NInv
    OBVIOUS
  <2>1. MInv
    BY InitMoney
  <2>2. \A o \in Orders : NetInv(o)
    BY DEF Init, NetInv, NoBooks, NoInvoice, NewInvoice, NetPosition
  <2>3. \A c \in Clerks : ClerkTotal(c)
    BY DEF Init, ClerkTotal, Idle
  <2> QED
    BY <2>1, <2>2, <2>3 DEF NInv
<1>2. NInv /\ [Next]_vars => NInv'
  BY NextNet
<1>3. NInv => BooksMatchDocuments
  <2> SUFFICES ASSUME NInv, NEW o \in Orders
               PROVE  NetPosition(books[o]) =
                        (IF books[o].sale = "POSTED" THEN GrandTotal(o) ELSE 0)
                          - inv[o].paid - inv[o].returned
    BY DEF BooksMatchDocuments
  <2>1. GrandTotal(o) = inv[o].qty
    BY BillIsQty DEF NInv, MInv
  <2> QED
    BY <2>1 DEF NInv, NetInv
<1> QED
  BY <1>1, <1>2, <1>3, PTL DEF Spec
=============================================================================
