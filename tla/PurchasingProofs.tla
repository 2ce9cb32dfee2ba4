-------------------------- MODULE PurchasingProofs --------------------------
(* Theorems about Purchasing for any sets of orders, items, purchases, keys *)
(* and callers, and any quantities.                                         *)
EXTENDS Purchasing, QuantityProofs

-----------------------------------------------------------------------------
(* The invariant. *)

\* The types, without the accounts.
Shape ==
  /\ order \in [Orders -> Order]
  /\ purchase \in [Purchases -> Purchase]
  /\ payment \in [Payments -> Payment]
  /\ drawn \subseteq Purchases
  /\ user \in [Users -> Task]
  /\ overlapped \subseteq Orders

\* What was paid with a purchase was paid for that purchase, and is active as
\* long as the purchase is.
FirstPaid ==
  \A p \in Purchases :
    /\ payment[p].status = "ACTIVE" => payment[p].of = p
    /\ purchase[p].status = "COMPLETED" =>
         payment[p].status = "ACTIVE" \/ payment[p].amount = 0

Costs == [p \in Purchases |-> Cost(p)]
Paids == [p \in Purchases |-> Paid(p)]
Shares(p) == [k \in Payments |-> PaidBy(p, k)]

Inv ==
  Shape /\ FirstPaid /\ PaidIsPayments /\ BooksMatchPurchases
    /\ payable \in Int
-----------------------------------------------------------------------------
(* Sums. *)

\* A sum of smaller quantities is no larger.
LEMMA TotalMonotone ==
  ASSUME NEW D, IsFiniteSet(D), NEW p \in [D -> Nat], NEW q \in [D -> Nat],
         \A x \in D : p[x] <= q[x]
  PROVE  Total(p) <= Total(q)
<1> DEFINE more == [x \in D |-> q[x] - p[x]]
<1>1. more \in [D -> Nat]
  <2>1. ASSUME NEW x \in D PROVE q[x] - p[x] \in Nat
    <3>1. p[x] \in Nat /\ q[x] \in Nat /\ p[x] <= q[x] OBVIOUS
    <3>2. QED BY <3>1, SMT
  <2>2. QED BY <2>1
<1>2. \A x \in D : q[x] = p[x] + more[x]
  <2>1. ASSUME NEW x \in D PROVE q[x] = p[x] + more[x]
    <3>1. p[x] \in Nat /\ q[x] \in Nat OBVIOUS
    <3>2. QED BY <3>1
  <2>2. QED BY <2>1
<1> HIDE DEF more
<1>3. Total(q) = Total(p) + Total(more) BY <1>1, <1>2, TotalAdd
<1>4. Total(p) \in Nat /\ Total(more) \in Nat BY <1>1, TotalType
<1>5. QED BY <1>3, <1>4

\* The purchases and the payments are finitely many.
LEMMA PaymentsFinite == IsFiniteSet(Purchases) /\ IsFiniteSet(Payments)
BY PurchasingAssumption, FS_Union DEF Payments

\* The tables of costs, of what is paid and of payments are of numbers.
LEMMA SumTypes ==
  ASSUME Shape
  PROVE  /\ Costs \in [Purchases -> Nat] /\ Paids \in [Purchases -> Nat]
         /\ \A p \in Purchases : Shares(p) \in [Payments -> Nat]
<1>1. \A p \in Purchases : Cost(p) \in Nat /\ Paid(p) \in Nat
  BY DEF Shape, Purchase, Cost, Paid
<1>2. \A p \in Purchases, k \in Payments : PaidBy(p, k) \in Nat
  BY DEF Shape, Payment, PaidBy
<1>3. QED BY <1>1, <1>2 DEF Costs, Paids, Shares

\* Costs and payments add up to natural numbers.
LEMMA SumsAreNat ==
  ASSUME Shape
  PROVE  /\ Total(Costs) \in Nat /\ Total(Paids) \in Nat
         /\ \A p \in Purchases : Total(Shares(p)) \in Nat
<1>1. Total(Costs) \in Nat /\ Total(Paids) \in Nat
  BY SumTypes, PaymentsFinite, TotalType
<1>2. ASSUME NEW p \in Purchases PROVE Total(Shares(p)) \in Nat
  <2> DEFINE s == Shares(p)
  <2>1. s \in [Payments -> Nat] BY SumTypes
  <2> HIDE DEF s
  <2>2. Total(s) \in Nat BY <2>1, PaymentsFinite, TotalType
  <2>3. QED BY <2>2 DEF s
<1>3. QED BY <1>1, <1>2

\* One purchase changes.
LEMMA OnePurchase ==
  ASSUME Shape, Shape', NEW p \in Purchases,
         \A q \in Purchases \ {p} : purchase'[q] = purchase[q]
  PROVE  /\ Total(Costs') + Cost(p) = Total(Costs) + Cost(p)'
         /\ Total(Paids') + Paid(p) = Total(Paids) + Paid(p)'
         /\ Paid(p) <= Total(Paids)
<1> DEFINE c == Costs
           d == Costs'
           e == Paids
           f == Paids'
<1>1. /\ c \in [Purchases -> Nat] /\ d \in [Purchases -> Nat]
      /\ e \in [Purchases -> Nat] /\ f \in [Purchases -> Nat]
  <2>1. Costs' \in [Purchases -> Nat] /\ Paids' \in [Purchases -> Nat]
    <3>1. \A q \in Purchases : Cost(q)' \in Nat /\ Paid(q)' \in Nat
      BY DEF Shape, Purchase, Cost, Paid
    <3>2. QED BY <3>1 DEF Costs, Paids
  <2>2. QED BY <2>1, SumTypes
<1>2. /\ c[p] = Cost(p) /\ d[p] = Cost(p)'
      /\ e[p] = Paid(p) /\ f[p] = Paid(p)'
  BY DEF Costs, Paids
<1>3. \A q \in Purchases : q # p => d[q] = c[q] /\ f[q] = e[q]
  BY DEF Costs, Paids, Cost, Paid
<1> HIDE DEF c, d, e, f
<1>4. /\ Total(d) + c[p] = Total(c) + d[p]
  BY <1>1, <1>3, PaymentsFinite, TotalChange
<1>5. Total(f) + e[p] = Total(e) + f[p] /\ e[p] <= Total(e)
  BY <1>1, <1>3, PaymentsFinite, TotalChange
<1>6. QED BY <1>2, <1>4, <1>5 DEF c, d, e, f

\* One payment changes, which is for purchase p before and after, if any.
LEMMA OnePayment ==
  ASSUME Shape, Shape', NEW p \in Purchases, NEW k \in Payments,
         \A j \in Payments \ {k} : payment'[j] = payment[j],
         payment[k].status = "ACTIVE" => payment[k].of = p,
         payment'[k].status = "ACTIVE" => payment'[k].of = p
  PROVE  /\ \A q \in Purchases \ {p} : Total(Shares(q)') = Total(Shares(q))
         /\ Total(Shares(p)') + PaidBy(p, k)
              = Total(Shares(p)) + PaidBy(p, k)'
         /\ PaidBy(p, k) <= Total(Shares(p))
<1>1. \A q \in Purchases, j \in Payments :
        PaidBy(q, j)' \in Nat /\ (j # k => PaidBy(q, j)' = PaidBy(q, j))
  BY DEF Shape, Payment, PaidBy
<1>2. ASSUME NEW q \in Purchases \ {p}
      PROVE  Total(Shares(q)') = Total(Shares(q))
  <2>1. PaidBy(q, k)' = PaidBy(q, k) BY DEF PaidBy
  <2>2. Shares(q)' = Shares(q) BY <1>1, <2>1 DEF Shares
  <2>3. QED BY <2>2
<1> DEFINE s == Shares(p)
           t == Shares(p)'
<1>3. s \in [Payments -> Nat] /\ t \in [Payments -> Nat]
  BY <1>1, SumTypes DEF Shares
<1>4. \A j \in Payments : j # k => t[j] = s[j] BY <1>1 DEF Shares
<1>5. s[k] = PaidBy(p, k) /\ t[k] = PaidBy(p, k)' BY DEF Shares
<1> HIDE DEF s, t
<1>6. Total(t) + s[k] = Total(s) + t[k] /\ s[k] <= Total(s)
  BY <1>3, <1>4, PaymentsFinite, TotalChange
<1>7. QED BY <1>2, <1>5, <1>6 DEF s, t

\* In a state of the invariant no account is on the wrong side.
LEMMA InvImpliesTypeOK == Inv => TypeOK
<1> SUFFICES ASSUME Inv PROVE TypeOK OBVIOUS
<1>1. goods = Total(Costs) /\ spent = Total(Paids) /\ payable + spent = goods
  BY DEF Inv, BooksMatchPurchases, Costs, Paids
<1>2. goods \in Nat /\ spent \in Nat BY <1>1, SumsAreNat DEF Inv
<1>3. Total(Paids) <= Total(Costs)
  <2>1. ASSUME NEW p \in Purchases PROVE Paids[p] <= Costs[p]
    <3>1. purchase[p].paid <= purchase[p].total BY DEF Inv, PaidIsPayments
    <3>2. Paid(p) <= Cost(p) BY <3>1 DEF Paid, Cost
    <3>3. QED BY <3>2 DEF Paids, Costs
  <2>2. QED BY <2>1, SumTypes, PaymentsFinite, TotalMonotone DEF Inv
<1>4. payable \in Nat BY <1>1, <1>2, <1>3 DEF Inv
<1>5. QED BY <1>2, <1>4 DEF Inv, Shape, TypeOK
\* What was received for a line.
LEMMA ReceivedType ==
  ASSUME Shape
  PROVE  \A o, i : Received(o, i) \in Nat
<1> SUFFICES ASSUME NEW o, NEW i PROVE Received(o, i) \in Nat OBVIOUS
<1> DEFINE q == [p \in Purchases |->
                   IF purchase[p].order = o /\ purchase[p].item = i
                   THEN purchase[p].units ELSE 0]
<1>1. q \in [Purchases -> Nat] BY DEF Shape, Purchase
<1> HIDE DEF q
<1>2. Total(q) \in Nat BY <1>1, PaymentsFinite, TotalType
<1>3. QED BY <1>2 DEF Received, q

\* What a handler reads is a task.
LEMMA RequestType ==
  ASSUME Shape, NEW t \in Requests
  PROVE  t \in Task /\ t.order \in Orders
<1>1. CASE t \in [do: {"update", "send", "cancel"}, order: Orders]
  BY <1>1 DEF Task
<1>2. CASE \E o \in Orders :
             t = [do |-> "receive", order |-> o, lines |-> order[o].lines,
                  revision |-> order[o].revision,
                  before |-> [i \in Items |-> Received(o, i)]]
  <2>1. PICK o \in Orders :
             t = [do |-> "receive", order |-> o, lines |-> order[o].lines,
                  revision |-> order[o].revision,
                  before |-> [i \in Items |-> Received(o, i)]]
    BY <1>2
  <2>2. /\ order[o].lines \in [Items -> Nat] /\ order[o].revision \in Nat
        /\ [i \in Items |-> Received(o, i)] \in [Items -> Nat]
    BY ReceivedType DEF Shape, Order
  <2>3. QED BY <2>1, <2>2 DEF Task
<1>3. QED BY <1>1, <1>2 DEF Requests
-----------------------------------------------------------------------------
(* Every step keeps the invariant. *)

\* A new purchase is a purchase, and its first payment a payment.
LEMMA NewPurchaseType ==
  ASSUME NEW kind \in {"ROASTED_BEAN", "OTHER"}, NEW total \in Nat,
         NEW paid \in Nat, NEW o \in Orders \cup {NoOrder},
         NEW i \in Items \cup {NoItem}, NEW p \in Purchases
  PROVE  /\ NewPurchase(kind, total, paid, o, i, total) \in Purchase
         /\ FirstPayment(p, paid) \in Payment
BY DEF NewPurchase, PaidStatus, FirstPayment, Purchase, Payment

\* The invariant holds of an empty shop: every sum is empty.
LEMMA InitInv == Init => Inv
<1> SUFFICES ASSUME Init PROVE Inv OBVIOUS
<1>1. Shape
  <2>1. \A p \in Purchases : purchase[p] \in Purchase
    BY DEF Init, NoPurchase, Purchase
  <2>2. NoPayment \in Payment
    <3>1. (CHOOSE p \in Purchases : TRUE) \in Purchases
      BY PurchasingAssumption
    <3>2. QED BY <3>1 DEF NoPayment, Payment
  <2>3. \A o \in Orders : order[o] \in Order
    BY DEF Init, NoUnits, Order
  <2>4. QED BY <2>1, <2>2, <2>3 DEF Init, Shape, Idle, Task
<1>2. \A p \in Purchases : purchase[p] = NoPurchase BY DEF Init
<1>3. \A k \in Payments : payment[k].status = "NONE" /\ payment[k].amount = 0
  BY DEF Init, NoPayment
<1>4. \A p \in Purchases : Total(Shares(p)) = 0
  <2> SUFFICES ASSUME NEW p \in Purchases PROVE Total(Shares(p)) = 0 OBVIOUS
  <2> DEFINE s == Shares(p)
  <2>1. s \in [Payments -> Nat] BY <1>1, SumTypes
  <2>2. \A k \in Payments : s[k] = 0 BY <1>3 DEF Shares, PaidBy
  <2> HIDE DEF s
  <2>3. Total(s) = 0 BY <2>1, <2>2, TotalZero
  <2>4. QED BY <2>3 DEF s
<1>5. Total(Costs) = 0 /\ Total(Paids) = 0
  <2>1. \A p \in Purchases : Costs[p] = 0 /\ Paids[p] = 0
    BY <1>2 DEF Costs, Paids, Cost, Paid, NoPurchase
  <2>2. QED BY <1>1, <2>1, SumTypes, TotalZero
<1>6. PaidIsPayments
  BY <1>2, <1>4 DEF PaidIsPayments, Shares, NoPurchase, PaidStatus
<1>7. BooksMatchPurchases
  BY <1>5 DEF Init, BooksMatchPurchases, Costs, Paids
<1>8. FirstPaid
  <2>1. Purchases \subseteq Payments BY DEF Payments
  <2>2. QED BY <1>2, <1>3, <2>1 DEF FirstPaid, NoPurchase
<1>9. QED BY <1>1, <1>6, <1>7, <1>8 DEF Init, Inv

\* What a step that leaves the rest of PaidIsPayments alone has to show of
\* the one purchase it changes.
LEMMA PaidStep ==
  ASSUME Inv, NEW p \in Purchases,
         \A q \in Purchases \ {p} : /\ purchase'[q] = purchase[q]
                                   /\ Total(Shares(q)') = Total(Shares(q)),
         purchase'[p].paid = Total(Shares(p)'),
         purchase'[p].paid <= purchase'[p].total,
         purchase'[p].paidStatus = PaidStatus(purchase'[p].paid,
                                              purchase'[p].total),
         purchase'[p].status # "COMPLETED" => purchase'[p].paid = 0
  PROVE  PaidIsPayments'
<1> SUFFICES ASSUME NEW q \in Purchases
             PROVE  /\ purchase'[q].paid = Total(Shares(q)')
                    /\ purchase'[q].paid <= purchase'[q].total
                    /\ purchase'[q].paidStatus = PaidStatus(
                         purchase'[q].paid, purchase'[q].total)
                    /\ purchase'[q].status # "COMPLETED" =>
                         purchase'[q].paid = 0
  BY DEF PaidIsPayments, Shares, PaidStatus
<1>1. CASE q = p BY <1>1
<1>2. CASE q # p
  <2>1. purchase[q].paid = Total(Shares(q))
    BY DEF Inv, PaidIsPayments, Shares
  <2>2. /\ purchase[q].paid <= purchase[q].total
        /\ purchase[q].paidStatus = PaidStatus(purchase[q].paid,
                                               purchase[q].total)
        /\ purchase[q].status # "COMPLETED" => purchase[q].paid = 0
    BY DEF Inv, PaidIsPayments
  <2>3. QED BY <1>2, <2>1, <2>2
<1>3. QED BY <1>1, <1>2

\* What is known of a purchase in a state of the invariant.
LEMMA PurchaseFacts ==
  ASSUME Inv, NEW p \in Purchases
  PROVE  /\ purchase[p] \in Purchase
         /\ purchase[p].paid = Total(Shares(p))
         /\ purchase[p].paid <= purchase[p].total
         /\ purchase[p].status # "COMPLETED" => purchase[p].paid = 0
         /\ p \in Payments /\ payment[p] \in Payment
         /\ payment[p].status = "ACTIVE" => payment[p].of = p
         /\ purchase[p].status = "COMPLETED" =>
              payment[p].status = "ACTIVE" \/ payment[p].amount = 0
         /\ goods = Total(Costs) /\ spent = Total(Paids)
         /\ payable + spent = goods
<1>1. purchase[p].paid = Total(Shares(p)) BY DEF Inv, PaidIsPayments, Shares
<1>2. goods = Total(Costs) /\ spent = Total(Paids)
  BY DEF Inv, BooksMatchPurchases, Costs, Paids
<1>3. p \in Payments BY DEF Payments
<1>4. QED
  BY <1>1, <1>2, <1>3
  DEF Inv, PaidIsPayments, BooksMatchPurchases, FirstPaid, Shape

\* The books after a step that changes one purchase.
LEMMA BooksStep ==
  ASSUME Inv, Shape', NEW p \in Purchases,
         \A q \in Purchases \ {p} : purchase'[q] = purchase[q],
         goods' + Cost(p) = goods + Cost(p)',
         spent' + Paid(p) = spent + Paid(p)',
         payable' + spent' = goods',
         goods' \in Int, spent' \in Int
  PROVE  BooksMatchPurchases'
<1>1. /\ Total(Costs') + Cost(p) = Total(Costs) + Cost(p)'
      /\ Total(Paids') + Paid(p) = Total(Paids) + Paid(p)'
  BY OnePurchase DEF Inv
<1>2. Total(Costs') \in Nat /\ Total(Paids') \in Nat
  <2>1. \A q \in Purchases : Cost(q)' \in Nat /\ Paid(q)' \in Nat
    BY DEF Shape, Purchase, Cost, Paid
  <2>2. Costs' \in [Purchases -> Nat] /\ Paids' \in [Purchases -> Nat]
    BY <2>1 DEF Costs, Paids
  <2>3. QED BY <2>2, PaymentsFinite, TotalType
<1>3. /\ Cost(p) \in Nat /\ Paid(p) \in Nat
      /\ Cost(p)' \in Nat /\ Paid(p)' \in Nat
  BY DEF Inv, Shape, Purchase, Cost, Paid
<1>4. Total(Costs) \in Nat /\ Total(Paids) \in Nat
  BY SumsAreNat DEF Inv
<1>5. goods = Total(Costs) /\ spent = Total(Paids) BY PurchaseFacts
<1>6. goods' = Total(Costs') /\ spent' = Total(Paids')
  BY <1>1, <1>2, <1>3, <1>4, <1>5
<1>7. QED BY <1>6 DEF BooksMatchPurchases, Costs, Paids

\* A step that leaves purchases, payments and accounts alone.
LEMMA FrameStep ==
  ASSUME Inv, Shape',
         UNCHANGED <<purchase, payment, payable, spent, goods>>
  PROVE  Inv'
<1>1. FirstPaid' BY DEF Inv, FirstPaid
<1>2. PaidIsPayments' BY DEF Inv, PaidIsPayments, PaidBy
<1>3. BooksMatchPurchases' BY DEF Inv, BooksMatchPurchases, Cost, Paid
<1>4. QED BY <1>1, <1>2, <1>3 DEF Inv

\* createGreenBeanPurchase and its like book a purchase as they store it.
LEMMA BuyStep ==
  ASSUME Inv, NEW p \in Purchases, NEW kind \in {"ROASTED_BEAN", "OTHER"},
         NEW total \in 1 .. MaxTotal, NEW paid \in 0 .. total,
         Buy(p, kind, total, paid)
  PROVE  Inv'
<1> DEFINE new == NewPurchase(kind, total, paid, NoOrder, NoItem, total)
           first == FirstPayment(p, paid)
<1>1. total \in Nat /\ paid \in Nat /\ paid <= total
  BY PurchasingAssumption
<1>2. new \in Purchase /\ first \in Payment
  BY <1>1, NewPurchaseType
<1>3. p \in Payments BY DEF Payments
<1>4. /\ purchase[p].status = "NONE"
      /\ purchase' = [purchase EXCEPT ![p] = new]
      /\ payment' = [payment EXCEPT ![p] = first]
      /\ UNCHANGED <<order, drawn, user, overlapped>>
      /\ goods' = goods + total /\ spent' = spent + paid
      /\ payable' = payable + (total - paid)
  BY DEF Buy, OnCredit
<1>5. /\ new.status = "COMPLETED" /\ new.total = total /\ new.paid = paid
      /\ new.paidStatus = PaidStatus(paid, total)
      /\ first.of = p /\ first.amount = paid
      /\ first.status = "ACTIVE" <=> paid > 0
  BY DEF NewPurchase, FirstPayment
<1> HIDE DEF new, first
<1>6. Shape' BY <1>2, <1>3, <1>4 DEF Inv, Shape
<1>7. /\ purchase'[p] = new /\ payment'[p] = first
      /\ \A q \in Purchases \ {p} : purchase'[q] = purchase[q]
      /\ \A k \in Payments \ {p} : payment'[k] = payment[k]
  BY <1>3, <1>4 DEF Inv, Shape
<1>8. FirstPaid' BY <1>1, <1>5, <1>7 DEF Inv, FirstPaid, Payments
<1>9. /\ \A q \in Purchases \ {p} : Total(Shares(q)') = Total(Shares(q))
      /\ Total(Shares(p)') + PaidBy(p, p)
           = Total(Shares(p)) + PaidBy(p, p)'
      /\ PaidBy(p, p) <= Total(Shares(p))
  <2>1. payment[p].status = "ACTIVE" => payment[p].of = p
    BY PurchaseFacts
  <2>2. payment'[p].status = "ACTIVE" => payment'[p].of = p
    BY <1>5, <1>7
  <2>3. QED BY <1>3, <1>6, <1>7, <2>1, <2>2, OnePayment DEF Inv
<1>10. Total(Shares(p)) = 0
  BY <1>4, PurchaseFacts
<1>11. PaidBy(p, p) = 0 /\ PaidBy(p, p)' = paid
  <2>1. PaidBy(p, p) \in Nat BY <1>3 DEF Inv, Shape, Payment, PaidBy
  <2>2. PaidBy(p, p) = 0 BY <1>9, <1>10, <2>1
  <2>3. PaidBy(p, p)' = paid BY <1>1, <1>5, <1>7 DEF PaidBy
  <2>4. QED BY <2>2, <2>3
<1>12. Total(Shares(p)') = paid
  <2>1. Total(Shares(p)') \in Nat
    <3> DEFINE t == Shares(p)'
    <3>1. t \in [Payments -> Nat]
      BY <1>6 DEF Shape, Payment, Shares, PaidBy
    <3> HIDE DEF t
    <3>2. Total(t) \in Nat BY <3>1, PaymentsFinite, TotalType
    <3>3. QED BY <3>2 DEF t
  <2>2. QED BY <1>1, <1>9, <1>10, <1>11, <2>1
<1>13. PaidIsPayments' BY <1>1, <1>5, <1>7, <1>9, <1>12, PaidStep
<1>14. Cost(p) = 0 /\ Cost(p)' = total /\ Paid(p) = 0 /\ Paid(p)' = paid
  BY <1>4, <1>5, <1>7 DEF Cost, Paid
<1>15. goods \in Nat /\ spent \in Nat /\ payable \in Int
  BY InvImpliesTypeOK DEF TypeOK
<1>16. payable' \in Int /\ goods' \in Int /\ spent' \in Int
       /\ payable' + spent' = goods'
  BY <1>1, <1>4, <1>15, PurchaseFacts
<1>17. BooksMatchPurchases'
  BY <1>1, <1>4, <1>6, <1>7, <1>14, <1>15, <1>16, BooksStep
<1>18. QED BY <1>6, <1>8, <1>13, <1>16, <1>17 DEF Inv

\* A payment of a purchase that is not void is recorded or voided: the share
\* of payment k changes, and what is paid with it.
LEMMA PaymentStep ==
  ASSUME Inv, NEW p \in Purchases, NEW k \in Keys, NEW new \in Payment,
         NEW paid \in Nat, paid <= purchase[p].total,
         purchase[p].status = "COMPLETED",
         payment[k].status = "ACTIVE" => payment[k].of = p,
         new.of = p,
         payment' = [payment EXCEPT ![k] = new],
         purchase' = [purchase EXCEPT
                        ![p].paid = paid,
                        ![p].paidStatus = PaidStatus(paid, purchase[p].total)],
         paid + PaidBy(p, k) = purchase[p].paid
           + (IF new.status = "ACTIVE" THEN new.amount ELSE 0),
         payable' = payable + (purchase[p].paid - paid),
         spent' = spent + (paid - purchase[p].paid),
         UNCHANGED <<order, drawn, goods, user, overlapped>>
  PROVE  Inv'
<1>1. k \in Payments /\ k \notin Purchases
  BY PurchasingAssumption DEF Payments
<1>2. purchase[p] \in Purchase BY PurchaseFacts
<1>3. /\ payment'[k] = new
      /\ \A j \in Payments \ {k} : payment'[j] = payment[j]
  BY <1>1 DEF Inv, Shape
<1>4. /\ \A q \in Purchases \ {p} : purchase'[q] = purchase[q]
      /\ purchase'[p] = [purchase[p] EXCEPT !.paid = paid,
           !.paidStatus = PaidStatus(paid, purchase[p].total)]
  BY DEF Inv, Shape
<1>5. /\ purchase'[p].paid = paid /\ purchase'[p].total = purchase[p].total
      /\ purchase'[p].status = "COMPLETED"
      /\ purchase'[p].paidStatus = PaidStatus(paid, purchase[p].total)
      /\ purchase'[p] \in Purchase
  <2> DEFINE s == PaidStatus(paid, purchase[p].total)
  <2>1. s \in {"UNPAID", "PARTIAL", "PAID"} BY DEF PaidStatus
  <2> HIDE DEF s
  <2>2. purchase'[p] = [purchase[p] EXCEPT !.paid = paid, !.paidStatus = s]
    BY <1>4 DEF s
  <2> DEFINE r == [purchase[p] EXCEPT !.paid = paid, !.paidStatus = s]
  <2>3. /\ r \in Purchase /\ r.paid = paid /\ r.paidStatus = s
        /\ r.total = purchase[p].total /\ r.status = purchase[p].status
    BY <1>2, <2>1 DEF Purchase
  <2>4. purchase'[p] = r BY <2>2
  <2> HIDE DEF r
  <2>5. QED BY <2>3, <2>4 DEF s
<1>6. Shape'
  <2>1. purchase' \in [Purchases -> Purchase] BY <1>5 DEF Inv, Shape
  <2>2. payment' \in [Payments -> Payment] BY <1>1 DEF Inv, Shape
  <2>3. QED BY <2>1, <2>2 DEF Inv, Shape
<1>7. FirstPaid'
  <2>1. \A q \in Purchases : payment'[q] = payment[q]
    BY <1>1, <1>3 DEF Payments
  <2>2. \A q \in Purchases : purchase'[q].status = purchase[q].status
    BY <1>4, <1>5
  <2>3. QED BY <2>1, <2>2 DEF Inv, FirstPaid
<1>8. /\ \A q \in Purchases \ {p} : Total(Shares(q)') = Total(Shares(q))
      /\ Total(Shares(p)') + PaidBy(p, k)
           = Total(Shares(p)) + PaidBy(p, k)'
  BY <1>1, <1>3, <1>6, OnePayment DEF Inv
<1>9. PaidBy(p, k)' = IF new.status = "ACTIVE" THEN new.amount ELSE 0
  BY <1>3 DEF PaidBy
<1>10. Total(Shares(p)') = paid
  <2>1. Total(Shares(p)') \in Nat
    <3> DEFINE t == Shares(p)'
    <3>1. t \in [Payments -> Nat]
      BY <1>6 DEF Shape, Payment, Shares, PaidBy
    <3> HIDE DEF t
    <3>2. Total(t) \in Nat BY <3>1, PaymentsFinite, TotalType
    <3>3. QED BY <3>2 DEF t
  <2>2. PaidBy(p, k) \in Nat /\ PaidBy(p, k)' \in Nat
    BY <1>1, <1>9 DEF Inv, Shape, Payment, PaidBy
  <2>3. purchase[p].paid = Total(Shares(p)) /\ purchase[p].paid \in Nat
    BY <1>2, PurchaseFacts DEF Purchase
  <2>4. QED BY <1>8, <1>9, <2>1, <2>2, <2>3
<1>11. PaidIsPayments' BY <1>4, <1>5, <1>8, <1>10, PaidStep
<1>12. /\ Cost(p)' = Cost(p)
       /\ Paid(p) = purchase[p].paid /\ Paid(p)' = paid
  BY <1>5 DEF Cost, Paid
<1>13. goods \in Nat /\ spent \in Nat /\ payable \in Int
       /\ purchase[p].paid \in Nat /\ Cost(p) \in Nat
  BY <1>2, InvImpliesTypeOK DEF TypeOK, Purchase, Cost
<1>14. payable' \in Int /\ goods' \in Int /\ spent' \in Int
       /\ payable' + spent' = goods'
  BY <1>13, PurchaseFacts
<1>15. BooksMatchPurchases'
  <2>1. goods' + Cost(p) = goods + Cost(p)' BY <1>12
  <2>2. spent' + Paid(p) = spent + Paid(p)' BY <1>12, <1>13
  <2>3. QED BY <1>4, <1>6, <1>14, <2>1, <2>2, BooksStep
<1>16. QED BY <1>6, <1>7, <1>11, <1>14, <1>15 DEF Inv

\* A payment moves its amount from the supplier account to cash.
LEMMA RecordSupplierPaymentStep ==
  ASSUME Inv, NEW k \in Keys, NEW p \in Purchases,
         NEW amount \in 1 .. MaxTotal, RecordSupplierPayment(k, p, amount)
  PROVE  Inv'
<1> DEFINE new == [status |-> "ACTIVE", of |-> p, amount |-> amount]
           paid == purchase[p].paid + amount
<1>1. amount \in Nat BY PurchasingAssumption
<1>2. purchase[p].paid \in Nat BY PurchaseFacts DEF Purchase
<1>3. new \in Payment BY <1>1 DEF Payment
<1>4. PaidBy(p, k) = 0 /\ payment[k].status # "ACTIVE"
  BY DEF RecordSupplierPayment, PaidBy
<1>5. /\ paid <= purchase[p].total /\ purchase[p].status = "COMPLETED"
      /\ payment' = [payment EXCEPT ![k] = new]
      /\ purchase' = [purchase EXCEPT
                        ![p].paid = paid,
                        ![p].paidStatus = PaidStatus(paid, purchase[p].total)]
      /\ payable' = payable - amount /\ spent' = spent + amount
      /\ UNCHANGED <<order, drawn, goods, user, overlapped>>
  BY DEF RecordSupplierPayment
<1>6. new.of = p /\ new.status = "ACTIVE" /\ new.amount = amount OBVIOUS
<1>7. payable \in Int /\ spent \in Nat
  BY InvImpliesTypeOK DEF TypeOK
<1> DEFINE owed == payable + (purchase[p].paid - paid)
           out == spent + (paid - purchase[p].paid)
<1>8. payable' = owed /\ spent' = out BY <1>1, <1>2, <1>5, <1>7
<1>9. paid \in Nat
      /\ paid + PaidBy(p, k) = purchase[p].paid
           + (IF new.status = "ACTIVE" THEN new.amount ELSE 0)
  BY <1>1, <1>2, <1>4, <1>6
<1> HIDE DEF new, paid
<1>10. QED BY <1>3, <1>4, <1>5, <1>6, <1>8, <1>9, PaymentStep

\* A payment that is void moves its amount back again.
LEMMA VoidSupplierPaymentStep ==
  ASSUME Inv, NEW k \in Payments, VoidSupplierPayment(k)
  PROVE  Inv'
<1> DEFINE p == payment[k].of
           new == [payment[k] EXCEPT !.status = "VOID"]
           paid == IF payment[k].amount > purchase[p].paid THEN 0
                   ELSE purchase[p].paid - payment[k].amount
<1>1. k \in Keys BY DEF VoidSupplierPayment, HasJournal
<1>2. payment[k] \in Payment BY DEF Inv, Shape
<1>3. p \in Purchases /\ payment[k].amount \in Nat /\ new \in Payment
      /\ new.of = p /\ new.status = "VOID"
  BY <1>2 DEF Payment
<1>4. /\ purchase[p].paid \in Nat /\ purchase[p].total \in Nat
      /\ purchase[p].paid <= purchase[p].total
      /\ purchase[p].paid = Total(Shares(p))
  BY <1>3, PurchaseFacts DEF Purchase
<1>5. /\ payment[k].status = "ACTIVE" /\ purchase[p].status = "COMPLETED"
      /\ payment' = [payment EXCEPT ![k] = new]
      /\ purchase' = [purchase EXCEPT
                        ![p].paid = paid,
                        ![p].paidStatus = PaidStatus(paid, purchase[p].total)]
      /\ payable' = payable + payment[k].amount
      /\ spent' = spent - payment[k].amount
      /\ UNCHANGED <<order, drawn, goods, user, overlapped>>
  <2>1. payment' = [payment EXCEPT ![k] = new]
    BY <1>2 DEF VoidSupplierPayment, Inv, Shape
  <2>2. QED BY <2>1 DEF VoidSupplierPayment
<1>6. PaidBy(p, k) = payment[k].amount BY <1>5 DEF PaidBy
<1>7. payment[k].amount <= purchase[p].paid
  <2>1. PaidBy(p, k) <= Total(Shares(p))
    <3> DEFINE s == Shares(p)
    <3>1. s \in [Payments -> Nat] BY <1>3, SumTypes DEF Inv
    <3>2. s[k] = PaidBy(p, k) BY DEF Shares
    <3> HIDE DEF s
    <3>3. s[k] <= Total(s) BY <3>1, PaymentsFinite, TotalChange
    <3>4. QED BY <3>2, <3>3 DEF s
  <2>2. QED BY <1>4, <1>6, <2>1
<1>8. payable \in Int /\ spent \in Nat
  BY InvImpliesTypeOK DEF TypeOK
<1>9. paid = purchase[p].paid - payment[k].amount
  BY <1>3, <1>4, <1>7
<1>10. /\ paid \in Nat /\ paid <= purchase[p].total
       /\ payable' = payable + (purchase[p].paid - paid)
       /\ spent' = spent + (paid - purchase[p].paid)
       /\ paid + PaidBy(p, k) = purchase[p].paid
            + (IF new.status = "ACTIVE" THEN new.amount ELSE 0)
  BY <1>3, <1>4, <1>5, <1>6, <1>7, <1>8, <1>9
<1> HIDE DEF p, new, paid
<1>11. payment[k].status = "ACTIVE" => payment[k].of = p BY DEF p
<1>12. QED BY <1>1, <1>3, <1>5, <1>10, <1>11, PaymentStep

\* A void purchase leaves nothing on the books and no live payment.
LEMMA VoidPurchaseStep ==
  ASSUME Inv, NEW p \in Purchases, VoidPurchase(p)
  PROVE  Inv'
<1> DEFINE first == payment[p].amount
           s == "UNPAID"
           new == [purchase[p] EXCEPT !.status = "VOID", !.paid = 0,
                                      !.paidStatus = s]
           void == [payment[p] EXCEPT !.status = "VOID"]
<1>1. /\ purchase[p].status = "COMPLETED" /\ Journaled(p) = {}
      /\ payment' = SoftVoid(p)
      /\ purchase' = [purchase EXCEPT ![p] = new]
      /\ goods' = goods - purchase[p].total /\ spent' = spent - first
      /\ payable' = payable - (purchase[p].total - first)
      /\ UNCHANGED <<order, drawn, user, overlapped>>
  <2>1. purchase' = [purchase EXCEPT ![p] = new]
    BY DEF VoidPurchase, Inv, Shape
  <2>2. QED BY <2>1 DEF VoidPurchase, OnCredit
<1>2. /\ purchase[p] \in Purchase /\ payment[p] \in Payment
      /\ p \in Payments /\ p \notin Keys
      /\ payment[p].status = "ACTIVE" => payment[p].of = p
      /\ payment[p].status = "ACTIVE" \/ first = 0
      /\ purchase[p].paid = Total(Shares(p))
  BY <1>1, PurchaseFacts, PurchasingAssumption
<1>3. /\ new \in Purchase /\ new.status = "VOID" /\ new.paid = 0
      /\ new.paidStatus = "UNPAID" /\ new.total = purchase[p].total
  BY <1>2 DEF Purchase
<1>4. void \in Payment /\ void.status = "VOID"
  BY <1>2 DEF Payment
<1> HIDE DEF new
<1>5. \A k \in Payments : k # p => payment'[k] = payment[k]
  <2> SUFFICES ASSUME NEW k \in Payments, k # p,
                      payment[k].status = "ACTIVE", payment[k].of = p,
                      ~HasJournal(k)
               PROVE  FALSE
    BY <1>1 DEF SoftVoid
  <2>1. k \in Purchases BY DEF HasJournal, Payments
  <2>2. QED BY <2>1, PurchaseFacts
<1>6. payment'[p] = IF payment[p].status = "ACTIVE" THEN void ELSE payment[p]
  BY <1>1, <1>2 DEF SoftVoid, HasJournal
<1> HIDE DEF void
<1>7. Shape'
  <2>1. purchase' \in [Purchases -> Purchase]
    BY <1>1, <1>3 DEF Inv, Shape
  <2>2. payment' \in [Payments -> Payment]
    <3>1. \A k \in Payments : payment'[k] \in Payment
      BY <1>2, <1>4, <1>5, <1>6 DEF Inv, Shape
    <3>2. payment' = [k \in Payments |-> payment'[k]]
      BY <1>1 DEF SoftVoid
    <3>3. QED BY <3>1, <3>2
  <2>3. QED BY <1>1, <2>1, <2>2 DEF Inv, Shape
<1>8. /\ purchase'[p] = new
      /\ \A q \in Purchases \ {p} : purchase'[q] = purchase[q]
  BY <1>1 DEF Inv, Shape
<1>9. payment'[p].status # "ACTIVE" BY <1>4, <1>6
<1>10. FirstPaid'
  BY <1>3, <1>5, <1>8, <1>9 DEF Inv, FirstPaid, Payments
<1>11. /\ \A q \in Purchases \ {p} : Total(Shares(q)') = Total(Shares(q))
       /\ Total(Shares(p)') + PaidBy(p, p)
            = Total(Shares(p)) + PaidBy(p, p)'
  BY <1>2, <1>5, <1>7, <1>9, OnePayment DEF Inv
<1>12. Total(Shares(p)') = 0 /\ Total(Shares(p)) = PaidBy(p, p)
  <2> DEFINE t == Shares(p)'
             r == Shares(p)
  <2>1. \A k \in Payments : k # p => PaidBy(p, k) = 0
    <3> SUFFICES ASSUME NEW k \in Payments, k # p,
                        payment[k].status = "ACTIVE", payment[k].of = p
                 PROVE  FALSE
      BY DEF PaidBy
    <3>1. k \in Keys BY PurchaseFacts DEF Payments
    <3>2. k \in Journaled(p) BY <3>1 DEF Journaled, HasJournal
    <3>3. QED BY <1>1, <3>2
  <2>2. \A k \in Payments : PaidBy(p, k)' = 0
    BY <1>5, <1>9, <2>1 DEF PaidBy
  <2>3. t \in [Payments -> Nat] /\ \A k \in Payments : t[k] = 0
    BY <2>2 DEF Shares
  <2>4. r \in [Payments -> Nat] /\ r[p] = PaidBy(p, p)
        /\ \A k \in Payments : k # p => r[k] = 0
    BY <1>2, <2>1, SumTypes DEF Shares, Inv
  <2> HIDE DEF t, r
  <2>5. Total(t) = 0 BY <2>3, TotalZero
  <2>6. Total(r) = PaidBy(p, p) BY <1>2, <2>4, TotalSingle
  <2>7. QED BY <2>5, <2>6 DEF t, r
<1>13. PaidIsPayments'
  <2>1. new.paidStatus = PaidStatus(new.paid, new.total)
    BY <1>3 DEF PaidStatus
  <2>2. new.paid <= new.total BY <1>2, <1>3 DEF Purchase
  <2>3. QED BY <1>3, <1>8, <1>11, <1>12, <2>1, <2>2, PaidStep
<1>14. first = purchase[p].paid /\ first \in Nat
  <2>1. first \in Nat BY <1>2 DEF Payment
  <2>2. PaidBy(p, p) = first BY <1>2 DEF PaidBy
  <2>3. QED BY <1>2, <1>12, <2>1, <2>2
<1>15. /\ Cost(p) = purchase[p].total /\ Cost(p)' = 0
       /\ Paid(p) = first /\ Paid(p)' = 0
  BY <1>1, <1>3, <1>8, <1>14 DEF Cost, Paid
<1>16. goods \in Nat /\ spent \in Nat /\ payable \in Int
       /\ purchase[p].total \in Nat
  BY <1>2, InvImpliesTypeOK DEF TypeOK, Purchase
<1>17. payable' \in Int /\ goods' \in Int /\ spent' \in Int
       /\ payable' + spent' = goods'
  BY <1>1, <1>14, <1>16, PurchaseFacts
<1>18. BooksMatchPurchases'
  <2>1. goods' + Cost(p) = goods + Cost(p)' BY <1>1, <1>15, <1>16
  <2>2. spent' + Paid(p) = spent + Paid(p)' BY <1>1, <1>14, <1>15, <1>16
  <2>3. QED BY <1>7, <1>8, <1>17, <2>1, <2>2, BooksStep
<1>19. QED BY <1>7, <1>10, <1>13, <1>17, <1>18 DEF Inv

\* A step that sets some lines free of their purchases, and no more.
LEMMA WriteUpdateStep ==
  ASSUME Inv, NEW u \in Users, NEW lines \in Lines, WriteUpdate(u, lines)
  PROVE  Inv'
<1> DEFINE o == user[u].order
<1>1. user[u] \in Task /\ user[u].do = "update" /\ o \in Orders
  BY DEF WriteUpdate, Inv, Shape, Task
<1>2. order[o] \in Order BY <1>1 DEF Inv, Shape
<1>3. lines \in [Items -> Nat]
  BY PurchasingAssumption DEF Lines
<1>4. \A p \in Purchases :
        /\ purchase'[p] \in Purchase
        /\ purchase'[p].status = purchase[p].status
        /\ purchase'[p].total = purchase[p].total
        /\ purchase'[p].paid = purchase[p].paid
        /\ purchase'[p].paidStatus = purchase[p].paidStatus
  <2> SUFFICES ASSUME NEW p \in Purchases
               PROVE  /\ purchase'[p] \in Purchase
                      /\ purchase'[p].status = purchase[p].status
                      /\ purchase'[p].total = purchase[p].total
                      /\ purchase'[p].paid = purchase[p].paid
                      /\ purchase'[p].paidStatus = purchase[p].paidStatus
    OBVIOUS
  <2>1. purchase[p] \in Purchase BY PurchaseFacts
  <2>2. purchase'[p] = purchase[p]
        \/ purchase'[p] = [purchase[p] EXCEPT !.item = NoItem]
    BY DEF WriteUpdate
  <2>3. QED BY <2>1, <2>2 DEF Purchase
<1>5. purchase' \in [Purchases -> Purchase]
  <2>1. purchase' = [p \in Purchases |-> purchase'[p]] BY DEF WriteUpdate
  <2>2. QED BY <1>4, <2>1
<1>6. order' \in [Orders -> Order]
  <2> DEFINE next == order[o].revision + 1
             new == [order[o] EXCEPT !.lines = lines, !.revision = next]
  <2>0. next \in Nat BY <1>2 DEF Order
  <2>1. new \in Order
    <3> HIDE DEF next
    <3>1. QED BY <1>2, <1>3, <2>0 DEF Order
  <2>2. order' = [order EXCEPT ![o] = new]
    BY <1>1 DEF WriteUpdate, Inv, Shape
  <2> HIDE DEF new
  <2>3. QED BY <2>1, <2>2 DEF Inv, Shape
<1>7. Shape'
  BY <1>5, <1>6 DEF WriteUpdate, Inv, Shape, Idle, Task
<1>8. UNCHANGED <<payment, payable, spent, goods>> BY DEF WriteUpdate
<1>9. FirstPaid' BY <1>4, <1>8 DEF Inv, FirstPaid
<1>10. PaidIsPayments'
  <2> SUFFICES ASSUME NEW p \in Purchases
               PROVE  /\ purchase'[p].paid
                           = Total([k \in Payments |-> PaidBy(p, k)])'
                      /\ purchase'[p].paid <= purchase'[p].total
                      /\ purchase'[p].paidStatus = PaidStatus(
                           purchase'[p].paid, purchase'[p].total)
                      /\ purchase'[p].status # "COMPLETED" =>
                           purchase'[p].paid = 0
    BY DEF PaidIsPayments, PaidStatus
  <2>1. [k \in Payments |-> PaidBy(p, k)]' = [k \in Payments |-> PaidBy(p, k)]
    BY <1>8 DEF PaidBy
  <2>2. QED BY <1>4, <2>1 DEF Inv, PaidIsPayments
<1>11. BooksMatchPurchases'
  <2>1. \A p \in Purchases : Cost(p)' = Cost(p) /\ Paid(p)' = Paid(p)
    BY <1>4 DEF Cost, Paid
  <2>2. [p \in Purchases |-> Cost(p)]' = [p \in Purchases |-> Cost(p)]
        /\ [p \in Purchases |-> Paid(p)]' = [p \in Purchases |-> Paid(p)]
    BY <2>1
  <2>3. QED BY <1>8, <2>2 DEF Inv, BooksMatchPurchases
<1>12. QED BY <1>7, <1>8, <1>9, <1>10, <1>11 DEF Inv

\* receivePO books every line as it stores it.
LEMMA WriteReceiptStep ==
  ASSUME Inv, NEW u \in Users, NEW got \in Lines, NEW pay \in BOOLEAN,
         NEW S \in SUBSET Purchases, NEW line \in [S -> Items],
         WriteReceipt(u, got, pay, line)
  PROVE  Inv'
<1> DEFINE o == user[u].order
           cost == [p \in Purchases |-> IF p \in S THEN got[line[p]] ELSE 0]
           paid == IF pay THEN cost ELSE [p \in Purchases |-> 0]
           rest == [p \in Purchases |-> OnCredit(cost[p], paid[p])]
           kind(p) == IF line[p] \in RoastedItems THEN "ROASTED_BEAN"
                                                 ELSE "OTHER"
           new(p) == NewPurchase(kind(p), cost[p], paid[p], o, line[p],
                                 cost[p])
<1>1. user[u] \in Task /\ user[u].do = "receive" /\ o \in Orders
  BY DEF WriteReceipt, Inv, Shape, Task
<1>2. DOMAIN line = S /\ \A p \in S : line[p] \in Items OBVIOUS
<1>3. got \in [Items -> Nat] BY PurchasingAssumption DEF Lines
<1>4. /\ cost \in [Purchases -> Nat] /\ paid \in [Purchases -> Nat]
      /\ \A p \in Purchases : /\ paid[p] <= cost[p]
                              /\ p \notin S => cost[p] = 0 /\ paid[p] = 0
                              /\ rest[p] \in Nat
                              /\ cost[p] = rest[p] + paid[p]
  <2>1. cost \in [Purchases -> Nat] BY <1>2, <1>3
  <2>2. paid \in [Purchases -> Nat] BY <2>1
  <2>3. \A p \in Purchases :
          /\ paid[p] = cost[p] \/ paid[p] = 0
          /\ p \notin S => cost[p] = 0
    OBVIOUS
  <2>4. ASSUME NEW p \in Purchases
        PROVE  /\ paid[p] <= cost[p]
               /\ p \notin S => cost[p] = 0 /\ paid[p] = 0
               /\ rest[p] \in Nat
               /\ cost[p] = rest[p] + paid[p]
    <3>1. rest[p] = cost[p] - paid[p] BY DEF OnCredit
    <3>2. cost[p] \in Nat /\ paid[p] \in Nat BY <2>1, <2>2
    <3> HIDE DEF cost, paid, rest
    <3>3. QED BY <2>3, <3>1, <3>2
  <2>5. QED BY <2>1, <2>2, <2>4
<1>5. /\ \A p \in S : purchase[p].status = "NONE"
      /\ \A p \in Purchases : purchase'[p] = IF p \in S THEN new(p)
                                              ELSE purchase[p]
      /\ purchase' = [p \in Purchases |-> purchase'[p]]
      /\ \A k \in Payments :
           payment'[k] = IF k \in S THEN FirstPayment(k, paid[k])
                         ELSE payment[k]
      /\ payment' = [k \in Payments |-> payment'[k]]
      /\ goods' = goods + Total(cost) /\ spent' = spent + Total(paid)
      /\ payable' = payable + Total(rest)
  BY <1>2 DEF WriteReceipt, Unused
<1>6. \A p \in S : /\ new(p) \in Purchase /\ new(p).status = "COMPLETED"
                   /\ new(p).total = cost[p] /\ new(p).paid = paid[p]
                   /\ new(p).paidStatus = PaidStatus(paid[p], cost[p])
  <2> SUFFICES ASSUME NEW p \in S
               PROVE  /\ new(p) \in Purchase /\ new(p).status = "COMPLETED"
                      /\ new(p).total = cost[p] /\ new(p).paid = paid[p]
                      /\ new(p).paidStatus = PaidStatus(paid[p], cost[p])
    OBVIOUS
  <2>1. kind(p) \in {"ROASTED_BEAN", "OTHER"} /\ line[p] \in Items
        /\ cost[p] \in Nat /\ paid[p] \in Nat
    BY <1>2, <1>4
  <2> HIDE DEF kind, cost, paid, o
  <2>2. new(p) \in Purchase BY <1>1, <2>1, NewPurchaseType
  <2>3. QED BY <2>2 DEF NewPurchase
<1>7. \A p \in S : /\ FirstPayment(p, paid[p]) \in Payment
                   /\ FirstPayment(p, paid[p]).of = p
                   /\ FirstPayment(p, paid[p]).amount = paid[p]
                   /\ FirstPayment(p, paid[p]).status = "ACTIVE" <=>
                        paid[p] > 0
  BY <1>4 DEF FirstPayment, Payment
<1>8. /\ Total(cost) = Total(rest) + Total(paid)
      /\ Total(cost) \in Nat /\ Total(rest) \in Nat /\ Total(paid) \in Nat
  <2>1. rest \in [Purchases -> Nat] BY <1>4
  <2> HIDE DEF cost, paid, rest
  <2>2. \A p \in Purchases : cost[p] = rest[p] + paid[p] BY <1>4
  <2>3. cost \in [Purchases -> Nat] /\ paid \in [Purchases -> Nat] BY <1>4
  <2>4. Total(cost) = Total(rest) + Total(paid)
    BY <2>1, <2>2, <2>3, PaymentsFinite, TotalAdd
  <2>5. QED BY <2>1, <2>3, <2>4, PaymentsFinite, TotalType
<1> HIDE DEF cost, paid, rest, new
<1>9. Shape'
  <2>1. purchase' \in [Purchases -> Purchase]
    BY <1>5, <1>6, PurchaseFacts
  <2>2. payment' \in [Payments -> Payment]
    BY <1>5, <1>7 DEF Inv, Shape
  <2>3. order' \in [Orders -> Order]
    <3>1. order[o] \in Order BY <1>1 DEF Inv, Shape
    <3>2. \E s \in {"PARTIAL", "RECEIVED"} :
            order' = [order EXCEPT ![o].status = s]
      BY DEF WriteReceipt
    <3>3. \A s \in {"PARTIAL", "RECEIVED"} :
            [order[o] EXCEPT !.status = s] \in Order
      BY <3>1 DEF Order
    <3>4. PICK s \in {"PARTIAL", "RECEIVED"} :
            order' = [order EXCEPT ![o] = [order[o] EXCEPT !.status = s]]
      BY <1>1, <3>2 DEF Inv, Shape
    <3>5. QED BY <3>3, <3>4 DEF Inv, Shape
  <2>4. QED
    BY <2>1, <2>2, <2>3 DEF WriteReceipt, Inv, Shape, Idle, Task
<1>10. FirstPaid'
  <2> SUFFICES ASSUME NEW p \in Purchases
               PROVE  /\ payment'[p].status = "ACTIVE" =>
                           payment'[p].of = p
                      /\ purchase'[p].status = "COMPLETED" =>
                           payment'[p].status = "ACTIVE"
                             \/ payment'[p].amount = 0
    BY DEF FirstPaid
  <2>1. p \in Payments BY PurchaseFacts
  <2>2. CASE p \in S BY <1>4, <1>5, <1>7, <2>1, <2>2
  <2>3. CASE p \notin S
    BY <1>5, <2>1, <2>3, PurchaseFacts
  <2>4. QED BY <2>2, <2>3
<1>11. ASSUME NEW p \in Purchases
       PROVE  purchase'[p].paid = Total(Shares(p)')
  <2> DEFINE r == Shares(p)
             t == Shares(p)'
  <2>1. r \in [Payments -> Nat] /\ t \in [Payments -> Nat]
    <3>1. \A k \in Payments : PaidBy(p, k)' \in Nat
      BY <1>9 DEF Shape, Payment, PaidBy
    <3>2. QED BY <3>1, SumTypes DEF Shares, Inv
  <2>2. \A k \in Payments : k \notin S => t[k] = r[k]
    BY <1>5 DEF Shares, PaidBy
  <2>3. \A k \in S : k # p => r[k] = 0 /\ t[k] = 0
    <3> SUFFICES ASSUME NEW k \in S, k # p PROVE r[k] = 0 /\ t[k] = 0
      OBVIOUS
    <3>1. k \in Payments /\ (payment[k].status = "ACTIVE" =>
                               payment[k].of = k)
      BY PurchaseFacts
    <3>2. payment'[k].of = k BY <1>5, <1>7, <3>1
    <3>3. PaidBy(p, k) = 0 /\ PaidBy(p, k)' = 0 BY <3>1, <3>2 DEF PaidBy
    <3>4. QED BY <3>1, <3>3 DEF Shares
  <2>4. CASE p \notin S
    <3>1. \A k \in Payments : t[k] = r[k] BY <2>2, <2>3, <2>4
    <3>2. t = r BY <2>1, <3>1
    <3>3. purchase'[p].paid = purchase[p].paid BY <1>5, <2>4
    <3>4. QED BY <3>2, <3>3, PurchaseFacts
  <2>5. CASE p \in S
    <3>1. p \in Payments /\ purchase[p].paid = 0
          /\ purchase[p].paid = Total(Shares(p))
      BY <1>5, <2>5, PurchaseFacts
    <3>2. t[p] = paid[p]
      <4>1. PaidBy(p, p)' = paid[p] BY <1>4, <1>5, <1>7, <2>5, <3>1 DEF PaidBy
      <4>2. QED BY <3>1, <4>1 DEF Shares
    <3>3. Total(r) = 0 BY <3>1
    <3>4. purchase'[p].paid = paid[p] BY <1>5, <1>6, <2>5
    <3> HIDE DEF r, t
    <3>5. \A k \in Payments : r[k] = 0
      <4>1. ASSUME NEW k \in Payments PROVE r[k] = 0
        <5>1. r[k] <= Total(r) BY <2>1, PaymentsFinite, TotalChange
        <5>2. r[k] \in Nat BY <2>1
        <5>3. QED BY <3>3, <5>1, <5>2
      <4>2. QED BY <4>1
    <3>6. \A k \in Payments : k # p => t[k] = 0
      BY <2>2, <2>3, <3>5
    <3>7. Total(t) = t[p] BY <2>1, <3>1, <3>6, TotalSingle
    <3>8. QED BY <3>2, <3>4, <3>7 DEF t
  <2>6. QED BY <2>4, <2>5
<1>12. PaidIsPayments'
  <2> SUFFICES ASSUME NEW p \in Purchases
               PROVE  /\ purchase'[p].paid = Total(Shares(p)')
                      /\ purchase'[p].paid <= purchase'[p].total
                      /\ purchase'[p].paidStatus = PaidStatus(
                           purchase'[p].paid, purchase'[p].total)
                      /\ purchase'[p].status # "COMPLETED" =>
                           purchase'[p].paid = 0
    BY DEF PaidIsPayments, Shares, PaidStatus
  <2>1. CASE p \in S BY <1>4, <1>5, <1>6, <1>11, <2>1
  <2>2. CASE p \notin S
    <3>1. purchase'[p] = purchase[p] BY <1>5, <2>2
    <3>2. QED BY <1>11, <3>1 DEF Inv, PaidIsPayments
  <2>3. QED BY <2>1, <2>2
<1>13. BooksMatchPurchases'
  <2>1. \A p \in Purchases : /\ Cost(p)' = Cost(p) + cost[p]
                             /\ Paid(p)' = Paid(p) + paid[p]
    <3> SUFFICES ASSUME NEW p \in Purchases
                 PROVE  /\ Cost(p)' = Cost(p) + cost[p]
                        /\ Paid(p)' = Paid(p) + paid[p]
      OBVIOUS
    <3>1. CASE p \in S
      BY <1>4, <1>5, <1>6, <3>1 DEF Cost, Paid
    <3>2. CASE p \notin S
      <4>1. Cost(p)' = Cost(p) /\ Paid(p)' = Paid(p)
        BY <1>5, <3>2 DEF Cost, Paid
      <4>2. Cost(p) \in Nat /\ Paid(p) \in Nat
        BY DEF Inv, Shape, Purchase, Cost, Paid
      <4>3. QED BY <1>4, <3>2, <4>1, <4>2
    <3>3. QED BY <3>1, <3>2
  <2> DEFINE c == Costs
             d == Costs'
             e == Paids
             f == Paids'
  <2>2. /\ c \in [Purchases -> Nat] /\ d \in [Purchases -> Nat]
        /\ e \in [Purchases -> Nat] /\ f \in [Purchases -> Nat]
    <3>1. \A q \in Purchases : Cost(q)' \in Nat /\ Paid(q)' \in Nat
      BY <1>9 DEF Shape, Purchase, Cost, Paid
    <3>2. QED BY <3>1, SumTypes DEF Costs, Paids, Inv
  <2>3. \A p \in Purchases : d[p] = c[p] + cost[p] /\ f[p] = e[p] + paid[p]
    BY <2>1 DEF Costs, Paids
  <2> HIDE DEF c, d, e, f
  <2>4. Total(d) = Total(c) + Total(cost) /\ Total(f) = Total(e) + Total(paid)
    <3>1. cost \in [Purchases -> Nat] /\ paid \in [Purchases -> Nat]
      BY <1>4
    <3>2. Total(d) = Total(c) + Total(cost)
      BY <2>2, <2>3, <3>1, PaymentsFinite, TotalAdd
    <3>3. Total(f) = Total(e) + Total(paid)
      BY <2>2, <2>3, <3>1, PaymentsFinite, TotalAdd
    <3>4. QED BY <3>2, <3>3
  <2>5. /\ goods = Total(c) /\ spent = Total(e) /\ payable + spent = goods
        /\ payable \in Int
    BY DEF c, e, Inv, BooksMatchPurchases, Costs, Paids
  <2>6. Total(c) \in Nat /\ Total(e) \in Nat
    BY <2>2, PaymentsFinite, TotalType
  <2>7. goods' = Total(d) /\ spent' = Total(f) /\ payable' + spent' = goods'
    BY <1>5, <1>8, <2>4, <2>5, <2>6
  <2>8. QED BY <2>7 DEF BooksMatchPurchases, Costs, Paids, d, f
<1>14. payable' \in Int BY <1>5, <1>8 DEF Inv
<1>15. QED BY <1>9, <1>10, <1>12, <1>13, <1>14 DEF Inv

\* Reading an order and what else leaves the purchases alone.
LEMMA OtherSteps ==
  ASSUME Inv,
         \/ \E o \in Orders, lines \in Lines : CreateDraftPO(o, lines)
         \/ \E u \in Users : \/ WriteStatus(u) \/ RetryReceipt(u) \/ GiveUp(u)
                            \/ \E t \in Requests : Read(u, t)
         \/ \E p \in Purchases : Draw(p)
  PROVE  Inv'
<1>1. ASSUME NEW o \in Orders, NEW lines \in Lines, CreateDraftPO(o, lines)
      PROVE  Inv'
  <2>1. lines \in [Items -> Nat]
    BY PurchasingAssumption DEF Lines
  <2> DEFINE s == "DRAFT"
             new == [order[o] EXCEPT !.status = s, !.lines = lines]
  <2>2. new \in Order BY <2>1 DEF Inv, Shape, Order
  <2>3. order' = [order EXCEPT ![o] = new]
    BY <1>1 DEF CreateDraftPO, Inv, Shape
  <2> HIDE DEF new
  <2>4. Shape' BY <1>1, <2>2, <2>3 DEF CreateDraftPO, Inv, Shape
  <2>5. QED BY <1>1, <2>4, FrameStep DEF CreateDraftPO
<1>2. ASSUME NEW u \in Users, WriteStatus(u)
      PROVE  Inv'
  <2> DEFINE o == user[u].order
             s == IF user[u].do = "send" THEN "SENT" ELSE "CANCELLED"
             new == [order[o] EXCEPT !.status = s]
  <2>1. o \in Orders BY <1>2 DEF WriteStatus, Inv, Shape, Task
  <2>2. new \in Order BY <2>1 DEF Inv, Shape, Order
  <2>3. order' = [order EXCEPT ![o] = new]
    BY <1>2, <2>1 DEF WriteStatus, Inv, Shape
  <2> HIDE DEF new
  <2>4. Shape'
    BY <1>2, <2>1, <2>2, <2>3 DEF WriteStatus, Inv, Shape, Idle, Task
  <2>5. QED BY <1>2, <2>4, FrameStep DEF WriteStatus
<1>3. ASSUME NEW u \in Users, RetryReceipt(u)
      PROVE  Inv'
  <2>1. user[u] \in Task /\ user[u].do = "receive"
    BY <1>3 DEF RetryReceipt, Inv, Shape
  <2> DEFINE q == [i \in Items |-> Received(user[u].order, i)]
             new == [user[u] EXCEPT !.before = q]
  <2>2. q \in [Items -> Nat] BY ReceivedType DEF Inv
  <2> HIDE DEF q
  <2>3. new \in Task BY <2>1, <2>2 DEF Task
  <2>4. user' = [user EXCEPT ![u] = new]
    BY <1>3 DEF RetryReceipt, Inv, Shape, q
  <2> HIDE DEF new
  <2>5. Shape' BY <1>3, <2>3, <2>4 DEF RetryReceipt, Inv, Shape
  <2>6. QED BY <1>3, <2>5, FrameStep DEF RetryReceipt
<1>4. ASSUME NEW u \in Users, GiveUp(u)
      PROVE  Inv'
  <2>1. Shape' BY <1>4 DEF GiveUp, Inv, Shape, Idle, Task
  <2>2. QED BY <1>4, <2>1, FrameStep DEF GiveUp
<1>5. ASSUME NEW u \in Users, NEW t \in Requests, Read(u, t)
      PROVE  Inv'
  <2>1. t \in Task /\ t.order \in Orders BY RequestType DEF Inv
  <2>2. Shape' BY <1>5, <2>1 DEF Read, Inv, Shape
  <2>3. QED BY <1>5, <2>2, FrameStep DEF Read
<1>6. ASSUME NEW p \in Purchases, Draw(p)
      PROVE  Inv'
  <2>1. Shape' BY <1>6 DEF Draw, Inv, Shape
  <2>2. QED BY <1>6, <2>1, FrameStep DEF Draw
<1>7. QED BY <1>1, <1>2, <1>3, <1>4, <1>5, <1>6

\* Every step keeps the invariant of purchases, payments and books.
LEMMA NextInv == Inv /\ [Next]_vars => Inv'
<1> SUFFICES ASSUME Inv, [Next]_vars PROVE Inv' OBVIOUS
<1>1. CASE UNCHANGED vars
  <2>1. Shape' BY <1>1 DEF vars, Inv, Shape
  <2>2. QED BY <1>1, <2>1, FrameStep DEF vars
<1>2. CASE Ordering
  BY <1>2, OtherSteps, WriteUpdateStep, WriteReceiptStep
     DEF Ordering, Unused
<1>3. CASE Paying
  BY <1>3, OtherSteps, BuyStep, RecordSupplierPaymentStep,
     VoidSupplierPaymentStep, VoidPurchaseStep DEF Paying
<1>4. QED BY <1>1, <1>2, <1>3 DEF Next

\* Purchases, payments and books agree in every reachable state.
THEOREM Invariance == Spec => []Inv
<1>1. QED BY InitInv, NextInv, PTL DEF Spec

\* The types hold, and no account is ever on the wrong side: what suppliers
\* are owed is never paid twice.
THEOREM TypeCorrect == Spec => []TypeOK
<1>1. QED BY Invariance, InvImpliesTypeOK, PTL

\* A purchase is paid by its payments, whatever calls come in which order.
THEOREM PaidAlwaysPayments == Spec => []PaidIsPayments
<1>1. Inv => PaidIsPayments BY DEF Inv
<1>2. QED BY <1>1, Invariance, PTL

\* The books always say what the purchases and their payments say.
THEOREM BooksAlwaysMatch == Spec => []BooksMatchPurchases
<1>1. Inv => BooksMatchPurchases BY DEF Inv
<1>2. QED BY <1>1, Invariance, PTL
-----------------------------------------------------------------------------
(* Orders and their receipts. *)

\* What OrderIsReceipts and ClosedIsReceived say of one order.
StatusIsReceipts(o) ==
  LET lacking == {i \in Items : Received(o, i) < order[o].lines[i]}
  IN  /\ \A i \in Items : Received(o, i) <= order[o].lines[i]
      /\ order[o].status = "RECEIVED" => lacking = {}
      /\ order[o].status = "PARTIAL" <=> ReceiptsOf(o) # {} /\ lacking # {}
      /\ order[o].status \in {"DRAFT", "SENT", "CANCELLED"} =>
           ReceiptsOf(o) = {}
Closed(o) ==
  order[o].status = "RECEIVED" =>
    /\ ReceiptsOf(o) # {}
    /\ \/ \E p \in ReceiptsOf(o) : purchase[p].item = NoItem
       \/ \A i \in Items : Received(o, i) >= order[o].lines[i]

\* An order that is not there yet has no receipts, and nobody works on it.
Fresh(o) ==
  order[o].status = "NONE" =>
    /\ ReceiptsOf(o) = {}
    /\ \A u \in Users : user[u] # Idle => user[u].order # o

\* What a receipt has read of its order: as long as the lines are the same,
\* they are what it read, and no less has been received.
Seen(u) ==
  user[u].do = "receive" =>
    LET t == user[u]
        o == t.order
    IN  /\ t.revision <= order[o].revision
        /\ t.revision = order[o].revision =>
             /\ t.lines = order[o].lines
             /\ \A i \in Items : t.before[i] <= Received(o, i)

\* A call that is alone with its order knows the order as it is.
Exact(u) ==
  user[u] # Idle /\ user[u].order \notin overlapped =>
    /\ Allowed(user[u])
    /\ user[u].do = "receive" =>
         \A i \in Items : user[u].before[i] = Received(user[u].order, i)
Alone ==
  \A u, v \in Users :
    u # v /\ user[u] # Idle /\ user[v] # Idle
      /\ user[u].order = user[v].order => user[u].order \in overlapped

OrderInv ==
  /\ \A p \in Purchases :
       purchase[p].status = "NONE" => purchase[p].order = NoOrder
  /\ Alone
  /\ \A u \in Users : Seen(u) /\ Exact(u)
  /\ \A o \in Orders : Fresh(o) /\ Closed(o)
  /\ \A o \in Orders \ overlapped : StatusIsReceipts(o)

\* Steps that leave the receipts of an order alone.
LEMMA ReceivedSame ==
  ASSUME NEW o,
         \A p \in Purchases :
           \/ /\ purchase'[p].order = purchase[p].order
              /\ purchase'[p].item = purchase[p].item
              /\ purchase'[p].units = purchase[p].units
           \/ purchase[p].order # o /\ purchase'[p].order # o
  PROVE  /\ \A i : Received(o, i)' = Received(o, i)
         /\ ReceiptsOf(o)' = ReceiptsOf(o)
         /\ \A p \in ReceiptsOf(o) : purchase'[p].item = purchase[p].item
<1>1. ASSUME NEW i PROVE Received(o, i)' = Received(o, i)
  <2> DEFINE q == [p \in Purchases |->
                     IF purchase[p].order = o /\ purchase[p].item = i
                     THEN purchase[p].units ELSE 0]
             r == [p \in Purchases |->
                     IF purchase'[p].order = o /\ purchase'[p].item = i
                     THEN purchase'[p].units ELSE 0]
  <2>1. \A p \in Purchases : q[p] = r[p] OBVIOUS
  <2>2. q = r BY <2>1
  <2> HIDE DEF q, r
  <2>3. Received(o, i) = Total(q) BY DEF Received, q
  <2>4. Received(o, i)' = Total(r) BY DEF Received, r
  <2>5. QED BY <2>2, <2>3, <2>4
<1>2. ReceiptsOf(o)' = ReceiptsOf(o) BY DEF ReceiptsOf
<1>3. \A p \in ReceiptsOf(o) : purchase'[p].item = purchase[p].item
  BY DEF ReceiptsOf
<1>4. QED BY <1>1, <1>2, <1>3

\* What holds of an order goes on to hold when neither it nor its receipts
\* change.
LEMMA OrderSame ==
  ASSUME NEW o \in Orders, order'[o] = order[o],
         \A i : Received(o, i)' = Received(o, i),
         ReceiptsOf(o)' = ReceiptsOf(o),
         \A p \in ReceiptsOf(o) : purchase'[p].item = purchase[p].item
  PROVE  /\ StatusIsReceipts(o) => StatusIsReceipts(o)'
         /\ Closed(o) => Closed(o)'
<1>1. StatusIsReceipts(o) => StatusIsReceipts(o)' BY DEF StatusIsReceipts
<1>2. Closed(o) => Closed(o)' BY DEF Closed
<1>3. QED BY <1>1, <1>2

\* Payments, direct purchases and voids leave all orders alone.
LEMMA PayingOrders ==
  ASSUME Inv, OrderInv, UNCHANGED <<order, user, overlapped>>,
         \A p \in Purchases :
           /\ purchase'[p].order = purchase[p].order
           /\ purchase'[p].status = "NONE" => purchase[p].status = "NONE"
           /\ \/ /\ purchase'[p].item = purchase[p].item
                 /\ purchase'[p].units = purchase[p].units
              \/ purchase[p].order = NoOrder
  PROVE  OrderInv'
<1>1. ASSUME NEW o \in Orders
      PROVE  /\ \A i : Received(o, i)' = Received(o, i)
             /\ ReceiptsOf(o)' = ReceiptsOf(o)
             /\ \A p \in ReceiptsOf(o) : purchase'[p].item = purchase[p].item
  <2>1. o # NoOrder BY PurchasingAssumption
  <2>2. QED BY <2>1, ReceivedSame
<1>2. Alone' BY DEF OrderInv, Alone
<1>3. ASSUME NEW u \in Users PROVE Seen(u)' /\ Exact(u)'
  <2>1. Seen(u) /\ Exact(u) BY DEF OrderInv
  <2>2. user[u] # Idle => user[u].order \in Orders
    BY DEF Inv, Shape, Task, Idle
  <2>3. user[u].do = "receive" => user[u] # Idle BY DEF Idle
  <2>4. user[u] # Idle =>
          \A i : Received(user[u].order, i)' = Received(user[u].order, i)
    <3> SUFFICES ASSUME NEW o \in Orders, user[u].order = o, NEW i
                 PROVE  Received(user[u].order, i)'
                          = Received(user[u].order, i)
      BY <2>2
    <3>1. Received(o, i)' = Received(o, i) BY <1>1
    <3>2. Received(user[u].order, i) = Received(o, i) OBVIOUS
    <3>3. Received(user[u].order, i)' = Received(o, i)'
      BY DEF Received
    <3>4. QED BY <3>1, <3>2, <3>3
  <2>5. Seen(u)' BY <2>1, <2>3, <2>4 DEF Seen
  <2>6. Exact(u)' BY <2>1, <2>4 DEF Exact, Allowed
  <2>7. QED BY <2>5, <2>6
<1>4. ASSUME NEW o \in Orders
      PROVE  Fresh(o)' /\ Closed(o)'
             /\ (o \notin overlapped' => StatusIsReceipts(o)')
  <2>1. Fresh(o)' BY <1>1 DEF OrderInv, Fresh
  <2>2. QED BY <1>1, <2>1, OrderSame DEF OrderInv
<1>5. QED BY <1>2, <1>3, <1>4 DEF OrderInv

\* What somebody has read of an order does not change with other orders.
LEMMA SeenSame ==
  ASSUME NEW v \in Users, NEW o \in Orders, user[v] # Idle,
         user[v].order = o, user'[v] = user[v], order'[o] = order[o],
         \A i : Received(o, i)' = Received(o, i),
         Seen(v), Exact(v), o \notin overlapped' => o \notin overlapped
  PROVE  Seen(v)' /\ Exact(v)'
<1>1. \A i : /\ Received(user[v].order, i) = Received(o, i)
             /\ Received(user[v].order, i)' = Received(o, i)'
  BY DEF Received
<1>2. Seen(v)' BY <1>1 DEF Seen
<1>3. Exact(v)' BY <1>1 DEF Exact, Allowed
<1>4. QED BY <1>2, <1>3

\* A handler of order o ends, or reads again: what has to be shown is about
\* that order only.
Handled(u, o) ==
  /\ user[u] # Idle /\ user[u].order = o
  /\ \A v \in Users \ {u} : user'[v] = user[v]
  /\ user'[u] = Idle \/ user'[u].order = o
  /\ overlapped' = overlapped
  /\ \A q \in Orders \ {o} : order'[q] = order[q]
  /\ \A p \in Purchases :
       \/ /\ purchase'[p].order = purchase[p].order
          /\ purchase'[p].item = purchase[p].item
          /\ purchase'[p].units = purchase[p].units
       \/ purchase[p].order \in {o, NoOrder} /\ purchase'[p].order = o
  /\ \A p \in Purchases :
       purchase'[p].status = "NONE" => purchase'[p].order = NoOrder
  /\ order'[o].status # "NONE" /\ Closed(o)'
  /\ o \notin overlapped => StatusIsReceipts(o)'
  /\ \A v \in Users : user'[v] # Idle /\ user[v].order = o => Seen(v)'
  /\ user'[u] # Idle => Exact(u)'

\* Then everything that holds of all orders and callers goes on to hold.
LEMMA HandlerStep ==
  ASSUME Inv, OrderInv, NEW u \in Users, NEW o \in Orders, Handled(u, o)
  PROVE  OrderInv'
<1> USE DEF Handled
<1>1. ASSUME NEW q \in Orders \ {o}
      PROVE  /\ \A i : Received(q, i)' = Received(q, i)
             /\ ReceiptsOf(q)' = ReceiptsOf(q)
             /\ \A p \in ReceiptsOf(q) : purchase'[p].item = purchase[p].item
  <2>1. q # NoOrder BY PurchasingAssumption
  <2>2. QED BY <2>1, ReceivedSame
<1>2. Alone'
  <2> SUFFICES ASSUME NEW v \in Users, NEW w \in Users, v # w,
                      user'[v] # Idle, user'[w] # Idle,
                      user'[v].order = user'[w].order
               PROVE  user'[v].order \in overlapped
    BY DEF Alone
  <2>1. \A x \in Users : user'[x] # Idle =>
          user[x] # Idle /\ user[x].order = user'[x].order
    OBVIOUS
  <2>2. QED BY <2>1 DEF OrderInv, Alone
<1>3. ASSUME NEW v \in Users PROVE Seen(v)' /\ Exact(v)'
  <2>1. CASE user'[v] = Idle BY <2>1 DEF Seen, Exact, Idle
  <2>2. CASE user'[v] # Idle /\ user[v].order = o
    <3>1. Seen(v)' BY <2>2
    <3>2. CASE v = u BY <2>2, <3>1, <3>2
    <3>3. CASE v # u
      <4>1. user'[v] = user[v] /\ user[v] # Idle BY <2>2, <3>3
      <4>2. o \in overlapped BY <2>2, <3>3, <4>1 DEF OrderInv, Alone
      <4>3. Exact(v)' BY <2>2, <4>1, <4>2 DEF Exact
      <4>4. QED BY <3>1, <4>3
    <3>4. QED BY <3>2, <3>3
  <2>3. CASE user'[v] # Idle /\ user[v].order # o
    <3>1. v # u /\ user'[v] = user[v] BY <2>3
    <3>2. PICK q \in Orders : user[v].order = q
      BY <2>3, <3>1 DEF Inv, Shape, Task, Idle
    <3>3. q \in Orders \ {o} BY <2>3, <3>2
    <3>4. QED BY <1>1, <2>3, <3>1, <3>2, <3>3, SeenSame DEF OrderInv
  <2>4. QED BY <2>1, <2>2, <2>3
<1>4. ASSUME NEW q \in Orders
      PROVE  Fresh(q)' /\ Closed(q)'
             /\ (q \notin overlapped' => StatusIsReceipts(q)')
  <2>1. CASE q = o BY <2>1 DEF Fresh
  <2>2. CASE q # o
    <3>1. Fresh(q)'
      <4>1. ASSUME order'[q].status = "NONE", NEW v \in Users,
                   user'[v] # Idle
            PROVE  user'[v].order # q
        <5>1. user[v] # Idle /\ user[v].order = user'[v].order BY <4>1
        <5>2. order[q].status = "NONE" BY <2>2, <4>1
        <5>3. QED BY <5>1, <5>2 DEF OrderInv, Fresh
      <4>2. QED BY <1>1, <2>2, <4>1 DEF OrderInv, Fresh
    <3>2. QED BY <1>1, <2>2, <3>1, OrderSame DEF OrderInv
  <2>3. QED BY <2>1, <2>2
<1>5. QED BY <1>2, <1>3, <1>4 DEF OrderInv

\* A receipt adds to its lines what it brings, and nothing elsewhere.
LEMMA ReceivedMore ==
  ASSUME Inv, OrderInv, NEW u \in Users, NEW got \in Lines,
         NEW pay \in BOOLEAN, NEW S \in SUBSET Purchases,
         NEW line \in [S -> Items], WriteReceipt(u, got, pay, line),
         NEW o \in Orders, user[u].order = o
  PROVE  /\ \A p \in S : /\ purchase[p].order = NoOrder
                         /\ purchase'[p].order = o
                         /\ purchase'[p].item = line[p]
                         /\ purchase'[p].status = "COMPLETED"
         /\ \A p \in Purchases \ S : purchase'[p] = purchase[p]
         /\ \A i \in Items : Received(o, i)' = Received(o, i) + got[i]
         /\ S # {}
<1>1. DOMAIN line = S /\ \A p \in S : line[p] \in Items OBVIOUS
<1>2. got \in [Items -> Nat] /\ \E i \in Items : got[i] > 0
  <2>1. got \in [Items -> 0 .. MaxUnits] /\ Total(got) \in 1 .. MaxUnits
    BY DEF Lines
  <2>2. got \in [Items -> Nat] BY <2>1, PurchasingAssumption
  <2>3. ASSUME ~ \E i \in Items : got[i] > 0 PROVE FALSE
    <3>1. \A i \in Items : got[i] = 0 BY <2>2, <2>3
    <3>2. Total(got) = 0 BY <2>2, <3>1, TotalZero
    <3>3. QED BY <2>1, <3>2, PurchasingAssumption
  <2>4. QED BY <2>2, <2>3
<1>3. \A p \in S : purchase[p].status = "NONE" /\ got[line[p]] > 0
  BY <1>1 DEF WriteReceipt, Unused
<1>4. \A i \in Items : got[i] > 0 => \E p \in S : line[p] = i
  BY <1>1 DEF WriteReceipt
<1>5. \A p, q \in S : p # q => line[p] # line[q]
  BY <1>1 DEF WriteReceipt
<1>6. \A p \in S : /\ purchase'[p].order = o
                   /\ purchase'[p].item = line[p]
                   /\ purchase'[p].units = got[line[p]]
                   /\ purchase'[p].status = "COMPLETED"
  BY <1>1 DEF WriteReceipt, NewPurchase
<1>7. \A p \in Purchases \ S : purchase'[p] = purchase[p]
  BY <1>1 DEF WriteReceipt
<1>8. \A p \in S : purchase[p].order = NoOrder BY <1>3 DEF OrderInv
<1>9. ASSUME NEW i \in Items
      PROVE  Received(o, i)' = Received(o, i) + got[i]
  <2> DEFINE q == [p \in Purchases |->
                     IF purchase[p].order = o /\ purchase[p].item = i
                     THEN purchase[p].units ELSE 0]
             r == [p \in Purchases |->
                     IF purchase'[p].order = o /\ purchase'[p].item = i
                     THEN purchase'[p].units ELSE 0]
  <2>1. q \in [Purchases -> Nat] BY DEF Inv, Shape, Purchase
  <2>2. \A p \in S : q[p] = 0 /\ r[p] = IF line[p] = i THEN got[i] ELSE 0
    <3>1. o # NoOrder BY PurchasingAssumption
    <3>2. QED BY <1>6, <1>8, <3>1
  <2>3. \A p \in Purchases \ S : r[p] = q[p] BY <1>7
  <2>4. r \in [Purchases -> Nat]
    <3>1. \A p \in Purchases : r[p] \in Nat BY <1>2, <2>1, <2>2, <2>3
    <3>2. QED BY <3>1
  <2>5. Received(o, i) = Total(q) BY DEF Received, q
  <2>6. Received(o, i)' = Total(r) BY DEF Received, r
  <2> HIDE DEF q, r
  <2>7. Total(q) \in Nat BY <2>1, PaymentsFinite, TotalType
  <2>8. CASE \E p \in S : line[p] = i
    <3>1. PICK p \in S : line[p] = i BY <2>8
    <3>2. \A x \in Purchases : x # p => r[x] = q[x]
      BY <1>5, <2>2, <2>3, <3>1
    <3>3. Total(r) + q[p] = Total(q) + r[p]
      BY <2>1, <2>4, <3>2, PaymentsFinite, TotalChange
    <3>4. q[p] = 0 /\ r[p] = got[i] BY <2>2, <3>1
    <3>5. Total(r) \in Nat BY <2>4, PaymentsFinite, TotalType
    <3>6. QED BY <1>2, <2>5, <2>6, <2>7, <3>3, <3>4, <3>5
  <2>9. CASE ~ \E p \in S : line[p] = i
    <3>1. got[i] = 0 BY <1>2, <1>4, <2>9
    <3>2. \A x \in Purchases : r[x] = q[x] BY <2>2, <2>3, <2>9
    <3>3. r = q BY <2>1, <2>4, <3>2
    <3>4. QED BY <2>5, <2>6, <2>7, <3>1, <3>3
  <2>10. QED BY <2>8, <2>9
<1>10. S # {} BY <1>2, <1>4
<1>11. QED BY <1>6, <1>7, <1>8, <1>9, <1>10

\* A receipt keeps orders and receipts in step, overlapping or not.
LEMMA WriteReceiptOrders ==
  ASSUME Inv, OrderInv, NEW u \in Users, NEW got \in Lines,
         NEW pay \in BOOLEAN, NEW S \in SUBSET Purchases,
         NEW line \in [S -> Items], WriteReceipt(u, got, pay, line)
  PROVE  OrderInv'
<1>1. user[u] \in Task /\ user[u].do = "receive" /\ user[u].order \in Orders
  BY DEF WriteReceipt, Inv, Shape, Task
<1>2. PICK o \in Orders : user[u].order = o BY <1>1
<1>3. /\ user[u] # Idle
      /\ user[u].lines \in [Items -> Nat]
      /\ user[u].before \in [Items -> Nat]
  BY <1>1 DEF Task, Idle
<1>4. /\ \A p \in S : /\ purchase[p].order = NoOrder
                      /\ purchase'[p].order = o
                      /\ purchase'[p].item = line[p]
                      /\ purchase'[p].status = "COMPLETED"
      /\ \A p \in Purchases \ S : purchase'[p] = purchase[p]
      /\ \A i \in Items : Received(o, i)' = Received(o, i) + got[i]
      /\ S # {}
  BY <1>2, ReceivedMore
<1>5. /\ \A v \in Users \ {u} : user'[v] = user[v]
      /\ user'[u] = Idle /\ overlapped' = overlapped
      /\ \A q \in Orders \ {o} : order'[q] = order[q]
      /\ WithinLines(user[u], got) /\ order[o].revision = user[u].revision
      /\ order'[o] = [order[o] EXCEPT !.status =
           IF FullyReceived(user[u], got) THEN "RECEIVED" ELSE "PARTIAL"]
  BY <1>2 DEF WriteReceipt, Inv, Shape
<1>6. order[o] \in Order BY DEF Inv, Shape
<1>7. /\ order'[o].lines = order[o].lines
      /\ order'[o].revision = order[o].revision
      /\ order'[o].status = IF FullyReceived(user[u], got) THEN "RECEIVED"
                            ELSE "PARTIAL"
  <2> DEFINE s == IF FullyReceived(user[u], got) THEN "RECEIVED" ELSE "PARTIAL"
  <2>1. order'[o] = [order[o] EXCEPT !.status = s] BY <1>5
  <2> HIDE DEF s
  <2>2. /\ order'[o].lines = order[o].lines
        /\ order'[o].revision = order[o].revision /\ order'[o].status = s
    BY <1>6, <2>1 DEF Order
  <2>3. QED BY <2>2 DEF s
<1>8. /\ user[u].lines = order[o].lines
      /\ \A i \in Items : user[u].before[i] <= Received(o, i)
  <2>1. Seen(u) BY DEF OrderInv
  <2>2. \A i : Received(user[u].order, i) = Received(o, i)
    BY <1>2 DEF Received
  <2>3. QED BY <1>1, <1>2, <1>5, <2>1, <2>2 DEF Seen
<1>9. \A i \in Items : /\ Received(o, i) \in Nat /\ got[i] \in Nat
                       /\ order[o].lines[i] \in Nat
  <2>1. got \in [Items -> Nat] BY PurchasingAssumption DEF Lines
  <2>2. QED BY <1>6, <2>1, ReceivedType DEF Inv, Order
<1>10. S \subseteq ReceiptsOf(o)' BY <1>4 DEF ReceiptsOf
<1>11. ASSUME FullyReceived(user[u], got), NEW i \in Items
       PROVE  Received(o, i)' >= order'[o].lines[i]
  <2>1. user[u].before[i] + got[i] >= order[o].lines[i]
    BY <1>8, <1>11 DEF FullyReceived
  <2>2. user[u].before[i] \in Nat BY <1>3
  <2>3. QED BY <1>4, <1>7, <1>8, <1>9, <2>1, <2>2
<1>12. Closed(o)' BY <1>4, <1>7, <1>10, <1>11 DEF Closed
<1>13. ASSUME o \notin overlapped PROVE StatusIsReceipts(o)'
  <2>1. \A i \in Items : user[u].before[i] = Received(o, i)
    <3>1. Exact(u) BY DEF OrderInv
    <3>2. \A i : Received(user[u].order, i) = Received(o, i)
      BY <1>2 DEF Received
    <3>3. QED BY <1>1, <1>2, <1>3, <1>13, <3>1, <3>2 DEF Exact
  <2>2. ASSUME NEW i \in Items
        PROVE  /\ Received(o, i)' <= order'[o].lines[i]
               /\ Received(o, i)' = user[u].before[i] + got[i]
    <3>1. Received(o, i) <= order[o].lines[i]
      BY <1>13 DEF OrderInv, StatusIsReceipts
    <3>2. got[i] > 0 => user[u].before[i] + got[i] <= order[o].lines[i]
      BY <1>5, <1>8 DEF WithinLines
    <3>3. Received(o, i)' = Received(o, i) + got[i] BY <1>4
    <3>4. order'[o].lines[i] = order[o].lines[i] BY <1>7
    <3>5. QED BY <1>9, <2>1, <3>1, <3>2, <3>3, <3>4
  <2>3. FullyReceived(user[u], got) <=>
          \A i \in Items : Received(o, i)' >= order'[o].lines[i]
    BY <1>7, <1>8, <2>2 DEF FullyReceived
  <2>4. \A i \in Items : Received(o, i)' \in Nat /\ order'[o].lines[i] \in Nat
    BY <1>4, <1>7, <1>9
  <2>5. (\A i \in Items : Received(o, i)' >= order'[o].lines[i]) <=>
          {i \in Items : Received(o, i)' < order'[o].lines[i]} = {}
    BY <2>4
  <2>6. ReceiptsOf(o)' # {} BY <1>4, <1>10
  <2>7. QED BY <1>7, <2>2, <2>3, <2>5, <2>6 DEF StatusIsReceipts
<1>14. ASSUME NEW v \in Users, user'[v] # Idle, user[v].order = o
       PROVE  Seen(v)'
  <2>1. user'[v] = user[v] /\ Seen(v) BY <1>5, <1>14 DEF OrderInv
  <2>2. \A i : /\ Received(user[v].order, i) = Received(o, i)
               /\ Received(user[v].order, i)' = Received(o, i)'
    BY <1>14, <2>1 DEF Received
  <2>3. ASSUME user[v].do = "receive", NEW i \in Items,
               user[v].before[i] <= Received(o, i)
        PROVE  user[v].before[i] <= Received(o, i)'
    <3>1. user[v].before[i] \in Nat BY <2>3 DEF Inv, Shape, Task
    <3>2. QED BY <1>4, <1>9, <2>3, <3>1
  <2>4. QED BY <1>7, <1>14, <2>1, <2>2, <2>3 DEF Seen
<1>15. \A p \in Purchases :
         purchase'[p].status = "NONE" => purchase'[p].order = NoOrder
  BY <1>4 DEF OrderInv
<1>16. order'[o].status # "NONE" BY <1>7
<1>17. \A p \in Purchases :
         \/ /\ purchase'[p].order = purchase[p].order
            /\ purchase'[p].item = purchase[p].item
            /\ purchase'[p].units = purchase[p].units
         \/ purchase[p].order \in {o, NoOrder} /\ purchase'[p].order = o
  BY <1>4
<1>18. Handled(u, o)
  BY <1>2, <1>3, <1>5, <1>12, <1>13, <1>14, <1>15, <1>16, <1>17 DEF Handled
<1>19. QED BY <1>18, HandlerStep
\* An order without receipts has received nothing.
LEMMA NothingReceived ==
  ASSUME NEW o \in Orders, ReceiptsOf(o) = {}, NEW i \in Items
  PROVE  Received(o, i) = 0
<1> DEFINE q == [p \in Purchases |->
                   IF purchase[p].order = o /\ purchase[p].item = i
                   THEN purchase[p].units ELSE 0]
<1>1. \A p \in Purchases : q[p] = 0 BY DEF ReceiptsOf
<1>2. q \in [Purchases -> Nat] BY <1>1
<1> HIDE DEF q
<1>3. Total(q) = 0 BY <1>1, <1>2, TotalZero
<1>4. Received(o, i) = Total(q) BY DEF Received, q
<1>5. QED BY <1>3, <1>4

\* Sending and cancelling: alone with the order, the caller knows that it has
\* no receipts.
LEMMA WriteStatusOrders ==
  ASSUME Inv, OrderInv, NEW u \in Users, WriteStatus(u)
  PROVE  OrderInv'
<1>1. user[u] \in Task /\ user[u].do \in {"send", "cancel"}
  BY DEF WriteStatus, Inv, Shape
<1>2. PICK o \in Orders : user[u].order = o BY <1>1 DEF Task
<1>3. user[u] # Idle BY <1>1 DEF Idle
<1>4. order[o] \in Order BY DEF Inv, Shape
<1>5. /\ \A v \in Users \ {u} : user'[v] = user[v]
      /\ user'[u] = Idle /\ overlapped' = overlapped /\ purchase' = purchase
      /\ \A q \in Orders \ {o} : order'[q] = order[q]
      /\ order'[o] = [order[o] EXCEPT !.status =
           IF user[u].do = "send" THEN "SENT" ELSE "CANCELLED"]
  BY <1>2 DEF WriteStatus, Inv, Shape
<1>6. /\ order'[o].lines = order[o].lines
      /\ order'[o].revision = order[o].revision
      /\ order'[o].status \in {"SENT", "CANCELLED"}
  BY <1>4, <1>5 DEF Order
<1>7. /\ \A i : Received(o, i)' = Received(o, i)
      /\ ReceiptsOf(o)' = ReceiptsOf(o)
  BY <1>5, ReceivedSame
<1>8. Closed(o)' BY <1>6 DEF Closed
<1>9. ASSUME o \notin overlapped PROVE StatusIsReceipts(o)'
  <2>1. Exact(u) /\ StatusIsReceipts(o) BY <1>9 DEF OrderInv
  <2>2. order[o].status \in {"DRAFT", "SENT"}
    BY <1>1, <1>2, <1>3, <1>9, <2>1 DEF Exact, Allowed
  <2>3. ReceiptsOf(o) = {} BY <2>1, <2>2 DEF StatusIsReceipts
  <2>4. \A i \in Items : Received(o, i) <= order[o].lines[i]
    BY <2>1 DEF StatusIsReceipts
  <2>5. QED BY <1>6, <1>7, <2>3, <2>4 DEF StatusIsReceipts
<1>10. ASSUME NEW v \in Users, user'[v] # Idle, user[v].order = o
       PROVE  Seen(v)'
  <2>1. user'[v] = user[v] /\ Seen(v) BY <1>5, <1>10 DEF OrderInv
  <2>2. \A i : /\ Received(user[v].order, i) = Received(o, i)
               /\ Received(user[v].order, i)' = Received(o, i)'
    BY <1>10, <2>1 DEF Received
  <2>3. QED BY <1>6, <1>7, <1>10, <2>1, <2>2 DEF Seen
<1>11. \A p \in Purchases :
         purchase'[p].status = "NONE" => purchase'[p].order = NoOrder
  BY <1>5 DEF OrderInv
<1>12. Handled(u, o)
  BY <1>2, <1>3, <1>5, <1>6, <1>8, <1>9, <1>10, <1>11 DEF Handled
<1>13. QED BY <1>12, HandlerStep

\* New lines: whoever read the old ones fails, and an order that has receipts
\* has lost the lines they were for.
LEMMA WriteUpdateOrders ==
  ASSUME Inv, OrderInv, NEW u \in Users, NEW lines \in Lines,
         WriteUpdate(u, lines)
  PROVE  OrderInv'
<1>1. user[u] \in Task /\ user[u].do = "update"
  BY DEF WriteUpdate, Inv, Shape
<1>2. PICK o \in Orders : user[u].order = o BY <1>1 DEF Task
<1>3. user[u] # Idle BY <1>1 DEF Idle
<1>4. order[o] \in Order BY DEF Inv, Shape
<1>5. /\ \A v \in Users \ {u} : user'[v] = user[v]
      /\ user'[u] = Idle /\ overlapped' = overlapped
      /\ \A q \in Orders \ {o} : order'[q] = order[q]
  BY <1>2 DEF WriteUpdate, Inv, Shape
<1>6. /\ order'[o].lines = lines
      /\ order'[o].revision = order[o].revision + 1
      /\ order'[o].status = order[o].status
  <2> DEFINE next == order[o].revision + 1
  <2>1. order' = [order EXCEPT ![o].lines = lines, ![o].revision = next]
    BY <1>2 DEF WriteUpdate
  <2> HIDE DEF next
  <2>2. /\ order'[o].lines = lines /\ order'[o].revision = next
        /\ order'[o].status = order[o].status
    BY <1>4, <2>1 DEF Order, Inv, Shape
  <2>3. QED BY <2>2 DEF next
<1>7. \A p \in Purchases :
        /\ purchase'[p].order = purchase[p].order
        /\ purchase'[p].units = purchase[p].units
        /\ purchase'[p].status = purchase[p].status
        /\ purchase'[p].item =
             IF purchase[p].order = o THEN NoItem ELSE purchase[p].item
  BY <1>2 DEF WriteUpdate, Inv, Shape, Purchase
<1>8. ReceiptsOf(o)' = ReceiptsOf(o) BY <1>7 DEF ReceiptsOf
<1>9. Closed(o)'
  <2>1. Closed(o) BY DEF OrderInv
  <2>2. \A p \in ReceiptsOf(o) : purchase'[p].item = NoItem
    BY <1>7 DEF ReceiptsOf
  <2>3. QED BY <1>6, <1>8, <2>1, <2>2 DEF Closed
<1>10. ASSUME o \notin overlapped PROVE StatusIsReceipts(o)'
  <2>1. Exact(u) /\ StatusIsReceipts(o) BY <1>10 DEF OrderInv
  <2>2. order[o].status = "DRAFT"
    BY <1>1, <1>2, <1>3, <1>10, <2>1 DEF Exact, Allowed
  <2>3. ReceiptsOf(o) = {} BY <2>1, <2>2 DEF StatusIsReceipts
  <2>4. \A p \in Purchases : purchase[p].order # o BY <2>3 DEF ReceiptsOf
  <2>5. \A i : Received(o, i)' = Received(o, i)
    BY <1>7, <2>4, ReceivedSame
  <2>6. \A i \in Items : Received(o, i)' = 0
    BY <2>3, <2>5, NothingReceived
  <2>7. \A i \in Items : lines[i] \in Nat
    BY PurchasingAssumption DEF Lines
  <2>8. \A i \in Items : Received(o, i)' <= order'[o].lines[i]
    BY <1>6, <2>6, <2>7
  <2>9. QED BY <1>6, <1>8, <2>2, <2>3, <2>8 DEF StatusIsReceipts
<1>11. ASSUME NEW v \in Users, user'[v] # Idle, user[v].order = o
       PROVE  Seen(v)'
  <2>1. user'[v] = user[v] /\ Seen(v) BY <1>5, <1>11 DEF OrderInv
  <2>2. user[v].do = "receive" =>
          user[v].revision \in Nat /\ user[v].revision <= order[o].revision
    BY <1>11, <2>1 DEF Seen, Inv, Shape, Task
  <2>3. order[o].revision \in Nat BY <1>4 DEF Order
  <2>4. user'[v].do = "receive" =>
          user'[v].revision < order'[user'[v].order].revision
    BY <1>6, <1>11, <2>1, <2>2, <2>3
  <2>5. user'[v].do = "receive" =>
          user'[v].revision <= order'[user'[v].order].revision
            /\ user'[v].revision # order'[user'[v].order].revision
    BY <1>6, <1>11, <2>1, <2>2, <2>3
  <2>6. QED BY <2>5 DEF Seen
<1>12. \A p \in Purchases :
         purchase'[p].status = "NONE" => purchase'[p].order = NoOrder
  BY <1>7 DEF OrderInv
<1>13. \A p \in Purchases :
         \/ /\ purchase'[p].order = purchase[p].order
            /\ purchase'[p].item = purchase[p].item
            /\ purchase'[p].units = purchase[p].units
         \/ purchase[p].order \in {o, NoOrder} /\ purchase'[p].order = o
  BY <1>7
<1>14. order'[o].status # "NONE"
  BY <1>2, <1>3, <1>6 DEF OrderInv, Fresh
<1>15. Handled(u, o)
  BY <1>2, <1>3, <1>5, <1>9, <1>10, <1>11, <1>12, <1>13, <1>14 DEF Handled
<1>16. QED BY <1>15, HandlerStep

\* A call that fails, or starts its transaction again, changes no order.
LEMMA QuietOrders ==
  ASSUME Inv, OrderInv, NEW u \in Users, GiveUp(u) \/ RetryReceipt(u)
  PROVE  OrderInv'
<1>1. user[u] \in Task /\ user[u] # Idle
  BY DEF GiveUp, RetryReceipt, Inv, Shape, Idle
<1>2. PICK o \in Orders : user[u].order = o BY <1>1 DEF Task, Idle
<1>3. /\ \A v \in Users \ {u} : user'[v] = user[v]
      /\ overlapped' = overlapped /\ purchase' = purchase /\ order' = order
  BY DEF GiveUp, RetryReceipt, Inv, Shape
<1>4. /\ \A i : Received(o, i)' = Received(o, i)
      /\ ReceiptsOf(o)' = ReceiptsOf(o)
      /\ StatusIsReceipts(o) => StatusIsReceipts(o)'
      /\ Closed(o) => Closed(o)'
  BY <1>3, ReceivedSame, OrderSame
<1>5. \/ user'[u] = Idle
      \/ /\ user[u].do = "receive" /\ user'[u].do = "receive"
         /\ user'[u].order = o
         /\ user'[u].lines = user[u].lines
         /\ user'[u].revision = user[u].revision
         /\ \A i \in Items : user'[u].before[i] = Received(o, i)
  <2>1. CASE GiveUp(u) BY <2>1 DEF GiveUp, Inv, Shape
  <2>2. CASE RetryReceipt(u)
    <3> DEFINE now == [i \in Items |-> Received(user[u].order, i)]
    <3>1. user[u].do = "receive" /\ user' = [user EXCEPT ![u].before = now]
      BY <2>2 DEF RetryReceipt
    <3>2. \A i \in Items : now[i] = Received(o, i) BY <1>2 DEF Received
    <3> HIDE DEF now
    <3>3. user'[u] = [user[u] EXCEPT !.before = now]
      BY <3>1 DEF Inv, Shape
    <3>4. /\ user'[u].do = user[u].do /\ user'[u].order = user[u].order
          /\ user'[u].lines = user[u].lines
          /\ user'[u].revision = user[u].revision
          /\ user'[u].before = now
      BY <1>1, <3>1, <3>3 DEF Task
    <3>5. QED BY <1>2, <3>1, <3>2, <3>4
  <2>3. QED BY <2>1, <2>2
<1>6. ASSUME user'[u] # Idle PROVE Seen(u)' /\ Exact(u)'
  <2>1. Seen(u) /\ Exact(u) BY DEF OrderInv
  <2>2. \A i : Received(user[u].order, i)' = Received(o, i)'
    BY <1>5, <1>6 DEF Received
  <2>3. \A i \in Items : /\ user'[u].before[i] = Received(o, i)'
                         /\ Received(o, i)' \in Nat
    BY <1>4, <1>5, <1>6, ReceivedType DEF Inv
  <2>4. Seen(u)'
    BY <1>2, <1>3, <1>5, <1>6, <2>1, <2>2, <2>3 DEF Seen
  <2>5. Exact(u)'
    BY <1>1, <1>2, <1>3, <1>5, <1>6, <2>1, <2>2, <2>3 DEF Exact, Allowed
  <2>6. QED BY <2>4, <2>5
<1>7. ASSUME NEW v \in Users, user'[v] # Idle, user[v].order = o
      PROVE  Seen(v)'
  <2>1. CASE v = u BY <1>6, <1>7, <2>1
  <2>2. CASE v # u
    <3>1. user'[v] = user[v] /\ Seen(v) BY <1>3, <2>2 DEF OrderInv
    <3>2. \A i : /\ Received(user[v].order, i) = Received(o, i)
                 /\ Received(user[v].order, i)' = Received(o, i)'
      BY <1>7, <3>1 DEF Received
    <3>3. QED BY <1>3, <1>4, <1>7, <3>1, <3>2 DEF Seen
  <2>3. QED BY <2>1, <2>2
<1>8. \A p \in Purchases :
        purchase'[p].status = "NONE" => purchase'[p].order = NoOrder
  BY <1>3 DEF OrderInv
<1>9. order'[o].status # "NONE" BY <1>1, <1>2, <1>3 DEF OrderInv, Fresh
<1>10. Closed(o)' /\ (o \notin overlapped => StatusIsReceipts(o)')
  BY <1>4 DEF OrderInv
<1>11. Handled(u, o)
  BY <1>1, <1>2, <1>3, <1>5, <1>6, <1>7, <1>8, <1>9, <1>10 DEF Handled
<1>12. QED BY <1>11, HandlerStep

\* A new reader knows the order as it is; when somebody else is at it as well,
\* the order counts as overlapped from here on.
LEMMA ReadOrders ==
  ASSUME Inv, OrderInv, NEW u \in Users, NEW t \in Requests, Read(u, t)
  PROVE  OrderInv'
<1>1. t \in Task /\ t.order \in Orders BY RequestType DEF Inv
<1>2. PICK o \in Orders : t.order = o BY <1>1
<1>3. /\ user[u] = Idle /\ Allowed(t) /\ user'[u] = t
      /\ \A v \in Users \ {u} : user'[v] = user[v]
      /\ overlapped \subseteq overlapped'
      /\ overlapped' \subseteq overlapped \cup {o}
      /\ purchase' = purchase /\ order' = order
      /\ \A v \in Users :
           user[v] # Idle /\ user[v].order = o => o \in overlapped'
  BY <1>2 DEF Read, Inv, Shape
<1>4. ASSUME NEW q \in Orders
      PROVE  /\ \A i : Received(q, i)' = Received(q, i)
             /\ ReceiptsOf(q)' = ReceiptsOf(q)
             /\ StatusIsReceipts(q) => StatusIsReceipts(q)'
             /\ Closed(q) => Closed(q)'
  BY <1>3, ReceivedSame, OrderSame
<1>5. Alone'
  <2> SUFFICES ASSUME NEW v \in Users, NEW w \in Users, v # w,
                      user'[v] # Idle, user'[w] # Idle,
                      user'[v].order = user'[w].order
               PROVE  user'[v].order \in overlapped'
    BY DEF Alone
  <2>1. CASE v = u BY <1>2, <1>3, <2>1
  <2>2. CASE w = u BY <1>2, <1>3, <2>2
  <2>3. CASE v # u /\ w # u BY <1>3, <2>3 DEF OrderInv, Alone
  <2>4. QED BY <2>1, <2>2, <2>3
<1>6. ASSUME NEW v \in Users PROVE Seen(v)' /\ Exact(v)'
  <2>1. CASE v # u /\ user[v] = Idle BY <1>3, <2>1 DEF Seen, Exact, Idle
  <2>2. CASE v # u /\ user[v] # Idle
    <3>1. PICK q \in Orders : user[v].order = q
      BY <2>2 DEF Inv, Shape, Task, Idle
    <3>2. QED BY <1>3, <1>4, <2>2, <3>1, SeenSame DEF OrderInv
  <2>3. CASE v = u
    <3>1. \A i : /\ Received(t.order, i) = Received(o, i)
                 /\ Received(t.order, i)' = Received(o, i)'
      BY <1>2, <1>3 DEF Received
    <3>2. Allowed(t)' BY <1>3 DEF Allowed
    <3>3. t.do = "receive" =>
            /\ t.lines = order[o].lines /\ t.revision = order[o].revision
            /\ \A i \in Items : t.before[i] = Received(o, i)
      <4>1. CASE t.do # "receive" BY <4>1
      <4>2. CASE t.do = "receive"
        <5>1. PICK q \in Orders :
                t = [do |-> "receive", order |-> q,
                     lines |-> order[q].lines,
                     revision |-> order[q].revision,
                     before |-> [i \in Items |-> Received(q, i)]]
          BY <4>2 DEF Requests
        <5>2. q = o BY <1>2, <5>1
        <5>3. QED BY <5>1, <5>2
      <4>3. QED BY <4>1, <4>2
    <3>4. \A i \in Items : Received(o, i) \in Nat BY ReceivedType DEF Inv
    <3>5. order[o].revision \in Nat BY DEF Inv, Shape, Order
    <3>6. Seen(u)' BY <1>2, <1>3, <1>4, <3>1, <3>3, <3>4, <3>5 DEF Seen
    <3>7. Exact(u)' BY <1>2, <1>3, <1>4, <3>1, <3>2, <3>3 DEF Exact
    <3>8. QED BY <2>3, <3>6, <3>7
  <2>4. QED BY <2>1, <2>2, <2>3
<1>7. ASSUME NEW q \in Orders
      PROVE  Fresh(q)' /\ Closed(q)'
             /\ (q \notin overlapped' => StatusIsReceipts(q)')
  <2>1. order[o].status # "NONE" BY <1>2, <1>3 DEF Allowed
  <2>2. Fresh(q)'
    <3>1. ASSUME order[q].status = "NONE", NEW v \in Users, user'[v] # Idle
          PROVE  user'[v].order # q
      <4>1. CASE v = u BY <1>2, <1>3, <2>1, <3>1, <4>1
      <4>2. CASE v # u BY <1>3, <3>1, <4>2 DEF OrderInv, Fresh
      <4>3. QED BY <4>1, <4>2
    <3>2. QED BY <1>3, <1>4, <3>1 DEF OrderInv, Fresh
  <2>3. QED BY <1>3, <1>4, <2>2 DEF OrderInv
<1>8. \A p \in Purchases :
        purchase'[p].status = "NONE" => purchase'[p].order = NoOrder
  BY <1>3 DEF OrderInv
<1>9. QED BY <1>5, <1>6, <1>7, <1>8 DEF OrderInv

\* A new order has nothing received, and nobody has read it yet.
LEMMA CreateDraftOrders ==
  ASSUME Inv, OrderInv, NEW o \in Orders, NEW lines \in Lines,
         CreateDraftPO(o, lines)
  PROVE  OrderInv'
<1>1. order[o] \in Order BY DEF Inv, Shape
<1>2. /\ order[o].status = "NONE"
      /\ \A q \in Orders \ {o} : order'[q] = order[q]
      /\ order'[o].status = "DRAFT" /\ order'[o].lines = lines
      /\ purchase' = purchase /\ user' = user /\ overlapped' = overlapped
  BY <1>1 DEF CreateDraftPO, Inv, Shape, Order
<1>3. /\ ReceiptsOf(o) = {}
      /\ \A u \in Users : user[u] # Idle => user[u].order # o
  BY <1>2 DEF OrderInv, Fresh
<1>4. \A q \in Orders : /\ \A i : Received(q, i)' = Received(q, i)
                        /\ ReceiptsOf(q)' = ReceiptsOf(q)
  BY <1>2, ReceivedSame
<1>5. \A q \in Orders \ {o} : /\ StatusIsReceipts(q) => StatusIsReceipts(q)'
                              /\ Closed(q) => Closed(q)'
  BY <1>2, <1>4, OrderSame
<1>6. Closed(o)' BY <1>2 DEF Closed
<1>7. StatusIsReceipts(o)'
  <2>1. \A i \in Items : Received(o, i)' = 0
    BY <1>3, <1>4, NothingReceived
  <2>2. \A i \in Items : lines[i] \in Nat
    BY PurchasingAssumption DEF Lines
  <2>3. \A i \in Items : Received(o, i)' <= order'[o].lines[i]
    BY <1>2, <2>1, <2>2
  <2>4. QED BY <1>2, <1>3, <1>4, <2>3 DEF StatusIsReceipts
<1>8. ASSUME NEW u \in Users PROVE Seen(u)' /\ Exact(u)'
  <2>1. CASE user[u] = Idle BY <1>2, <2>1 DEF Seen, Exact, Idle
  <2>2. CASE user[u] # Idle
    <3>1. PICK q \in Orders : user[u].order = q
      BY <2>2 DEF Inv, Shape, Task, Idle
    <3>2. q # o BY <1>3, <2>2, <3>1
    <3>3. QED BY <1>2, <1>4, <2>2, <3>1, <3>2, SeenSame DEF OrderInv
  <2>3. QED BY <2>1, <2>2
<1>9. Alone' BY <1>2 DEF OrderInv, Alone
<1>10. \A q \in Orders : Fresh(q)' BY <1>2, <1>4 DEF OrderInv, Fresh
<1>11. \A p \in Purchases :
         purchase'[p].status = "NONE" => purchase'[p].order = NoOrder
  BY <1>2 DEF OrderInv
<1>12. \A q \in Orders : Closed(q)' BY <1>5, <1>6 DEF OrderInv
<1>13. \A q \in Orders \ overlapped' : StatusIsReceipts(q)'
  BY <1>2, <1>5, <1>7 DEF OrderInv
<1>14. QED BY <1>8, <1>9, <1>10, <1>11, <1>12, <1>13 DEF OrderInv

\* Buying and paying touch no order and no receipt of one.
OffOrders ==
  /\ UNCHANGED <<order, user, overlapped>>
  /\ \A p \in Purchases :
       /\ purchase'[p].order = purchase[p].order
       /\ purchase'[p].status = "NONE" => purchase[p].status = "NONE"
       /\ \/ /\ purchase'[p].item = purchase[p].item
             /\ purchase'[p].units = purchase[p].units
          \/ purchase[p].order = NoOrder
LEMMA PayingFrame ==
  ASSUME Inv, OrderInv, Paying
  PROVE  OffOrders
<1>1. ASSUME NEW p \in Purchases,
             NEW kind \in {"ROASTED_BEAN", "OTHER"},
             NEW total \in 1 .. MaxTotal, NEW paid \in 0 .. total,
             Buy(p, kind, total, paid)
      PROVE  OffOrders
  <2>1. purchase[p].status = "NONE" /\ purchase[p].order = NoOrder
    BY <1>1 DEF Buy, OrderInv
  <2>2. /\ purchase'[p].order = NoOrder
        /\ purchase'[p].status = "COMPLETED"
        /\ \A q \in Purchases : q # p => purchase'[q] = purchase[q]
    BY <1>1 DEF Buy, NewPurchase, Inv, Shape
  <2>3. UNCHANGED <<order, user, overlapped>> BY <1>1 DEF Buy
  <2>4. ASSUME NEW q \in Purchases
        PROVE  /\ purchase'[q].order = purchase[q].order
               /\ purchase'[q].status = "NONE" => purchase[q].status = "NONE"
               /\ \/ /\ purchase'[q].item = purchase[q].item
                     /\ purchase'[q].units = purchase[q].units
                  \/ purchase[q].order = NoOrder
    BY <2>1, <2>2
  <2>5. QED BY <2>3, <2>4 DEF OffOrders
<1>2. ASSUME NEW k \in Keys, NEW p \in Purchases,
             NEW amount \in 1 .. MaxTotal,
             RecordSupplierPayment(k, p, amount)
      PROVE  OffOrders
  <2>1. ASSUME NEW q \in Purchases
        PROVE  /\ purchase'[q].order = purchase[q].order
               /\ purchase'[q].status = purchase[q].status
               /\ purchase'[q].item = purchase[q].item
               /\ purchase'[q].units = purchase[q].units
    BY <1>2 DEF RecordSupplierPayment, Inv, Shape, Purchase
  <2>2. UNCHANGED <<order, user, overlapped>>
    BY <1>2 DEF RecordSupplierPayment
  <2>3. QED BY <2>1, <2>2 DEF OffOrders
<1>3. ASSUME NEW k \in Payments, VoidSupplierPayment(k) PROVE OffOrders
  <2>1. ASSUME NEW q \in Purchases
        PROVE  /\ purchase'[q].order = purchase[q].order
               /\ purchase'[q].status = purchase[q].status
               /\ purchase'[q].item = purchase[q].item
               /\ purchase'[q].units = purchase[q].units
    BY <1>3 DEF VoidSupplierPayment, Inv, Shape, Purchase
  <2>2. UNCHANGED <<order, user, overlapped>>
    BY <1>3 DEF VoidSupplierPayment
  <2>3. QED BY <2>1, <2>2 DEF OffOrders
<1>4. ASSUME NEW p \in Purchases, VoidPurchase(p) PROVE OffOrders
  <2>1. ASSUME NEW q \in Purchases
        PROVE  /\ purchase'[q].order = purchase[q].order
               /\ purchase'[q].status = "NONE" => purchase[q].status = "NONE"
               /\ purchase'[q].item = purchase[q].item
               /\ purchase'[q].units = purchase[q].units
    BY <1>4 DEF VoidPurchase, Inv, Shape, Purchase
  <2>2. UNCHANGED <<order, user, overlapped>> BY <1>4 DEF VoidPurchase
  <2>3. QED BY <2>1, <2>2 DEF OffOrders
<1>5. ASSUME NEW p \in Purchases, Draw(p) PROVE OffOrders
  <2>1. UNCHANGED <<order, purchase, user, overlapped>> BY <1>5 DEF Draw
  <2>2. QED BY <2>1 DEF OffOrders
<1>6. QED BY <1>1, <1>2, <1>3, <1>4, <1>5 DEF Paying

\* So everything that holds of orders goes on to hold.
LEMMA PayingStep ==
  ASSUME Inv, OrderInv, Paying
  PROVE  OrderInv'
BY PayingFrame, PayingOrders DEF OffOrders

\* At first nothing is ordered, received or read.
LEMMA InitOrders == Init => OrderInv
<1> SUFFICES ASSUME Init PROVE OrderInv OBVIOUS
<1>1. \A o \in Orders : order[o].status = "NONE" /\ order[o].lines = NoUnits
  BY DEF Init
<1>2. \A p \in Purchases : purchase[p].order = NoOrder
  BY DEF Init, NoPurchase
<1>3. \A u \in Users : user[u] = Idle BY DEF Init
<1>4. \A o \in Orders : ReceiptsOf(o) = {}
  BY <1>2, PurchasingAssumption DEF ReceiptsOf
<1>5. ASSUME NEW o \in Orders PROVE StatusIsReceipts(o)
  <2>1. \A i \in Items : Received(o, i) = 0 /\ order[o].lines[i] = 0
    BY <1>1, <1>4, NothingReceived DEF NoUnits
  <2>2. \A i \in Items : Received(o, i) <= order[o].lines[i] BY <2>1
  <2>3. QED BY <1>1, <1>4, <2>2 DEF StatusIsReceipts
<1>6. \A u \in Users : Seen(u) /\ Exact(u)
  BY <1>3 DEF Seen, Exact, Idle
<1>7. Alone BY <1>3 DEF Alone
<1>8. \A o \in Orders : Fresh(o) /\ Closed(o)
  BY <1>1, <1>3, <1>4 DEF Fresh, Closed
<1>9. QED BY <1>2, <1>5, <1>6, <1>7, <1>8 DEF OrderInv

\* No step breaks it, whatever calls overlap.
LEMMA NextOrders == Inv /\ OrderInv /\ [Next]_vars => OrderInv'
<1> SUFFICES ASSUME Inv, OrderInv, [Next]_vars PROVE OrderInv' OBVIOUS
<1>1. CASE UNCHANGED vars BY <1>1, PayingOrders DEF vars
<1>2. CASE Paying BY <1>2, PayingStep
<1>3. CASE Ordering
  BY <1>3, CreateDraftOrders, WriteStatusOrders, QuietOrders,
     WriteUpdateOrders, ReadOrders, WriteReceiptOrders
     DEF Ordering, Unused
<1>4. QED BY <1>1, <1>2, <1>3 DEF Next

\* Both invariants hold together.
THEOREM OrderInvariance == Spec => [](Inv /\ OrderInv)
<1>1. Init => Inv /\ OrderInv BY InitInv, InitOrders
<1>2. (Inv /\ OrderInv) /\ [Next]_vars => (Inv /\ OrderInv)'
  BY NextInv, NextOrders
<1>3. QED BY <1>1, <1>2, PTL DEF Spec

\* As long as no two calls about an order overlap, its status says exactly
\* what its receipts say, and nothing is received beyond its lines.
THEOREM OrdersMatchReceipts == Spec => []OrderIsReceipts
<1>1. Inv /\ OrderInv => OrderIsReceipts
  BY DEF OrderInv, OrderIsReceipts, StatusIsReceipts
<1>2. QED BY <1>1, OrderInvariance, PTL

\* However calls overlap, an order that is closed as received has received
\* every line, unless its lines were replaced under a receipt.
THEOREM ClosedAlwaysReceived == Spec => []ClosedIsReceived
<1>1. Inv /\ OrderInv => ClosedIsReceived
  BY DEF OrderInv, ClosedIsReceived, Closed
<1>2. QED BY <1>1, OrderInvariance, PTL

-----------------------------------------------------------------------------
(* How much can be received too much. *)

\* What caller u may still receive for line i of order o, by what it has read.
Open(u, o, i) ==
  IF /\ user[u].do = "receive" /\ user[u].order = o
     /\ user[u].revision = order[o].revision
     /\ user[u].before[i] < order[o].lines[i]
  THEN order[o].lines[i] - user[u].before[i] ELSE 0
Opens(o, i) == [u \in Users |-> Open(u, o, i)]

\* What is received and what may still be, by all callers, is no more than
\* every line once for each caller.
Room(o, i) ==
  Received(o, i) + Total(Opens(o, i))
    <= Cardinality(Users) * order[o].lines[i]
RoomInv == \A o \in Orders, i \in Items : Room(o, i)

\* Open is never negative, nor above the line.
LEMMA OpenType ==
  ASSUME Shape, NEW o \in Orders, NEW i \in Items
  PROVE  /\ order[o].lines[i] \in Nat
         /\ Opens(o, i) \in [Users -> Nat]
         /\ \A u \in Users : /\ Open(u, o, i) \in Nat
                             /\ Open(u, o, i) <= order[o].lines[i]
<1>1. order[o].lines[i] \in Nat BY DEF Shape, Order
<1>2. ASSUME NEW u \in Users
      PROVE  Open(u, o, i) \in Nat /\ Open(u, o, i) <= order[o].lines[i]
  <2>1. CASE user[u].do = "receive"
    <3>1. user[u] \in Task BY DEF Shape
    <3>2. user[u].before[i] \in Nat BY <2>1, <3>1 DEF Task
    <3>3. QED BY <1>1, <3>2 DEF Open
  <2>2. CASE user[u].do # "receive" BY <1>1, <2>2 DEF Open
  <2>3. QED BY <2>1, <2>2
<1>3. QED BY <1>1, <1>2 DEF Opens

\* Every caller once.
LEMMA TotalConstant ==
  ASSUME NEW D, IsFiniteSet(D), NEW c \in Nat
  PROVE  Total([x \in D |-> c]) = Cardinality(D) * c
<1> DEFINE q == [x \in D |-> c]
<1>1. Units(q) = D \X (1 .. c)
  <2>1. q \in [D -> Nat] OBVIOUS
  <2>2. ASSUME NEW z PROVE z \in Units(q) <=> z \in D \X (1 .. c)
    <3>1. z \in Units(q) <=>
            \E x \in D, n \in Nat : n \in 1 .. q[x] /\ z = <<x, n>>
      <4> HIDE DEF q
      <4>1. QED BY <2>1, InUnits
    <3>2. \A x \in D : q[x] = c OBVIOUS
    <3>3. \A n \in 1 .. c : n \in Nat OBVIOUS
    <3>4. QED BY <3>1, <3>2, <3>3
  <2>3. QED BY <2>2
<1>2. IsFiniteSet(1 .. c) /\ Cardinality(1 .. c) = c
  <2>1. 1 \in Int /\ c \in Int OBVIOUS
  <2>2. IsFiniteSet(1 .. c)
          /\ Cardinality(1 .. c) = IF 1 > c THEN 0 ELSE (c - 1) + 1
    BY <2>1, FS_Interval
  <2>3. QED BY <2>2
<1>3. Cardinality(D \X (1 .. c)) = Cardinality(D) * Cardinality(1 .. c)
  BY <1>2, FS_Product
<1>4. QED BY <1>1, <1>2, <1>3 DEF Total

\* Steps that bring nothing and open nothing.
LEMMA RoomSame ==
  ASSUME Shape, Shape', NEW o \in Orders, NEW i \in Items, Room(o, i),
         Received(o, i)' = Received(o, i),
         order'[o].lines = order[o].lines,
         \A u \in Users : Open(u, o, i)' <= Open(u, o, i)
  PROVE  Room(o, i)'
<1> DEFINE p == Opens(o, i)'
           q == Opens(o, i)
           most == Cardinality(Users) * order[o].lines[i]
<1>1. q \in [Users -> Nat] BY OpenType
<1>2. p \in [Users -> Nat]
  <2>1. order'[o].lines[i] \in Nat BY DEF Shape, Order
  <2>2. ASSUME NEW u \in Users PROVE Open(u, o, i)' \in Nat
    <3>1. CASE user'[u].do = "receive"
      <4>1. user'[u] \in Task BY DEF Shape
      <4>2. user'[u].before[i] \in Nat BY <3>1, <4>1 DEF Task
      <4>3. QED BY <2>1, <4>2 DEF Open
    <3>2. CASE user'[u].do # "receive" BY <3>2 DEF Open
    <3>3. QED BY <3>1, <3>2
  <2>3. QED BY <2>2 DEF Opens
<1>3. \A u \in Users : p[u] <= q[u] BY DEF Opens
<1>4. IsFiniteSet(Users) BY PurchasingAssumption
<1>5. Received(o, i) + Total(q) <= most BY DEF Room
<1>6. Room(o, i)' <=> Received(o, i) + Total(p) <= most BY DEF Room
<1>7. Received(o, i) \in Nat BY ReceivedType
<1>8. most \in Nat
  <2>1. Cardinality(Users) \in Nat BY <1>4, FS_CardinalityType
  <2>2. order[o].lines[i] \in Nat BY OpenType
  <2>3. QED BY <2>1, <2>2
<1> HIDE DEF p, q, most
<1>9. Total(p) <= Total(q) BY <1>1, <1>2, <1>3, <1>4, TotalMonotone
<1>10. Total(p) \in Nat /\ Total(q) \in Nat
  BY <1>1, <1>2, <1>4, TotalType
<1>11. QED BY <1>5, <1>6, <1>7, <1>8, <1>9, <1>10

\* Nobody may receive anything any more, and nothing was received.
LEMMA RoomEmpty ==
  ASSUME Shape', NEW o \in Orders, NEW i \in Items, Received(o, i)' = 0,
         \A u \in Users : Open(u, o, i)' = 0
  PROVE  Room(o, i)'
<1> DEFINE p == Opens(o, i)'
           most == Cardinality(Users) * order'[o].lines[i]
<1>1. p \in [Users -> Nat] /\ \A u \in Users : p[u] = 0 BY DEF Opens
<1>2. most \in Nat
  <2>1. Cardinality(Users) \in Nat
    BY PurchasingAssumption, FS_CardinalityType
  <2>2. order'[o].lines[i] \in Nat BY DEF Shape, Order
  <2>3. QED BY <2>1, <2>2
<1>3. Room(o, i)' <=> Received(o, i)' + Total(p) <= most BY DEF Room
<1> HIDE DEF p, most
<1>4. Total(p) = 0 BY <1>1, TotalZero
<1>5. QED BY <1>2, <1>3, <1>4

\* A caller looks: what it may receive then is at most what is left, and the
\* others may each fill the line once.
LEMMA RoomLooked ==
  ASSUME Shape, Shape', NEW o \in Orders, NEW i \in Items, Room(o, i),
         NEW u \in Users,
         Received(o, i)' = Received(o, i), order' = order,
         \A v \in Users \ {u} : user'[v] = user[v],
         Open(u, o, i)' =
           IF Received(o, i) < order[o].lines[i]
           THEN order[o].lines[i] - Received(o, i) ELSE 0
  PROVE  Room(o, i)'
<1> DEFINE line == order[o].lines[i]
           got == Received(o, i)
           p == Opens(o, i)'
           each == [v \in Users |-> line]
           cap == [v \in Users |-> IF v = u THEN line - got ELSE line]
           most == Cardinality(Users) * line
<1>1. line \in Nat /\ got \in Nat BY OpenType, ReceivedType
<1>2. IsFiniteSet(Users) BY PurchasingAssumption
<1>3. \A v \in Users \ {u} : Open(v, o, i)' = Open(v, o, i) BY DEF Open
<1>4. CASE got >= line
  <2>1. Open(u, o, i)' = 0 BY <1>1, <1>4
  <2>2. \A v \in Users : Open(v, o, i) \in Nat BY OpenType
  <2>3. \A v \in Users : Open(v, o, i)' <= Open(v, o, i)
    BY <1>3, <2>1, <2>2
  <2>4. QED BY <2>3, RoomSame
<1>5. CASE got < line
  <2>1. \A v \in Users : Open(v, o, i) \in Nat /\ Open(v, o, i) <= line
    BY OpenType
  <2>2. Open(u, o, i)' = line - got BY <1>5
  <2>3. p \in [Users -> Nat] /\ p[u] = line - got
        /\ \A v \in Users : v # u => p[v] <= line
    <3>1. line - got \in Nat BY <1>1, <1>5
    <3>2. \A v \in Users : /\ Open(v, o, i)' \in Nat
                           /\ v # u => Open(v, o, i)' <= line
      BY <1>3, <2>1, <2>2, <3>1
    <3>3. QED BY <2>2, <3>2 DEF Opens
  <2>4. /\ each \in [Users -> Nat] /\ each[u] = line
        /\ Total(each) = Cardinality(Users) * line
    BY <1>1, <1>2, TotalConstant
  <2>5. /\ cap \in [Users -> Nat] /\ cap[u] = line - got
        /\ \A v \in Users : v # u => cap[v] = each[v] /\ cap[v] = line
    BY <1>1, <1>5
  <2>6. Room(o, i)' <=> got + Total(p) <= most BY DEF Room
  <2>7. Total(each) = most BY <2>4
  <2> HIDE DEF p, each, cap, most, line, got
  <2>8. \A v \in Users : p[v] <= cap[v]
    <3>1. ASSUME NEW v \in Users PROVE p[v] <= cap[v]
      <4>1. p[v] \in Nat /\ cap[v] \in Nat BY <2>3, <2>5
      <4>2. CASE v = u BY <2>3, <2>5, <4>1, <4>2
      <4>3. CASE v # u BY <2>3, <2>5, <4>3
      <4>4. QED BY <4>2, <4>3
    <3>2. QED BY <3>1
  <2>9. Total(p) <= Total(cap) BY <1>2, <2>3, <2>5, <2>8, TotalMonotone
  <2>10. Total(cap) + each[u] = Total(each) + cap[u]
    BY <1>2, <2>4, <2>5, TotalChange
  <2>11. Total(p) \in Nat /\ Total(cap) \in Nat /\ Total(each) \in Nat
    BY <1>2, <2>3, <2>4, <2>5, TotalType
  <2>12. Total(cap) + line = most + (line - got)
    BY <2>4, <2>5, <2>7, <2>10
  <2>13. most \in Nat BY <2>7, <2>11
  <2>14. QED BY <1>1, <2>6, <2>9, <2>11, <2>12, <2>13
<1>6. QED BY <1>1, <1>4, <1>5


\* Who starts no receipt of an order opens nothing of it.
LEMMA RoomQuiet ==
  ASSUME Shape, Shape', NEW o \in Orders, NEW i \in Items, Room(o, i),
         Received(o, i)' = Received(o, i),
         order'[o].lines = order[o].lines,
         order'[o].revision = order[o].revision,
         \A u \in Users : \/ user'[u] = user[u]
                          \/ user'[u].do # "receive"
                          \/ user'[u].order # o
  PROVE  Room(o, i)'
<1>1. ASSUME NEW u \in Users PROVE Open(u, o, i)' <= Open(u, o, i)
  <2>1. Open(u, o, i) \in Nat BY OpenType
  <2>2. CASE user'[u] = user[u]
    <3>1. Open(u, o, i)' = Open(u, o, i) BY <2>2 DEF Open
    <3>2. QED BY <2>1, <3>1
  <2>3. CASE user'[u].do # "receive" \/ user'[u].order # o
    <3>1. Open(u, o, i)' = 0 BY <2>3 DEF Open
    <3>2. QED BY <2>1, <3>1
  <2>4. QED BY <2>2, <2>3
<1>2. QED BY <1>1, RoomSame

\* Buying and paying.
LEMMA RoomPaying ==
  ASSUME Inv, Shape', RoomInv, OffOrders
  PROVE  RoomInv'
<1> SUFFICES ASSUME NEW o \in Orders, NEW i \in Items PROVE Room(o, i)'
  BY DEF RoomInv
<1>1. o # NoOrder BY PurchasingAssumption
<1>2. Received(o, i)' = Received(o, i)
  BY <1>1, ReceivedSame DEF OffOrders
<1>3. QED BY <1>2, RoomQuiet DEF RoomInv, Inv, OffOrders

\* Creating and replacing lines: nothing is received for the new ones, and
\* nobody has read them.
LEMMA RoomNewLines ==
  ASSUME Inv, Shape', OrderInv, RoomInv,
         \/ \E o \in Orders, lines \in Lines : CreateDraftPO(o, lines)
         \/ \E u \in Users, lines \in Lines : WriteUpdate(u, lines)
  PROVE  RoomInv'
<1>1. ASSUME NEW q \in Orders, NEW lines \in Lines, CreateDraftPO(q, lines),
             NEW o \in Orders, NEW i \in Items
      PROVE  Room(o, i)'
  <2>1. /\ order[q].status = "NONE"
        /\ \A r \in Orders \ {q} : order'[r] = order[r]
        /\ purchase' = purchase /\ user' = user
    BY <1>1 DEF CreateDraftPO, Inv, Shape
  <2>2. Received(o, i)' = Received(o, i) BY <2>1, ReceivedSame
  <2>3. CASE o # q
    BY <2>1, <2>2, <2>3, RoomQuiet DEF RoomInv, Inv
  <2>4. CASE o = q
    <3>1. /\ ReceiptsOf(o) = {}
          /\ \A u \in Users : user[u] # Idle => user[u].order # o
      BY <2>1, <2>4 DEF OrderInv, Fresh
    <3>2. Received(o, i)' = 0 BY <2>2, <3>1, NothingReceived
    <3>3. \A u \in Users : Open(u, o, i)' = 0
      BY <2>1, <3>1 DEF Open, Idle
    <3>4. QED BY <3>2, <3>3, RoomEmpty
  <2>5. QED BY <2>3, <2>4
<1>2. ASSUME NEW u \in Users, NEW lines \in Lines, WriteUpdate(u, lines),
             NEW o \in Orders, NEW i \in Items
      PROVE  Room(o, i)'
  <2>1. PICK q \in Orders : user[u].order = q
    BY <1>2 DEF WriteUpdate, Inv, Shape, Task
  <2>2. /\ \A v \in Users \ {u} : user'[v] = user[v]
        /\ user'[u] = Idle /\ user[u].do = "update"
        /\ \A r \in Orders \ {q} : order'[r] = order[r]
    BY <1>2, <2>1 DEF WriteUpdate, Inv, Shape
  <2>3. order'[q].revision = order[q].revision + 1
    <3> DEFINE next == order[q].revision + 1
    <3>1. order' = [order EXCEPT ![q].lines = lines, ![q].revision = next]
      BY <1>2, <2>1 DEF WriteUpdate
    <3> HIDE DEF next
    <3>2. order'[q].revision = next BY <3>1 DEF Order, Inv, Shape
    <3>3. QED BY <3>2 DEF next
  <2>4. \A p \in Purchases :
          /\ purchase'[p].order = purchase[p].order
          /\ purchase'[p].units = purchase[p].units
          /\ purchase'[p].item =
               IF purchase[p].order = q THEN NoItem ELSE purchase[p].item
    BY <1>2, <2>1 DEF WriteUpdate, Inv, Shape, Purchase
  <2>5. CASE o # q
    <3>1. Received(o, i)' = Received(o, i) BY <2>4, <2>5, ReceivedSame
    <3>2. QED BY <2>2, <2>5, <3>1, RoomQuiet DEF RoomInv, Inv, Idle
  <2>6. CASE o = q
    <3>1. Received(o, i)' = 0
      <4> DEFINE r == [p \in Purchases |->
                         IF purchase'[p].order = o /\ purchase'[p].item = i
                         THEN purchase'[p].units ELSE 0]
      <4>1. i # NoItem BY PurchasingAssumption
      <4>2. \A p \in Purchases : r[p] = 0 BY <2>4, <2>6, <4>1
      <4>3. r \in [Purchases -> Nat] BY <4>2
      <4>4. Received(o, i)' = Total(r) BY DEF Received
      <4> HIDE DEF r
      <4>5. QED BY <4>2, <4>3, <4>4, TotalZero
    <3>2. ASSUME NEW v \in Users PROVE Open(v, o, i)' = 0
      <4>1. CASE user'[v].do = "receive" /\ user'[v].order = o
        <5>1. user'[v] = user[v] /\ Seen(v)
          BY <2>2, <4>1 DEF OrderInv, Idle
        <5>2. user[v].revision <= order[o].revision
          BY <4>1, <5>1 DEF Seen
        <5>3. user[v].revision \in Nat /\ order[o].revision \in Nat
          BY <4>1, <5>1 DEF Inv, Shape, Task, Order
        <5>4. user'[v].revision # order'[o].revision
          BY <2>3, <2>6, <5>1, <5>2, <5>3
        <5>5. QED BY <5>4 DEF Open
      <4>2. CASE ~(user'[v].do = "receive" /\ user'[v].order = o)
        BY <4>2 DEF Open
      <4>3. QED BY <4>1, <4>2
    <3>3. QED BY <3>1, <3>2, RoomEmpty
  <2>7. QED BY <2>5, <2>6
<1>3. QED BY <1>1, <1>2 DEF RoomInv


\* Sending, cancelling and failing.
LEMMA RoomLeft ==
  ASSUME Inv, Shape', RoomInv, NEW u \in Users, WriteStatus(u) \/ GiveUp(u)
  PROVE  RoomInv'
<1> SUFFICES ASSUME NEW o \in Orders, NEW i \in Items PROVE Room(o, i)'
  BY DEF RoomInv
<1>1. /\ purchase' = purchase /\ user'[u] = Idle
      /\ \A v \in Users \ {u} : user'[v] = user[v]
  BY DEF WriteStatus, GiveUp, Inv, Shape
<1>2. /\ order'[o].lines = order[o].lines
      /\ order'[o].revision = order[o].revision
  <2>1. CASE GiveUp(u) BY <2>1 DEF GiveUp
  <2>2. CASE WriteStatus(u)
    <3> DEFINE s == IF user[u].do = "send" THEN "SENT" ELSE "CANCELLED"
    <3>1. order' = [order EXCEPT ![user[u].order].status = s]
      BY <2>2 DEF WriteStatus
    <3> HIDE DEF s
    <3>2. QED BY <3>1 DEF Inv, Shape, Order
  <2>3. QED BY <2>1, <2>2
<1>3. Received(o, i)' = Received(o, i) BY <1>1, ReceivedSame
<1>4. QED BY <1>1, <1>2, <1>3, RoomQuiet DEF RoomInv, Inv, Idle

\* Looking at an order, or once more at its receipts: a line that is full
\* leaves nothing to receive.
LEMMA RoomLook ==
  ASSUME Inv, Shape', OrderInv, RoomInv, NEW u \in Users,
         RetryReceipt(u) \/ \E t \in Requests : Read(u, t)
  PROVE  RoomInv'
<1> SUFFICES ASSUME NEW o \in Orders, NEW i \in Items PROVE Room(o, i)'
  BY DEF RoomInv
<1>1. /\ purchase' = purchase /\ order' = order
      /\ \A v \in Users \ {u} : user'[v] = user[v]
  BY DEF RetryReceipt, Read, Inv, Shape
<1>2. Received(o, i)' = Received(o, i) BY <1>1, ReceivedSame
<1>3. CASE user'[u].do # "receive" \/ user'[u].order # o
  BY <1>1, <1>2, <1>3, RoomQuiet DEF RoomInv, Inv
<1>4. CASE user'[u].do = "receive" /\ user'[u].order = o
  <2>1. user'[u].before[i] = Received(o, i)
    <3>1. CASE RetryReceipt(u)
      <4> DEFINE now == [j \in Items |-> Received(user[u].order, j)]
      <4>1. /\ user[u] \in Task /\ user[u].do = "receive"
            /\ user' = [user EXCEPT ![u].before = now]
        BY <3>1 DEF RetryReceipt, Inv, Shape
      <4>2. now[i] = Received(user[u].order, i) OBVIOUS
      <4> HIDE DEF now
      <4>3. user'[u] = [user[u] EXCEPT !.before = now]
        BY <4>1 DEF Inv, Shape
      <4>4. user'[u].before = now /\ user'[u].order = user[u].order
        BY <4>1, <4>3 DEF Task
      <4>5. user[u].order = o BY <1>4, <4>4
      <4>6. Received(user[u].order, i) = Received(o, i)
        BY <4>5 DEF Received
      <4>7. QED BY <4>2, <4>4, <4>6
    <3>2. ASSUME NEW t \in Requests, Read(u, t)
          PROVE  user'[u].before[i] = Received(o, i)
      <4>1. user'[u] = t BY <3>2 DEF Read, Inv, Shape
      <4>2. PICK q \in Orders :
              t = [do |-> "receive", order |-> q, lines |-> order[q].lines,
                   revision |-> order[q].revision,
                   before |-> [j \in Items |-> Received(q, j)]]
        BY <1>4, <4>1 DEF Requests
      <4>3. q = o BY <1>4, <4>1, <4>2
      <4>4. QED BY <4>1, <4>2, <4>3
    <3>3. QED BY <3>1, <3>2
  <2>2. CASE user'[u].revision = order[o].revision
    <3>1. Open(u, o, i)' = IF Received(o, i) < order[o].lines[i]
                           THEN order[o].lines[i] - Received(o, i) ELSE 0
      BY <1>1, <1>4, <2>1, <2>2 DEF Open
    <3>2. QED BY <1>1, <1>2, <3>1, RoomLooked DEF RoomInv, Inv
  <2>3. CASE user'[u].revision # order[o].revision
    <3>1. \A v \in Users : Open(v, o, i) \in Nat BY OpenType DEF Inv
    <3>2. Open(u, o, i)' = 0 BY <1>1, <2>3 DEF Open
    <3>3. \A v \in Users \ {u} : Open(v, o, i)' = Open(v, o, i)
      BY <1>1 DEF Open
    <3>4. \A v \in Users : Open(v, o, i)' <= Open(v, o, i)
      BY <3>1, <3>2, <3>3
    <3>5. QED BY <1>1, <1>2, <3>4, RoomSame DEF RoomInv, Inv
  <2>4. QED BY <2>2, <2>3
<1>5. QED BY <1>3, <1>4

\* A receipt uses up what its caller might receive.
LEMMA RoomReceived ==
  ASSUME Inv, Shape', OrderInv, RoomInv, NEW u \in Users, NEW got \in Lines,
         NEW pay \in BOOLEAN, NEW S \in SUBSET Purchases,
         NEW line \in [S -> Items], WriteReceipt(u, got, pay, line)
  PROVE  RoomInv'
<1> SUFFICES ASSUME NEW o \in Orders, NEW i \in Items PROVE Room(o, i)'
  BY DEF RoomInv
<1>1. user[u] \in Task /\ user[u].do = "receive"
  BY DEF WriteReceipt, Inv, Shape
<1>2. PICK q \in Orders : user[u].order = q BY <1>1 DEF Task
<1>3. /\ \A p \in S : purchase[p].order = NoOrder /\ purchase'[p].order = q
      /\ \A p \in Purchases \ S : purchase'[p] = purchase[p]
      /\ \A j \in Items : Received(q, j)' = Received(q, j) + got[j]
  BY <1>2, ReceivedMore
<1>4. /\ \A v \in Users \ {u} : user'[v] = user[v]
      /\ user'[u] = Idle
      /\ WithinLines(user[u], got) /\ order[q].revision = user[u].revision
  BY <1>2 DEF WriteReceipt, Inv, Shape
<1>5. /\ order'[o].lines = order[o].lines
      /\ order'[o].revision = order[o].revision
  <2> DEFINE s == IF FullyReceived(user[u], got) THEN "RECEIVED" ELSE "PARTIAL"
  <2>1. order' = [order EXCEPT ![user[u].order].status = s]
    BY DEF WriteReceipt
  <2> HIDE DEF s
  <2>2. QED BY <2>1 DEF Inv, Shape, Order
<1>6. CASE o # q
  <2>1. o # NoOrder BY PurchasingAssumption
  <2>2. Received(o, i)' = Received(o, i) BY <1>3, <1>6, <2>1, ReceivedSame
  <2>3. QED BY <1>4, <1>5, <2>2, RoomQuiet DEF RoomInv, Inv, Idle
<1>7. CASE o = q
  <2> DEFINE old == Opens(o, i)
             new == Opens(o, i)'
             most == Cardinality(Users) * order[o].lines[i]
  <2>1. got[i] \in Nat
    BY PurchasingAssumption DEF Lines
  <2>2. got[i] <= Open(u, o, i)
    <3>1. user[u].lines = order[o].lines
      BY <1>1, <1>2, <1>4, <1>7 DEF OrderInv, Seen
    <3>2. user[u].before[i] \in Nat /\ order[o].lines[i] \in Nat
      BY <1>1 DEF Inv, Shape, Task, Order
    <3>3. CASE got[i] = 0
      <4>1. Open(u, o, i) \in Nat BY OpenType DEF Inv
      <4>2. QED BY <3>3, <4>1
    <3>4. CASE got[i] # 0
      <4>1. user[u].before[i] + got[i] <= order[o].lines[i]
        BY <1>4, <2>1, <3>1, <3>4 DEF WithinLines
      <4>2. user[u].before[i] < order[o].lines[i]
        BY <2>1, <3>2, <3>4, <4>1
      <4>3. Open(u, o, i) = order[o].lines[i] - user[u].before[i]
        BY <1>1, <1>2, <1>4, <1>7, <4>2 DEF Open
      <4>4. QED BY <2>1, <3>2, <4>1, <4>3
    <3>5. QED BY <3>3, <3>4
  <2>3. old \in [Users -> Nat] /\ old[u] = Open(u, o, i)
    BY OpenType DEF Inv, Opens
  <2>4. Open(u, o, i)' = 0 BY <1>4 DEF Open, Idle
  <2>5. \A v \in Users : v # u => Open(v, o, i)' = Open(v, o, i)
    BY <1>4, <1>5 DEF Open
  <2>6. /\ new \in [Users -> Nat] /\ new[u] = 0
        /\ \A v \in Users : v # u => new[v] = old[v]
    <3>1. \A v \in Users : Open(v, o, i) \in Nat BY OpenType DEF Inv
    <3>2. QED BY <2>4, <2>5, <3>1 DEF Opens
  <2>7. Received(o, i) + Total(old) <= most BY DEF RoomInv, Room
  <2>8. Room(o, i)' <=> Received(o, i)' + Total(new) <= most
    BY <1>5 DEF Room
  <2>9. Received(o, i) \in Nat BY ReceivedType DEF Inv
  <2>10. most \in Nat
    <3>1. Cardinality(Users) \in Nat
      BY PurchasingAssumption, FS_CardinalityType
    <3>2. order[o].lines[i] \in Nat BY OpenType DEF Inv
    <3>3. QED BY <3>1, <3>2
  <2>11. Received(o, i)' = Received(o, i) + got[i] BY <1>3, <1>7
  <2> HIDE DEF old, new, most
  <2>12. Total(new) + old[u] = Total(old) + new[u]
    BY <2>3, <2>6, PurchasingAssumption, TotalChange
  <2>13. Total(new) \in Nat /\ Total(old) \in Nat
    BY <2>3, <2>6, PurchasingAssumption, TotalType
  <2>14. Total(new) + got[i] <= Total(old)
    BY <2>1, <2>2, <2>3, <2>6, <2>12, <2>13
  <2>15. QED BY <2>1, <2>7, <2>8, <2>9, <2>10, <2>11, <2>13, <2>14
<1>8. QED BY <1>6, <1>7

\* At first nothing is received, and nobody has looked.
LEMMA InitRoom == Init => RoomInv
<1> SUFFICES ASSUME Init, NEW o \in Orders, NEW i \in Items PROVE Room(o, i)
  BY DEF RoomInv
<1>1. order[o].lines[i] = 0 BY DEF Init, NoUnits
<1>2. ReceiptsOf(o) = {}
  BY PurchasingAssumption DEF Init, NoPurchase, ReceiptsOf
<1>3. Received(o, i) = 0 BY <1>2, NothingReceived
<1>4. \A u \in Users : Open(u, o, i) = 0 BY DEF Init, Open, Idle
<1> DEFINE p == Opens(o, i)
<1>5. p \in [Users -> Nat] /\ \A u \in Users : p[u] = 0 BY <1>4 DEF Opens
<1>6. Cardinality(Users) \in Nat
  BY PurchasingAssumption, FS_CardinalityType
<1>7. Room(o, i) <=> Received(o, i) + Total(p) <= Cardinality(Users) * 0
  BY <1>1 DEF Room
<1> HIDE DEF p
<1>8. Total(p) = 0 BY <1>5, TotalZero
<1>9. QED BY <1>3, <1>6, <1>7, <1>8

\* No step takes more room than there is.
LEMMA NextRoom ==
  Inv /\ Inv' /\ OrderInv /\ RoomInv /\ [Next]_vars => RoomInv'
<1> SUFFICES ASSUME Inv, Inv', OrderInv, RoomInv, [Next]_vars
             PROVE  RoomInv'
  OBVIOUS
<1>1. Shape' BY DEF Inv
<1>2. CASE UNCHANGED vars
  <2>1. OffOrders BY <1>2 DEF vars, OffOrders
  <2>2. QED BY <1>1, <2>1, RoomPaying
<1>3. CASE Paying
  <2>1. OffOrders BY <1>3, PayingFrame
  <2>2. QED BY <1>1, <2>1, RoomPaying
<1>4. CASE Ordering
  BY <1>1, <1>4, RoomNewLines, RoomLeft, RoomLook, RoomReceived
     DEF Ordering, Unused
<1>5. QED BY <1>2, <1>3, <1>4 DEF Next

\* However many receipts of an order overlap, no line is ever received more
\* often than once for each caller: a caller that looks at a full line is
\* refused, and nobody can use twice what it has seen.
THEOREM OverReceiptAlwaysBounded == Spec => []OverReceiptBounded
<1>1. Init => Inv /\ OrderInv /\ RoomInv BY InitInv, InitOrders, InitRoom
<1>2. (Inv /\ OrderInv /\ RoomInv) /\ [Next]_vars
        => (Inv /\ OrderInv /\ RoomInv)'
  BY NextInv, NextOrders, NextRoom
<1>3. Inv /\ RoomInv => OverReceiptBounded
  <2> SUFFICES ASSUME Inv, RoomInv, NEW o \in Orders, NEW i \in Items
               PROVE  Received(o, i)
                        <= Cardinality(Users) * order[o].lines[i]
    BY DEF OverReceiptBounded
  <2> DEFINE p == Opens(o, i)
             most == Cardinality(Users) * order[o].lines[i]
  <2>1. Received(o, i) + Total(p) <= most BY DEF RoomInv, Room
  <2>2. Received(o, i) \in Nat BY ReceivedType DEF Inv
  <2>3. p \in [Users -> Nat] BY OpenType DEF Inv
  <2>4. most \in Nat
    <3>1. Cardinality(Users) \in Nat
      BY PurchasingAssumption, FS_CardinalityType
    <3>2. order[o].lines[i] \in Nat BY OpenType DEF Inv
    <3>3. QED BY <3>1, <3>2
  <2> HIDE DEF p, most
  <2>5. Total(p) \in Nat BY <2>3, PurchasingAssumption, TotalType
  <2>6. Received(o, i) <= most BY <2>1, <2>2, <2>4, <2>5
  <2>7. QED BY <2>6 DEF most
<1>4. QED BY <1>1, <1>2, <1>3, PTL DEF Spec
=============================================================================
