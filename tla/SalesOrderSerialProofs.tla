----------------------- MODULE SalesOrderSerialProofs -----------------------
(***************************************************************************)
(* Theorems about SalesOrder that hold while calls do not overlap          *)
(* (SerialSpec): goods, voids, statuses and promised stock, for any set of *)
(* orders, any number of clerks and any bounds.                            *)
(***************************************************************************)
EXTENDS SalesOrderMoneyProofs
-----------------------------------------------------------------------------
(* One call at a time. *)

Busy(c) == clerk[c].pc # "idle"

\* While a clerk is at work nobody else is.
OneCall ==
  \A c \in Clerks : Busy(c) =>
    /\ \A d \in Clerks : Busy(d) => d = c
    /\ picked = {} /\ accepted = {} /\ uploads = {}

\* Only a clerk at work takes a step of its call.
LEMMA StepsAreBusy ==
  ASSUME NEW c \in Clerks, ClerkStep(c)
  PROVE  Busy(c)
BY DEF ClerkStep, WriteShipping, HandoverReads, HandoverWrites,
       ShippingFails, Busy

\* A step of SerialSpec is a clerk's, or the beginning of its call, or it is
\* taken while all clerks are idle and leaves them so.
LEMMA SerialSteps ==
  ASSUME OneCall, [SerialStep]_vars
  PROVE  /\ [Next]_vars
         /\ \/ UNCHANGED vars
            \/ \E c \in Clerks : Busy(c) /\ ClerkStep(c)
            \/ Quiet /\ Requesting
            \/ (\A c \in Clerks : ~Busy(c)) /\ UNCHANGED clerk
<1>1. [Next]_vars
  BY DEF SerialStep, Next, Cron, Paying
<1>2. CASE Shipping
  BY <1>1, <1>2, StepsAreBusy DEF Shipping
<1>3. CASE \/ Webhook
           \/ \E o \in Orders : ExpireOrder(o) \/ WriteProof(o, FALSE)
  <2>1. ~(picked = {} /\ accepted = {} /\ uploads = {})
    BY <1>3 DEF Webhook, WebhookSettlement, WebhookFailure, WebhookIgnored,
                ExpireOrder, WriteProof
  <2>2. UNCHANGED clerk
    BY <1>3 DEF Webhook, WebhookSettlement, WebhookFailure, WebhookIgnored,
                ExpireOrder, WriteProof
  <2> QED
    BY <1>1, <2>1, <2>2 DEF OneCall
<1>4. CASE Quiet /\ Next
  <2>1. CASE Requesting
    BY <1>1, <1>4, <2>1
  <2>2. CASE ~Requesting /\ ~Shipping
    <3>1. UNCHANGED clerk
      BY <1>1, <2>2, ClerksWait
    <3>2. \A c \in Clerks : ~Busy(c)
      BY <1>4 DEF Quiet, Busy
    <3> QED
      BY <1>1, <3>1, <3>2
  <2> QED
    BY <1>2, <2>1, <2>2
<1>5. CASE UNCHANGED vars
  BY <1>1, <1>5
<1> QED
  BY <1>2, <1>3, <1>4, <1>5 DEF SerialStep

\* A clerk at work has read a living order.  The shipping cost it will write
\* to a paid order is the order's, and the reservation it found still covers
\* the order.
Held(c) ==
  LET k == clerk[c]
      o == k.order
  IN  Busy(c) =>
        /\ inv[o].status # "VOID"
        /\ inv[o].status = "PAID" /\ k.newShip # NoCost =>
             k.newShip = inv[o].ship
        /\ k.pc = "fulfil" =>
             resv[o].status = "ACTIVE" /\ inv[o].qty <= resv[o].qty

\* Calls stay one at a time, and what a clerk has read stays true until it
\* writes.
LEMMA NextCall ==
  ASSUME IInv, OneCall, \A c \in Clerks : Held(c), [SerialStep]_vars
  PROVE  OneCall' /\ \A c \in Clerks : Held(c)'
<1> USE DEF IInv, TypeInv
<1>1. CASE UNCHANGED vars
  BY <1>1 DEF vars, OneCall, Held, Busy
<1>2. CASE (\A c \in Clerks : ~Busy(c)) /\ UNCHANGED clerk
  BY <1>2 DEF OneCall, Held, Busy
<1>3. ASSUME NEW c \in Clerks, Busy(c), ClerkStep(c)
      PROVE  OneCall' /\ \A d \in Clerks : Held(d)'
  <2> DEFINE k == clerk[c]
             o == k.order
  <2>1. UNCHANGED <<picked, accepted, uploads>>
    BY <1>3 DEF ClerkStep, WriteShipping, HandoverReads, HandoverWrites,
                ShippingFails
  <2>2. \E x : clerk' = [clerk EXCEPT ![c] = x]
    BY <1>3 DEF ClerkStep, WriteShipping, HandoverReads, HandoverWrites,
                ShippingFails
  <2>3. \A d \in Clerks : d # c => clerk'[d] = clerk[d] /\ ~Busy(d)'
    BY <1>3, <2>2 DEF TypeOK, OneCall, Busy
  <2>4. OneCall'
    BY <1>3, <2>1, <2>3 DEF OneCall
  <2>5. Held(c)'
    <3>1. CASE HandoverReads(c)
      <4>1. UNCHANGED <<inv, resv>> /\ k.pc = "read" /\ k \in ClerkState
        BY <3>1 DEF HandoverReads, TypeOK
      <4>2. clerk'[c] = IF inv[o].ful = "DELIVERED"
                        THEN [k EXCEPT !.pc = "write"]
                        ELSE IF IsRefused(o) THEN Idle
                        ELSE Fulfilling(k, inv[o].paid, GrandTotal(o))
        BY <3>1 DEF HandoverReads, TypeOK
      <4>3. CASE inv[o].ful = "DELIVERED"
        <5>1. /\ clerk'[c].pc = "write" /\ clerk'[c].order = o
              /\ clerk'[c].newShip = k.newShip
          BY <4>1, <4>2, <4>3 DEF ClerkState
        <5> QED
          BY <1>3, <4>1, <5>1 DEF Held
      <4>4. CASE inv[o].ful # "DELIVERED" /\ IsRefused(o)
        BY <4>2, <4>4 DEF Held, Busy, Idle
      <4>5. CASE inv[o].ful # "DELIVERED" /\ ~IsRefused(o)
        <5>1. clerk'[c] = Fulfilling(k, inv[o].paid, GrandTotal(o))
          BY <4>2, <4>5
        <5>2. /\ clerk'[c].pc = "fulfil" /\ clerk'[c].order = o
              /\ clerk'[c].newShip = k.newShip
          BY <4>1, <5>1 DEF ClerkState, Fulfilling
        <5>3. o \in Orders
          BY <1>3 DEF ClerkHasOrder, Busy
        <5>4. resv[o].status = "ACTIVE" /\ inv[o].qty <= resv[o].qty
          BY <4>5, <5>3, RowTypes DEF IsRefused
        <5> QED
          BY <1>3, <4>1, <5>2, <5>4 DEF Held
      <4> QED
        BY <4>3, <4>4, <4>5
    <3>2. CASE ~HandoverReads(c)
      <4>1. clerk'[c] = Idle
        BY <1>3, <3>2 DEF ClerkStep, WriteShipping, HandoverWrites,
                          ShippingFails, TypeOK
      <4> QED
        BY <4>1 DEF Held, Busy, Idle
    <3> QED
      BY <3>1, <3>2
  <2> QED
    BY <2>3, <2>4, <2>5 DEF Held
<1>4. CASE Quiet /\ Requesting
  <2>1. PICK c \in Clerks, o \in Orders, byTracking \in BOOLEAN,
             next \in OperatorTargets \cup {"SAME"},
             ship \in ShippingCosts \cup {NoCost} :
          ReadForShipping(c, o, next, byTracking, ship)
    BY <1>4 DEF Requesting, OperatorTargets
  <2>2. UNCHANGED <<inv, resv, picked, accepted, uploads>>
    BY <2>1 DEF ReadForShipping
  <2>3. \A d \in Clerks : d # c => ~Busy(d)'
    BY <1>4, <2>1 DEF ReadForShipping, TypeOK, Quiet, Busy
  <2>4. OneCall'
    BY <1>4, <2>2, <2>3 DEF OneCall, Quiet
  <2>5. Held(c)'
    <3>1. /\ clerk'[c].pc = "read" /\ clerk'[c].order = o
          /\ clerk'[c].newShip = ship
      BY <2>1 DEF ReadForShipping, TypeOK
    <3>2. /\ inv[o].status # "VOID"
          /\ ship # NoCost => (inv[o].status = "PAID" => ship = inv[o].ship)
      BY <2>1 DEF ReadForShipping
    <3> QED
      BY <2>2, <3>1, <3>2 DEF Held
  <2> QED
    BY <2>3, <2>4, <2>5 DEF Held
<1> QED
  BY <1>1, <1>2, <1>3, <1>4, SerialSteps

-----------------------------------------------------------------------------
(* Goods, voids and statuses. *)

\* The three conditions of StatusMatchesPaid, for one order.
Matches(o) ==
  /\ inv[o].status = "ISSUED" => inv[o].paid = 0
  /\ inv[o].status = "PARTIAL" => inv[o].paid > 0
  /\ inv[o].status = "PAID" => Outstanding(o) = 0

\* One order's share of the invariant.  What has been reversed belongs to a
\* void order, and a notification is accepted while no shipping is charged.
SerialInv(o) ==
  /\ o \in accepted => inv[o].ship = 0
  /\ inv[o].status = "VOID" =>
       /\ inv[o].ful = "CANCELLED"
       /\ ledger[o].void = ledger[o].out /\ books[o].sale # "POSTED"
  /\ AlreadyReversed(o) => inv[o].status = "VOID"
  /\ ledger[o].out <= inv[o].qty
  /\ Matches(o)

SInv == /\ MInv /\ OneCall
        /\ \A c \in Clerks : Held(c)
        /\ \A o \in Orders : SerialInv(o)

\* A notification is accepted for an order that has no shipping cost.
LEMMA AcceptedSteps ==
  ASSUME IInv, [Next]_vars, NEW w \in Orders, w \in accepted'
  PROVE  w \in accepted \/ (inv[w].ship = 0 /\ UNCHANGED inv)
<1> USE DEF IInv, TypeInv
<1>1. ASSUME NEW o \in Orders, WebhookAccept(o)
      PROVE  w \in accepted \/ (inv[w].ship = 0 /\ UNCHANGED inv)
  <2>1. CASE w = o
    <3>1. inv[o].qty \in Nat /\ inv[o].ship \in Nat
      BY RowTypes
    <3> QED
      BY <1>1, <2>1, <3>1 DEF WebhookAccept, GrandTotal
  <2> QED
    BY <1>1, <2>1 DEF WebhookAccept
<1>2. Webhook => accepted' \subseteq accepted
  BY DEF Webhook, WebhookSettlement, WebhookFailure, WebhookIgnored
<1>3. Placing => UNCHANGED accepted
  BY DEF Placing, WalkInSale, CreateInvoice, Checkout
<1>4. Paying => UNCHANGED accepted
  <2>1. \A o, amount : RecordPayment(o, amount) => UNCHANGED accepted
    BY DEF RecordPayment
  <2>2. \A o, amount : VerifySubmission(o, amount) => UNCHANGED accepted
    BY DEF VerifySubmission
  <2>3. \A o, i : VoidPayment(o, i) => UNCHANGED accepted
    BY DEF VoidPayment
  <2>4. \A o, more : WriteProof(o, more) => UNCHANGED accepted
    BY DEF WriteProof
  <2>5. \A o : ReadSubmission(o) \/ SubmitProofLate(o) \/ RejectSubmission(o)
                => UNCHANGED accepted
    BY DEF ReadSubmission, SubmitProofLate, RejectSubmission
  <2> QED
    BY <2>1, <2>2, <2>3, <2>4, <2>5 DEF Paying
<1>5. Cancelling \/ Cron \/ Deadlines => UNCHANGED accepted
  BY DEF Cancelling, VoidInvoice, Cron, PickExpiredOrders, ExpireSubmission,
         ExpireOrder, Deadlines, ReservationDeadline, SubmissionDeadline
<1>6. Moving => UNCHANGED accepted
  BY DEF Moving, Produce, OtherOut, CreateCreditNote
<1>7. Requesting => UNCHANGED accepted
  BY DEF Requesting, ReadForShipping
<1>8. Shipping => UNCHANGED accepted
  BY DEF Shipping, ClerkStep, WriteShipping, HandoverReads, HandoverWrites,
         ShippingFails
<1>9. UNCHANGED vars => UNCHANGED accepted
  BY DEF vars
<1> QED
  BY <1>1, <1>2, <1>3, <1>4, <1>5, <1>6, <1>7, <1>8, <1>9 DEF Next

\* What is owed on an order, as arithmetic.
LEMMA NothingOwed ==
  ASSUME NEW i \in Invoice, NEW w \in Orders
  PROVE  /\ inv[w] = i => (Outstanding(w) = 0 <=>
                             i.qty + i.ship <= i.paid + i.returned)
         /\ inv'[w] = i => (Outstanding(w)' = 0 <=>
                              i.qty + i.ship <= i.paid + i.returned)
<1> DEFINE due == i.qty + i.ship - i.paid - i.returned
<1>1. /\ i.qty \in Nat /\ i.ship \in Nat /\ i.paid \in Nat
      /\ i.returned \in Nat
  BY CostsAssumption DEF Invoice
<1>2. due \in Int /\ (due <= 0 <=> i.qty + i.ship <= i.paid + i.returned)
  BY <1>1
<1>3. ASSUME inv[w] = i
      PROVE  Outstanding(w) = Max({0, due})
  <2>1. GrandTotal(w) - inv[w].paid - inv[w].returned = due
    BY <1>1, <1>3 DEF GrandTotal
  <2> HIDE DEF due
  <2> QED BY <2>1 DEF Outstanding
<1>4. ASSUME inv'[w] = i
      PROVE  Outstanding(w)' = Max({0, due})
  <2>1. GrandTotal(w)' - inv'[w].paid - inv'[w].returned = due
    BY <1>1, <1>4 DEF GrandTotal
  <2> HIDE DEF due
  <2> QED BY <2>1 DEF Outstanding
<1> HIDE DEF due
<1>5. Max({0, due}) = IF 0 >= due THEN 0 ELSE due
  BY <1>2, MaxOfTwo
<1>6. Max({0, due}) = 0 <=> due <= 0
  BY <1>2, <1>5
<1> QED
  BY <1>2, <1>3, <1>4, <1>6

\* An order's rows as SInv gives them.
LEMMA SerialTypes ==
  ASSUME SInv, NEW w \in Orders
  PROVE  /\ IInv /\ TypeOK /\ OrderInv(w) /\ MoneyInv(w) /\ SerialInv(w)
         /\ inv[w] \in Invoice /\ books[w] \in Books(ShippingCosts)
         /\ ledger[w] \in LedgerSums
         /\ ledger[w].out \in Nat /\ ledger[w].void \in Nat
         /\ inv[w].qty \in Nat /\ inv[w].ship \in Nat /\ inv[w].paid \in Nat
         /\ inv[w].returned \in Nat
<1>1. IInv /\ TypeOK /\ OrderInv(w) /\ MoneyInv(w) /\ SerialInv(w)
  BY DEF SInv, MInv, IInv, TypeInv
<1>2. /\ inv[w] \in Invoice /\ books[w] \in Books(ShippingCosts)
      /\ inv[w].qty \in Nat /\ inv[w].ship \in Nat /\ inv[w].paid \in Nat
      /\ inv[w].returned \in Nat
  BY <1>1, MoneyTypes
<1>3. /\ ledger[w] \in LedgerSums
      /\ ledger[w].out \in Nat /\ ledger[w].void \in Nat
  BY <1>1, RowTypes
<1> QED
  BY <1>1, <1>2, <1>3

\* What a step leaves of SerialInv to be shown when it is not a clerk's and
\* does not call the order off: the order's new money.
LEMMA NotCalledOff ==
  ASSUME SInv, [Next]_vars, NEW w \in Orders, inv'[w].ship = inv[w].ship,
         inv'[w].qty = inv[w].qty, inv[w].status # "VOID",
         inv'[w].status # "VOID", ledger'[w] = ledger[w], Matches(w)'
  PROVE  SerialInv(w)'
<1>1. SerialInv(w) /\ IInv
  BY SerialTypes
<1>2. w \in accepted' => inv'[w].ship = 0
  BY <1>1, AcceptedSteps DEF SerialInv
<1>3. /\ AlreadyReversed(w)' <=> AlreadyReversed(w)
      /\ ledger'[w].out <= inv'[w].qty
  BY <1>1 DEF SerialInv, AlreadyReversed
<1> QED
  BY <1>1, <1>2, <1>3 DEF SerialInv


\* Every step keeps an order's share, and a void order void.
LEMMA SerialMoney ==
  ASSUME SInv, [SerialStep]_vars, NEW w \in Orders
  PROVE  /\ SerialInv(w)'
         /\ inv[w].status = "VOID" => inv'[w].status = "VOID"
<1>1. /\ IInv /\ TypeOK /\ OrderInv(w) /\ MoneyInv(w) /\ SerialInv(w)
      /\ inv[w] \in Invoice /\ books[w] \in Books(ShippingCosts)
      /\ ledger[w] \in LedgerSums
  BY SerialTypes
<1>2. /\ ledger[w].out \in Nat /\ ledger[w].void \in Nat
      /\ inv[w].qty \in Nat /\ inv[w].ship \in Nat /\ inv[w].paid \in Nat
      /\ inv[w].returned \in Nat
  BY SerialTypes
<1>3. [Next]_vars /\ MoneyStep(w)
  BY <1>1, SerialSteps, MoneySteps DEF SInv
<1>4. w \in accepted' => w \in accepted \/ (inv[w].ship = 0 /\ UNCHANGED inv)
  BY <1>1, <1>3, AcceptedSteps
<1>5. inv'[w] \in Invoice
  BY <1>1, <1>3, NextTypes DEF IInv, TypeInv, TypeOK
<1>6. CASE Keeps(w)
  <2>1. /\ inv'[w].status = inv[w].status /\ inv'[w].qty = inv[w].qty
        /\ inv'[w].ship = inv[w].ship /\ inv'[w].paid = inv[w].paid
        /\ inv'[w].returned = inv[w].returned
        /\ ledger'[w] = ledger[w] /\ books'[w] = books[w]
        /\ inv[w].status = "VOID" => inv'[w].ful = inv[w].ful
    BY <1>6 DEF Keeps
  <2>2. Matches(w)'
    <3>1. Outstanding(w) = 0 => Outstanding(w)' = 0
      BY <1>1, <1>5, <2>1, NothingOwed
    <3> QED
      BY <1>1, <2>1, <3>1 DEF SerialInv, Matches
  <2> QED
    BY <1>1, <1>4, <2>1, <2>2 DEF SerialInv, AlreadyReversed
<1>7. CASE Places(w)
  <2>1. /\ Blank(w) /\ inv[w].status = "NONE" /\ ledger[w].void = 0
        /\ ledger[w].out = 0
    BY <1>1, <1>2, <1>7 DEF Places, OrderInv, Blank
  <2>2. PICK q \in Nat \ {0}, kind \in AllKinds, f \in Fulfillments :
          /\ \/ inv'[w] = NewInvoice(kind, q, "ISSUED", f, 0)
             \/ inv'[w] = NewInvoice(kind, q, "PAID", f, q)
          /\ \/ ledger'[w] = ledger[w]
             \/ ledger'[w] = [ledger[w] EXCEPT !.out = q]
    BY <1>7 DEF Places
  <2>3. /\ inv'[w].ship = 0 /\ inv'[w].qty = q /\ inv'[w].returned = 0
        /\ \/ inv'[w].status = "ISSUED" /\ inv'[w].paid = 0
           \/ inv'[w].status = "PAID" /\ inv'[w].paid = q
    BY <2>2 DEF NewInvoice
  <2>4. ledger'[w].void = 0 /\ ledger'[w].out \in {0, q}
    BY <1>1, <2>1, <2>2 DEF LedgerSums
  <2>5. Matches(w)'
    BY <1>5, <2>3, NothingOwed DEF Matches
  <2> QED
    BY <2>1, <2>3, <2>4, <2>5 DEF SerialInv, AlreadyReversed
<1>8. CASE Pays(w)
  <2>1. PICK p \in Payment, s \in {"PAID", "PARTIAL"}, f \in Fulfillments :
          /\ inv[w].status \notin {"NONE", "VOID"} /\ p.amount > 0
          /\ inv'[w] = SetPaid(inv[w], inv[w].paid + p.amount, s, f)
          /\ s = "PAID" =>
               \/ inv[w].paid + p.amount >= GrandTotal(w) - inv[w].returned
               \/ w \in accepted /\ p.amount = inv[w].qty
          /\ ledger'[w] = ledger[w]
    BY <1>8 DEF Pays
  <2>2. p.amount \in Nat
    BY DEF Payment
  <2>3. /\ inv'[w].paid = inv[w].paid + p.amount /\ inv'[w].status = s
        /\ inv'[w].qty = inv[w].qty /\ inv'[w].returned = inv[w].returned
        /\ inv'[w].ship = inv[w].ship
    BY <1>1, <2>1, PaidRow
  <2>4. s = "PAID" => Outstanding(w)' = 0
    <3> SUFFICES ASSUME s = "PAID"
                 PROVE  inv'[w].qty + inv'[w].ship
                          <= inv'[w].paid + inv'[w].returned
      BY <1>5, NothingOwed
    <3>1. w \in accepted => inv[w].ship = 0
      BY <1>1 DEF SerialInv
    <3> QED
      BY <1>2, <2>1, <2>2, <2>3, <3>1 DEF GrandTotal
  <2>5. Matches(w)'
    BY <1>2, <2>1, <2>2, <2>3, <2>4 DEF Matches
  <2>6. inv[w].status # "VOID" /\ inv'[w].status # "VOID"
    BY <2>1, <2>3
  <2>7. SerialInv(w)'
    BY <1>3, <2>1, <2>3, <2>5, <2>6, NotCalledOff
  <2> QED
    BY <2>6, <2>7
<1>9. CASE TakesBack(w)
  <2> DEFINE paid(j) == Max({0, inv[w].paid - pay[w][j].amount})
  <2>1. PICK i \in DOMAIN pay[w], f \in Fulfillments :
          /\ inv[w].status # "VOID" /\ pay[w][i].live
          /\ inv'[w] = SetPaid(inv[w], paid(i), StatusAfterVoid(paid(i)), f)
          /\ ledger'[w] = ledger[w]
    BY <1>9 DEF TakesBack
  <2>2. paid(i) \in Nat
    BY <2>1, PaidAfterVoid DEF SInv
  <2> HIDE DEF paid
  <2>3. /\ inv'[w].paid = paid(i) /\ inv'[w].qty = inv[w].qty
        /\ inv'[w].ship = inv[w].ship
        /\ inv'[w].status = StatusAfterVoid(paid(i))
    BY <1>1, <2>1, PaidRow
  <2>4. inv'[w].status = IF paid(i) = 0 THEN "ISSUED" ELSE "PARTIAL"
    BY <2>3 DEF StatusAfterVoid
  <2>5. Matches(w)'
    BY <2>2, <2>3, <2>4 DEF Matches
  <2>6. inv[w].status # "VOID" /\ inv'[w].status # "VOID"
    BY <2>1, <2>4
  <2>7. SerialInv(w)'
    BY <1>3, <2>1, <2>3, <2>5, <2>6, NotCalledOff
  <2> QED
    BY <2>6, <2>7
<1>10. CASE CallsOff(w)
  <2>1. /\ inv'[w].paid = inv[w].paid /\ inv'[w].qty = inv[w].qty
        /\ inv'[w].ship = inv[w].ship
        /\ inv'[w].status = "VOID" /\ inv'[w].ful = "CANCELLED"
    BY <1>1, <1>10, InvoiceMoney DEF CallsOff
  <2>2. ledger[w].void = 0
    BY <1>1, <1>2, <1>10 DEF CallsOff, SerialInv, AlreadyReversed
  <2>3. /\ ReverseSalesInvoice(books[w]).sale # "POSTED"
        /\ ledger[w].out = 0 => books[w].sale # "POSTED"
    <3>1. ledger[w].out = 0 => books[w].sale # "POSTED"
      BY <1>1 DEF OrderInv
    <3>2. ReverseSalesInvoice(books[w]).sale # "POSTED"
      BY <1>1 DEF ReverseSalesInvoice, Books
    <3> QED
      BY <3>1, <3>2
  <2>4. /\ ledger'[w].void = ledger'[w].out /\ books'[w].sale # "POSTED"
        /\ ledger'[w].out = ledger[w].out
    <3>1. CASE ledger'[w] = ledger[w] /\ ledger[w].out = 0
      BY <1>10, <2>2, <2>3, <3>1 DEF CallsOff
    <3>2. CASE /\ ledger'[w] = [ledger[w] EXCEPT !.void = @ + ledger[w].out]
               /\ books'[w] = ReverseSalesInvoice(books[w])
      BY <1>1, <1>2, <2>2, <2>3, <3>2 DEF LedgerSums
    <3> QED
      BY <1>2, <1>10, <2>2, <3>1, <3>2 DEF CallsOff, AlreadyReversed
  <2>5. w \in accepted' => inv'[w].ship = 0
    BY <1>1, <1>4, <2>1 DEF SerialInv
  <2> QED
    BY <1>1, <2>1, <2>4, <2>5 DEF SerialInv, Matches
<1>11. CASE Credits(w)
  <2>1. PICK units \in Nat :
          /\ inv[w].ful = "DELIVERED" /\ inv'[w] = Credited(inv[w], units)
          /\ ledger'[w] = ledger[w]
    BY <1>11 DEF Credits
  <2>2. inv[w].status # "VOID"
    BY <1>1, <2>1 DEF SerialInv
  <2>3. /\ inv'[w].paid = inv[w].paid /\ inv'[w].qty = inv[w].qty
        /\ inv'[w].ship = inv[w].ship
        /\ inv'[w].returned = inv[w].returned + units
        /\ inv'[w].status \in {inv[w].status, "RETURNED"}
    <3>1. inv[w] \in Invoice /\ inv'[w] = Credited(inv[w], units)
      BY <1>1, <2>1
    <3> QED
      BY <3>1, CreditedRow, Zenon
  <2>4. Outstanding(w) = 0 => Outstanding(w)' = 0
    <3>1. inv[w].qty + inv[w].ship <= inv[w].paid + inv[w].returned =>
            inv'[w].qty + inv'[w].ship <= inv'[w].paid + inv'[w].returned
      BY <1>2, <2>3
    <3> QED
      BY <1>1, <1>5, <3>1, NothingOwed
  <2>5. Matches(w)'
    BY <1>1, <2>3, <2>4 DEF SerialInv, Matches
  <2>6. inv'[w].status # "VOID"
    BY <2>2, <2>3
  <2>7. SerialInv(w)'
    BY <1>3, <2>1, <2>2, <2>3, <2>5, <2>6, NotCalledOff
  <2> QED
    BY <2>2, <2>7
<1>12. CASE Ships(w)
  <2>1. PICK c \in Clerks :
          clerk[c].order = w /\ (WriteShipping(c) \/ HandoverWrites(c))
    BY <1>12 DEF Ships
  <2> DEFINE k == clerk[c]
  <2>2. Busy(c) /\ k \in ClerkState
    BY <1>1, <2>1, StepsAreBusy DEF ClerkStep, TypeOK
  <2>3. /\ inv[w].status # "VOID"
        /\ inv[w].status = "PAID" /\ k.newShip # NoCost =>
             k.newShip = inv[w].ship
        /\ k.pc = "fulfil" => resv[w].status = "ACTIVE"
    BY <2>1, <2>2 DEF SInv, Held
  <2>4. accepted' = {}
    BY <2>1, <2>2 DEF SInv, OneCall, WriteShipping, HandoverWrites
  <2>5. inv'[w] = ShippingInvoice(inv[w], k)
    BY <1>1, <2>1 DEF WriteShipping, HandoverWrites, TypeOK
  <2>6. /\ inv'[w].paid = inv[w].paid /\ inv'[w].returned = inv[w].returned
        /\ inv'[w].qty = inv[w].qty /\ inv'[w].status = inv[w].status
        /\ inv[w].status = "PAID" => inv'[w].ship = inv[w].ship
    <3> HIDE DEF k
    <3>1. /\ inv'[w].paid = inv[w].paid /\ inv'[w].returned = inv[w].returned
          /\ inv'[w].qty = inv[w].qty /\ inv'[w].status = inv[w].status
      BY <1>1, <2>2, <2>5, ShippingRow
    <3>2. inv'[w].ship = IF k.newShip = NoCost THEN inv[w].ship
                                               ELSE k.newShip
      BY <1>1, <2>5 DEF ShippingInvoice, Invoice
    <3> QED
      BY <2>3, <3>1, <3>2
  <2>7. Matches(w)'
    <3>1. inv[w].status = "PAID" /\ Outstanding(w) = 0 => Outstanding(w)' = 0
      BY <1>1, <1>5, <2>6, NothingOwed
    <3> QED
      BY <1>1, <2>6, <3>1 DEF SerialInv, Matches
  <2>8. ledger[w].void = 0
    BY <1>1, <1>2, <2>3 DEF SerialInv, AlreadyReversed
  <2>9. ledger'[w].void = 0 /\ ledger'[w].out <= inv[w].qty
    <3>1. CASE WriteShipping(c)
      BY <1>1, <2>8, <3>1 DEF WriteShipping, SerialInv
    <3>2. CASE HandoverWrites(c)
      <4>1. ledger'[w] = [ledger[w] EXCEPT !.out = @ + inv[w].qty]
        BY <1>1, <2>1, <3>2 DEF HandoverWrites, TypeOK
      <4>2. ledger[w].out = 0
        BY <1>1, <1>2, <2>3, <3>2 DEF HandoverWrites, OrderInv
      <4> QED
        BY <1>1, <1>2, <2>8, <4>1, <4>2 DEF LedgerSums
    <3> QED
      BY <2>1, <3>1, <3>2
  <2> QED
    BY <2>3, <2>4, <2>6, <2>7, <2>9 DEF SerialInv, AlreadyReversed
<1> QED
  BY <1>3, <1>6, <1>7, <1>8, <1>9, <1>10, <1>11, <1>12 DEF MoneyStep


\* No order, no goods.
LEMMA InitSerial == Init => SInv
<1> SUFFICES ASSUME Init PROVE SInv
  OBVIOUS
<1>1. MInv
  BY InitMoney
<1>2. OneCall /\ \A c \in Clerks : Held(c)
  BY DEF Init, Idle, OneCall, Held, Busy
<1>3. \A o \in Orders : SerialInv(o)
  BY DEF Init, NoInvoice, NewInvoice, SerialInv, AlreadyReversed, Matches
<1> QED
  BY <1>1, <1>2, <1>3 DEF SInv

\* Every step keeps the invariant.
LEMMA NextSerial == SInv /\ [SerialStep]_vars => SInv'
<1> SUFFICES ASSUME SInv, [SerialStep]_vars
             PROVE  SInv'
  OBVIOUS
<1>1. IInv /\ OneCall /\ \A c \in Clerks : Held(c)
  BY DEF SInv, MInv
<1>2. OneCall' /\ \A c \in Clerks : Held(c)'
  BY <1>1, NextCall
<1>3. MInv'
  BY <1>1, SerialSteps, NextMoney DEF SInv
<1>4. \A o \in Orders : SerialInv(o)'
  BY SerialMoney
<1> QED
  BY <1>2, <1>3, <1>4 DEF SInv

\* While calls do not overlap, SInv holds.
LEMMA SerialInductive == SerialSpec => []SInv
BY InitSerial, NextSerial, PTL DEF SerialSpec

\* The goods of an order leave the shelf once, whatever its fulfillment
\* status is set back to afterwards.
THEOREM GoodsAlwaysLeaveOnce == SerialSpec => []GoodsLeaveOnce
<1>1. SInv => GoodsLeaveOnce
  BY DEF SInv, SerialInv, GoodsLeaveOnce
<1> QED
  BY <1>1, SerialInductive, PTL

\* A void order has its goods back and its sale journal mirrored, whoever
\* voided it.
THEOREM VoidAlwaysReversed == SerialSpec => []VoidIsReversed
<1>1. SInv => VoidIsReversed
  BY DEF SInv, SerialInv, VoidIsReversed
<1> QED
  BY <1>1, SerialInductive, PTL

\* Status and money of an invoice agree, through payments and their voids,
\* returns and changed shipping costs.
THEOREM StatusAlwaysMatches == SerialSpec => []StatusMatchesPaid
<1>1. SInv => StatusMatchesPaid
  BY DEF SInv, SerialInv, Matches, StatusMatchesPaid
<1> QED
  BY <1>1, SerialInductive, PTL

\* Nothing reopens a void order.
THEOREM VoidStaysFinal == SerialSpec => VoidIsFinal
<1>1. SInv /\ [SerialStep]_vars =>
        [\A o \in Orders : inv[o].status = "VOID" =>
                             inv'[o].status = "VOID"]_vars
  BY SerialMoney
<1> QED
  BY <1>1, SerialInductive, PTL DEF SerialSpec, VoidIsFinal
-----------------------------------------------------------------------------
(* Promised stock. *)

\* What is promised to one order.
Promise(o) == IF resv[o].status = "ACTIVE" THEN resv[o].qty ELSE 0

\* A reservation that is no longer active and that production may yet extend
\* is empty.
TaskHeld(o) == HasOpenTask(o) => resv[o].status = "ACTIVE" \/ resv[o].qty = 0

Shelved == PromisedStockOnHand /\ \A o \in Orders : TaskHeld(o)

\* Promises and their sum are quantities.
LEMMA PromiseTypes ==
  ASSUME TypeOK
  PROVE  /\ [o \in Orders |-> Promise(o)] \in [Orders -> Nat]
         /\ Reserved = Total([o \in Orders |-> Promise(o)])
         /\ Promised = [o \in Orders |-> Promise(o)]
         /\ Reserved \in Nat
         /\ \A o \in Orders : Promise(o) \in Nat
<1>1. \A o \in Orders : Promise(o) \in Nat
  BY RowTypes DEF Promise
<1>2. [o \in Orders |-> Promise(o)] \in [Orders -> Nat]
  BY <1>1
<1>3. /\ Promised = [o \in Orders |-> Promise(o)]
      /\ Reserved = Total([o \in Orders |-> Promise(o)])
  BY DEF Reserved, Promised, Promise
<1> QED
  BY <1>1, <1>2, <1>3, TotalType, OrdersAssumption

\* The same of the state after a step.
LEMMA NewPromiseTypes ==
  ASSUME TypeOK'
  PROVE  /\ [o \in Orders |-> Promise(o)'] \in [Orders -> Nat]
         /\ Reserved' = Total([o \in Orders |-> Promise(o)'])
         /\ Promised' = [o \in Orders |-> Promise(o)']
         /\ Reserved' \in Nat
         /\ \A o \in Orders : Promise(o)' \in Nat
<1>1. \A o \in Orders : Promise(o)' \in Nat
  BY DEF Promise, TypeOK, Reservation
<1>2. [o \in Orders |-> Promise(o)'] \in [Orders -> Nat]
  BY <1>1
<1>3. /\ Promised' = [o \in Orders |-> Promise(o)']
      /\ Reserved' = Total([o \in Orders |-> Promise(o)'])
  BY DEF Reserved, Promised, Promise
<1> QED
  BY <1>1, <1>2, <1>3, TotalType, OrdersAssumption

\* When one promise changes, the sum changes by as much.
LEMMA OnePromise ==
  ASSUME TypeOK, TypeOK', NEW o \in Orders,
         \A w \in Orders : w # o => resv'[w] = resv[w]
  PROVE  /\ Reserved' + Promise(o) = Reserved + Promise(o)'
         /\ Promise(o) <= Reserved
<1> DEFINE p == [w \in Orders |-> Promise(w)]
           q == [w \in Orders |-> Promise(w)']
<1>1. p \in [Orders -> Nat] /\ q \in [Orders -> Nat]
  BY PromiseTypes, NewPromiseTypes
<1>2. Reserved = Total(p) /\ Reserved' = Total(q)
  BY PromiseTypes, NewPromiseTypes
<1>3. \A w \in Orders : w # o => q[w] = p[w]
  BY DEF Promise
<1>4. p[o] = Promise(o) /\ q[o] = Promise(o)'
  OBVIOUS
<1> HIDE DEF p, q
<1>5. Total(q) + p[o] = Total(p) + q[o] /\ p[o] <= Total(p)
  BY <1>1, <1>3, OrdersAssumption, TotalChange
<1> QED
  BY <1>2, <1>4, <1>5

\* Stock that at most comes in leaves the promises covered.
LEMMA StockStays ==
  ASSUME TypeOK, TypeOK', Shelved, UNCHANGED <<resv, task>>,
         stock + otherOut <= stock' + otherOut'
  PROVE  Shelved'
<1>1. Reserved' = Reserved /\ Reserved \in Nat
  BY PromiseTypes DEF Reserved, Promised
<1>2. /\ stock \in Nat /\ otherOut \in Nat
      /\ stock' \in Nat /\ otherOut' \in Nat
  BY DEF TypeOK
<1>3. PromisedStockOnHand'
  <2>1. Reserved <= stock + otherOut
    BY DEF Shelved, PromisedStockOnHand
  <2> DEFINE m == stock + otherOut
             n == stock' + otherOut'
  <2>2. m \in Int /\ n \in Int
    BY <1>2
  <2>3. m <= n
    OBVIOUS
  <2>4. Reserved' <= m
    BY <1>1, <2>1
  <2> HIDE DEF m, n
  <2>5. Reserved' <= n
    BY <1>1, <2>2, <2>3, <2>4
  <2> QED
    BY <2>5 DEF PromisedStockOnHand, n
<1>4. \A o \in Orders : TaskHeld(o)'
  BY DEF Shelved, TaskHeld, HasOpenTask
<1> QED
  BY <1>3, <1>4 DEF Shelved

\* Stock that is promised was available.
LEMMA WithinAvailable ==
  ASSUME TypeOK, NEW n \in Nat, n > 0, n <= Available
  PROVE  Reserved + n <= stock
<1> DEFINE free == stock - Reserved
<1>1. stock \in Nat /\ Reserved \in Nat
  BY PromiseTypes DEF TypeOK
<1>2. free \in Int /\ Available = Max({0, free})
  BY <1>1 DEF Available
<1> HIDE DEF free
<1>3. Max({0, free}) = IF 0 >= free THEN 0 ELSE free
  BY <1>2, MaxOfTwo
<1>4. n <= free
  BY <1>2, <1>3
<1> QED
  BY <1>1, <1>4 DEF free

\* Orders are promised what is available and sold over the counter from it.
LEMMA PlacingShelved ==
  ASSUME IInv, TypeOK', Shelved, Placing
  PROVE  Shelved'
<1>1. TypeOK
  BY DEF IInv, TypeInv
<1>2. PICK o \in Orders, q \in Qtys :
        \/ WalkInSale(o, q)
        \/ \E kind \in Kinds, paidNow \in BOOLEAN :
             CreateInvoice(o, q, kind, paidNow)
        \/ \E kind \in Kinds : Checkout(o, q, kind)
  BY DEF Placing
<1>3. q \in Nat /\ q > 0
  BY BoundsAssumption DEF Qtys
<1>4. /\ stock \in Nat /\ otherOut \in Nat /\ Reserved \in Nat
      /\ stock' \in Nat
  BY <1>1, PromiseTypes DEF TypeOK
<1>5. CASE WalkInSale(o, q)
  <2>1. /\ q <= Available /\ stock' = stock - q
        /\ UNCHANGED <<otherOut, resv, task>>
    BY <1>5 DEF WalkInSale
  <2>2. Reserved + q <= stock
    BY <1>1, <1>3, <2>1, WithinAvailable
  <2>3. Reserved' = Reserved
    BY <2>1 DEF Reserved, Promised
  <2>4. PromisedStockOnHand'
    BY <1>3, <1>4, <2>1, <2>2, <2>3 DEF PromisedStockOnHand
  <2>5. \A w \in Orders : TaskHeld(w)'
    BY <2>1 DEF Shelved, TaskHeld, HasOpenTask
  <2> QED
    BY <2>4, <2>5 DEF Shelved
<1>6. CASE ~WalkInSale(o, q)
  <2>1. /\ inv[o].status = "NONE" /\ ReserveInvoiceStock(o, q)
        /\ UNCHANGED <<stock, otherOut>>
    BY <1>2, <1>6 DEF CreateInvoice, Checkout
  <2>2. Blank(o)
    BY <2>1 DEF IInv, OrderInv
  <2>3. PICK got \in 0 .. q :
          /\ got = Min({q, Available})
          /\ resv' = [resv EXCEPT ![o] =
               IF got > 0 THEN [status |-> "ACTIVE", qty |-> got] ELSE @]
          /\ task' = [task EXCEPT ![o] =
               IF got < q THEN NewTask(q, got) ELSE @]
    BY <2>1 DEF ReserveInvoiceStock
  <2>4. \A w \in Orders : w # o => resv'[w] = resv[w] /\ task'[w] = task[w]
    BY <1>1, <2>3 DEF TypeOK
  <2>5. resv'[o] = IF got > 0 THEN [status |-> "ACTIVE", qty |-> got]
                              ELSE resv[o]
    BY <1>1, <2>3 DEF TypeOK
  <2>6. Promise(o) = 0 /\ Promise(o)' = got
    BY <2>2, <2>3, <2>5 DEF Promise, Blank
  <2>7. Reserved' = Reserved + got
    BY <1>1, <1>4, <2>3, <2>4, <2>6, OnePromise, NewPromiseTypes
  <2>8. got > 0 => Reserved + got <= stock
    <3>1. Available \in Int
      <4>1. stock - Reserved \in Int
        BY <1>4
      <4> QED
        BY <4>1, MaxOfTwo DEF Available
    <3>2. got <= Available
      BY <1>3, <2>3, <3>1, MinOfTwo
    <3> QED
      BY <1>1, <2>3, <3>2, WithinAvailable
  <2>9. PromisedStockOnHand'
    BY <1>4, <2>1, <2>3, <2>7, <2>8 DEF Shelved, PromisedStockOnHand
  <2>10. ASSUME NEW w \in Orders
         PROVE  TaskHeld(w)'
    <3>1. CASE w = o
      BY <2>2, <2>3, <2>5, <3>1 DEF TaskHeld, Blank
    <3>2. CASE w # o
      BY <2>4, <3>2 DEF Shelved, TaskHeld, HasOpenTask
    <3> QED
      BY <3>1, <3>2
  <2> QED
    BY <2>9, <2>10 DEF Shelved
<1> QED
  BY <1>5, <1>6

\* Orders called off give back what they were promised and what left.
LEMMA CallingOffShelved ==
  ASSUME IInv, TypeOK', Shelved, NEW o \in Orders,
         VoidInvoice(o) \/ ExpireSubmission(o) \/ ExpireOrder(o)
           \/ WebhookFailure(o)
  PROVE  Shelved'
<1>1. TypeOK
  BY DEF IInv, TypeInv
<1>2. /\ stock \in Nat /\ otherOut \in Nat /\ Reserved \in Nat
      /\ stock' \in Nat /\ ledger[o].out \in Nat
  BY <1>1, PromiseTypes, RowTypes DEF TypeOK
<1>3. /\ otherOut' = otherOut
      /\ stock' = stock \/ stock' = stock + ledger[o].out
  BY DEF VoidInvoice, ExpireSubmission, ExpireOrder, WebhookFailure,
         ReverseSaleEntries
<1>4. PICK back \in Nat : stock' = stock + back
  <2>1. CASE stock' = stock
    <3>1. 0 \in Nat /\ stock' = stock + 0
      BY <1>2, <2>1
    <3> QED
      BY <3>1, Zenon
  <2>2. CASE stock' = stock + ledger[o].out
    BY <1>2, <2>2, Zenon
  <2> QED
    BY <1>3, <2>1, <2>2
<1>5. otherOut' = otherOut
  BY <1>3
<1>6. \/ UNCHANGED <<resv, task>>
      \/ \E to \in {"RELEASED", "EXPIRED"} : ReleaseReservation(o, to)
  BY DEF VoidInvoice, ExpireSubmission, ExpireOrder, WebhookFailure
<1>7. CASE UNCHANGED <<resv, task>>
  <2>1. stock + otherOut <= (stock + back) + otherOut
    BY <1>2
  <2>2. stock + otherOut <= stock' + otherOut'
    BY <1>4, <1>5, <2>1
  <2> QED
    BY <1>1, <1>7, <2>2, StockStays
<1>8. ASSUME NEW to \in {"RELEASED", "EXPIRED"}, ReleaseReservation(o, to)
      PROVE  Shelved'
  <2>1. \A w \in Orders : w # o => resv'[w] = resv[w] /\ task'[w] = task[w]
    BY <1>1, <1>8 DEF ReleaseReservation, TypeOK
  <2>2. resv'[o].status # "ACTIVE" /\ ~HasOpenTask(o)'
    BY <1>1, <1>8 DEF ReleaseReservation, HasOpenTask, TypeOK, Reservation,
                      Task
  <2>3. Promise(o)' = 0 /\ Promise(o) \in Nat
    BY <1>1, <2>2, PromiseTypes DEF Promise
  <2>4. Reserved' <= Reserved /\ Reserved' \in Nat
    BY <1>1, <1>2, <2>1, <2>3, OnePromise, NewPromiseTypes
  <2>5. PromisedStockOnHand'
    <3>1. Reserved <= stock + otherOut
      BY DEF Shelved, PromisedStockOnHand
    <3>2. Reserved' <= (stock + back) + otherOut
      BY <1>2, <2>4, <3>1
    <3> QED
      BY <1>4, <1>5, <3>2 DEF PromisedStockOnHand
  <2>6. \A w \in Orders : TaskHeld(w)'
    BY <2>1, <2>2 DEF Shelved, TaskHeld, HasOpenTask
  <2> QED
    BY <2>5, <2>6 DEF Shelved
<1> QED
  BY <1>6, <1>7, <1>8

\* Production promises to waiting orders at most what is not promised yet.
LEMMA ProduceShelved ==
  ASSUME IInv, TypeOK', Shelved, NEW units \in Nat, Produce(units)
  PROVE  Shelved'
<1> DEFINE free == stock + units - Reserved
           available == Max({0, free})
<1>1. TypeOK
  BY DEF IInv, TypeInv
<1>2. PICK alloc \in [Orders -> 0 .. MaxQty] :
        /\ IsFifoAllocation(alloc, available)
        /\ resv' = [o \in Orders |->
             IF alloc[o] > 0 THEN [status |-> "ACTIVE",
                                   qty |-> resv[o].qty + alloc[o]]
                             ELSE resv[o]]
        /\ task' = [o \in Orders |->
             [status |->
                IF alloc[o] > 0 /\ alloc[o] = task[o].shortage
                THEN "COMPLETED"
                ELSE IF IsDead(o) /\ IsReached(o, alloc, available)
                THEN "CANCELLED"
                ELSE task[o].status,
              shortage |-> task[o].shortage - alloc[o]]]
  BY DEF Produce
<1>3. stock' = stock + units /\ UNCHANGED otherOut
  BY DEF Produce
<1>4. /\ stock \in Nat /\ otherOut \in Nat /\ Reserved \in Nat
      /\ Reserved' \in Nat
  BY <1>1, PromiseTypes, NewPromiseTypes DEF TypeOK
<1>5. free \in Int
  BY <1>4
<1> HIDE DEF free, available
<1>6. \A o \in Orders : alloc[o] \in Nat
  BY BoundsAssumption
<1>7. \A o \in Orders : alloc[o] > 0 => HasOpenTask(o)
  BY <1>1, <1>2, AllocationBounds
<1>8. \A o \in Orders : Promise(o)' = Promise(o) + alloc[o]
  <2> SUFFICES ASSUME NEW o \in Orders
               PROVE  Promise(o)' = Promise(o) + alloc[o]
    OBVIOUS
  <2>1. alloc[o] \in Nat /\ resv[o].qty \in Nat /\ Promise(o) \in Nat
    BY <1>1, <1>6, RowTypes, PromiseTypes
  <2>2. CASE alloc[o] > 0
    <3>1. Promise(o) = resv[o].qty
      BY <1>7, <2>2 DEF Shelved, TaskHeld, Promise
    <3>2. Promise(o)' = resv[o].qty + alloc[o]
      BY <1>2, <2>2 DEF Promise
    <3> QED
      BY <3>1, <3>2
  <2>3. CASE ~(alloc[o] > 0)
    <3>1. Promise(o)' = Promise(o)
      BY <1>2, <2>3 DEF Promise
    <3> QED
      BY <2>1, <2>3, <3>1
  <2> QED
    BY <2>2, <2>3
<1>9. Reserved' = Reserved + Total(alloc) /\ Total(alloc) \in Nat
  <2> DEFINE p == [o \in Orders |-> Promise(o)]
             q == [o \in Orders |-> Promise(o)']
  <2>1. /\ p \in [Orders -> Nat] /\ q \in [Orders -> Nat]
        /\ Reserved = Total(p) /\ Reserved' = Total(q)
    BY <1>1, PromiseTypes, NewPromiseTypes
  <2>2. alloc \in [Orders -> Nat]
    BY <1>6
  <2>3. \A o \in Orders : q[o] = p[o] + alloc[o]
    BY <1>8
  <2> HIDE DEF p, q
  <2>4. Total(q) = Total(p) + Total(alloc)
    BY <2>1, <2>2, <2>3, OrdersAssumption, TotalAdd
  <2>5. Total(alloc) \in Nat
    BY <2>2, OrdersAssumption, TotalType
  <2> QED
    BY <2>1, <2>4, <2>5
<1>10. Total(alloc) <= (IF 0 >= free THEN 0 ELSE free)
  <2>1. Total(alloc) <= available
    BY <1>2 DEF IsFifoAllocation
  <2>2. available = IF 0 >= free THEN 0 ELSE free
    BY <1>5, MaxOfTwo DEF available
  <2> QED
    BY <2>1, <2>2
<1>11. PromisedStockOnHand'
  <2>1. Reserved <= stock + otherOut
    BY DEF Shelved, PromisedStockOnHand
  <2>2. CASE 0 >= free
    BY <1>3, <1>4, <1>9, <1>10, <2>1, <2>2 DEF PromisedStockOnHand
  <2>3. CASE ~(0 >= free)
    <3>1. Total(alloc) <= stock + units - Reserved
      BY <1>10, <2>3 DEF free
    <3> QED
      BY <1>3, <1>4, <1>9, <3>1 DEF PromisedStockOnHand
  <2> QED
    BY <2>2, <2>3
<1>12. ASSUME NEW o \in Orders
       PROVE  TaskHeld(o)'
  <2>1. CASE alloc[o] > 0
    BY <1>2, <2>1 DEF TaskHeld
  <2>2. CASE ~(alloc[o] > 0)
    <3>1. resv'[o] = resv[o] /\ (HasOpenTask(o)' => HasOpenTask(o))
      BY <1>2, <2>2 DEF HasOpenTask
    <3> QED
      BY <3>1 DEF Shelved, TaskHeld
  <2> QED
    BY <2>1, <2>2
<1> QED
  BY <1>11, <1>12 DEF Shelved

\* What adjustments and samples take is counted, what is returned is shelved.
LEMMA MovingShelved ==
  ASSUME IInv, TypeOK', Shelved, Moving
  PROVE  Shelved'
<1>1. TypeOK /\ \A units \in Qtys : units \in Nat
  BY BoundsAssumption DEF IInv, TypeInv, Qtys
<1>2. stock \in Nat /\ otherOut \in Nat
  BY <1>1 DEF TypeOK
<1>3. ASSUME NEW units \in Nat, OtherOut(units)
      PROVE  Shelved'
  <2>1. /\ stock' = stock - units /\ otherOut' = otherOut + units
        /\ UNCHANGED <<resv, task>>
    BY <1>3 DEF OtherOut
  <2>2. stock + otherOut <= stock' + otherOut'
    BY <1>2, <2>1
  <2> QED
    BY <1>1, <2>1, <2>2, StockStays
<1>4. ASSUME NEW units \in Nat, NEW o \in Orders, CreateCreditNote(o, units)
      PROVE  Shelved'
  <2>1. /\ stock' = stock + units /\ UNCHANGED <<otherOut, resv, task>>
    BY <1>4 DEF CreateCreditNote
  <2>2. stock + otherOut <= stock' + otherOut'
    BY <1>2, <2>1
  <2> QED
    BY <1>1, <2>1, <2>2, StockStays
<1> QED
  BY <1>1, <1>3, <1>4, ProduceShelved DEF Moving

\* A hand-over takes no more than the promise it uses up.
LEMMA HandoverShelved ==
  ASSUME SInv, TypeOK', Shelved, NEW c \in Clerks, HandoverWrites(c)
  PROVE  Shelved'
<1>1. TypeOK /\ ClerkHasOrder /\ Held(c) /\ clerk[c].pc = "fulfil"
  BY DEF SInv, MInv, IInv, TypeInv, HandoverWrites
<1>2. PICK o \in Orders :
        /\ o = clerk[c].order
        /\ resv[o].status = "ACTIVE" /\ inv[o].qty <= resv[o].qty
  BY <1>1 DEF Held, Busy, ClerkHasOrder
<1>3. /\ stock' = stock - inv[o].qty /\ UNCHANGED otherOut
      /\ resv' = [resv EXCEPT ![o] = Consumed(@)]
      /\ task' = [task EXCEPT ![o].status =
                    IF @ = "OPEN" THEN "COMPLETED" ELSE @]
  BY <1>2 DEF HandoverWrites
<1>4. /\ stock \in Nat /\ otherOut \in Nat /\ inv[o].qty \in Nat
      /\ resv[o] \in Reservation /\ resv[o].qty \in Nat
      /\ task[o] \in Task
      /\ Reserved \in Nat /\ Reserved' \in Nat
  BY <1>1, <1>2, RowTypes, PromiseTypes, NewPromiseTypes DEF TypeOK
<1>5. \A w \in Orders : w # o => resv'[w] = resv[w] /\ task'[w] = task[w]
  BY <1>1, <1>3 DEF TypeOK
<1>6. resv'[o].status = "CONSUMED"
  BY <1>1, <1>2, <1>3, <1>4 DEF TypeOK, Consumed, Reservation
<1>7. ~HasOpenTask(o)'
  BY <1>1, <1>2, <1>3, <1>4 DEF TypeOK, HasOpenTask, Task
<1>8. Promise(o) = resv[o].qty /\ Promise(o)' = 0
  BY <1>2, <1>6 DEF Promise
<1>9. Reserved' + resv[o].qty = Reserved
  BY <1>1, <1>2, <1>4, <1>5, <1>8, OnePromise
<1>10. PromisedStockOnHand'
  <2>1. Reserved <= stock + otherOut
    BY DEF Shelved, PromisedStockOnHand
  <2> QED
    BY <1>2, <1>3, <1>4, <1>9, <2>1 DEF PromisedStockOnHand
<1>11. \A w \in Orders : TaskHeld(w)'
  BY <1>5, <1>7 DEF Shelved, TaskHeld, HasOpenTask
<1> QED
  BY <1>10, <1>11 DEF Shelved

\* Every other step leaves stock and promises alone.
LEMMA StockWaits ==
  ASSUME [Next]_vars, ~Placing, ~Cancelling, ~Moving,
         ~ \E o \in Orders : \/ ExpireSubmission(o) \/ ExpireOrder(o)
                             \/ WebhookFailure(o),
         ~ \E c \in Clerks : HandoverWrites(c)
  PROVE  UNCHANGED <<stock, otherOut, resv, task>>
<1> DEFINE Same == UNCHANGED <<stock, otherOut, resv, task>>
<1>1. Paying => Same
  <2>1. \A o, amount : RecordPayment(o, amount) => Same
    BY DEF RecordPayment
  <2>2. \A o, amount : VerifySubmission(o, amount) => Same
    BY DEF VerifySubmission
  <2>3. \A o, i : VoidPayment(o, i) => Same
    BY DEF VoidPayment
  <2>4. \A o, more : WriteProof(o, more) => Same
    BY DEF WriteProof
  <2>5. \A o : ReadSubmission(o) \/ SubmitProofLate(o) \/ RejectSubmission(o)
                => Same
    BY DEF ReadSubmission, SubmitProofLate, RejectSubmission
  <2> HIDE DEF Same
  <2> QED
    BY <2>1, <2>2, <2>3, <2>4, <2>5 DEF Paying
<1>2. PickExpiredOrders \/ Deadlines => Same
  BY DEF PickExpiredOrders, Deadlines, ReservationDeadline,
         SubmissionDeadline
<1>3. Requesting => Same
  BY DEF Requesting, ReadForShipping
<1>4. \A c \in Clerks :
        WriteShipping(c) \/ HandoverReads(c) \/ ShippingFails(c) => Same
  BY DEF WriteShipping, HandoverReads, ShippingFails
<1>5. \A o \in Orders :
        \/ WebhookSettlement(o) \/ WebhookIgnored(o) \/ WebhookAccept(o)
        => Same
  BY DEF WebhookSettlement, WebhookIgnored, WebhookAccept
<1>6. UNCHANGED vars => Same
  BY DEF vars
<1> HIDE DEF Same
<1>7. Same
  BY <1>1, <1>2, <1>3, <1>4, <1>5, <1>6 DEF Next, Cron, Shipping, ClerkStep,
                                           Webhook
<1> QED
  BY <1>7 DEF Same

\* Every step keeps what is promised on the shelf.
LEMMA NextShelved ==
  ASSUME SInv, Shelved, [SerialStep]_vars
  PROVE  Shelved'
<1>1. IInv /\ TypeOK /\ [Next]_vars
  BY SerialSteps DEF SInv, MInv, IInv, TypeInv
<1>2. TypeOK'
  BY <1>1, NextTypes DEF IInv, TypeInv
<1>3. CASE Placing
  BY <1>1, <1>2, <1>3, PlacingShelved
<1>4. CASE \/ Cancelling
           \/ \E o \in Orders : \/ ExpireSubmission(o) \/ ExpireOrder(o)
                                \/ WebhookFailure(o)
  BY <1>1, <1>2, <1>4, CallingOffShelved DEF Cancelling
<1>5. CASE Moving
  BY <1>1, <1>2, <1>5, MovingShelved
<1>6. CASE \E c \in Clerks : HandoverWrites(c)
  BY <1>2, <1>6, HandoverShelved
<1>7. CASE UNCHANGED <<stock, otherOut, resv, task>>
  <2>1. stock \in Nat /\ otherOut \in Nat
    BY <1>1 DEF TypeOK
  <2>2. stock + otherOut <= stock' + otherOut'
    BY <1>7, <2>1
  <2> QED
    BY <1>1, <1>2, <1>7, <2>2, StockStays
<1> QED
  BY <1>1, <1>3, <1>4, <1>5, <1>6, <1>7, StockWaits

\* Before the first order nothing is promised and everything covers it.
LEMMA InitShelved == Init => Shelved
<1> SUFFICES ASSUME Init PROVE Shelved
  OBVIOUS
<1>1. TypeOK
  BY InitTypes DEF TypeInv
<1>2. \A o \in Orders : Promise(o) = 0 /\ TaskHeld(o)
  BY DEF Init, Promise, TaskHeld, HasOpenTask
<1>3. Reserved = 0
  <2>1. [o \in Orders |-> Promise(o)] \in [Orders -> Nat]
    BY <1>1, PromiseTypes
  <2>2. \A o \in Orders : [w \in Orders |-> Promise(w)][o] = 0
    BY <1>2
  <2> QED
    BY <1>1, <2>1, <2>2, PromiseTypes, TotalZero
<1>4. PromisedStockOnHand
  BY <1>1, <1>3 DEF TypeOK, PromisedStockOnHand
<1> QED
  BY <1>2, <1>4 DEF Shelved

\* What reservations promise is on the shelf, but for what adjustments and
\* samples took, for any number of orders served by the same production.
THEOREM PromisedAlwaysOnHand == SerialSpec => []PromisedStockOnHand
<1>1. Init => Shelved
  BY InitShelved
<1>2. SInv /\ Shelved /\ [SerialStep]_vars => Shelved'
  BY NextShelved
<1>3. Shelved => PromisedStockOnHand
  BY DEF Shelved
<1> QED
  BY <1>1, <1>2, <1>3, SerialInductive, PTL DEF SerialSpec
-----------------------------------------------------------------------------
(* Every call is a step of StockPromise. *)

\* The shelf adds up promises as the orders do.
LEMMA ShelfTotals == \A q : Shelf!Total(q) = Total(q)
<1>1. \A S : Shelf!Cardinality(S) = Cardinality(S)
  BY DEF Shelf!Cardinality, Cardinality
<1> QED
  BY <1>1 DEF Shelf!Total, Shelf!Units, Total, Units

\* The shelf's two figures, as quantities.
LEMMA ShelfTypes ==
  ASSUME TypeOK, TypeOK'
  PROVE  /\ stock + otherOut \in Nat /\ stock' + otherOut' \in Nat
         /\ Promised \in [Orders -> Nat] /\ Promised' \in [Orders -> Nat]
         /\ \A o \in Orders : Promised[o] = Promise(o)
         /\ \A o \in Orders : Promised'[o] = Promise(o)'
         /\ Shelf!Total(Promised) = Reserved
         /\ Shelf!Total(Promised') = Reserved'
<1>1. stock + otherOut \in Nat /\ stock' + otherOut' \in Nat
  <2>1. /\ stock \in Nat /\ otherOut \in Nat
        /\ stock' \in Nat /\ otherOut' \in Nat
    BY DEF TypeOK
  <2>2. \A m, n \in Nat : m + n \in Nat
    OBVIOUS
  <2> QED
    BY ONLY <2>1, <2>2
<1>2. /\ Promised = [o \in Orders |-> Promise(o)]
      /\ Promised \in [Orders -> Nat] /\ Reserved = Total(Promised)
  BY PromiseTypes
<1>3. /\ Promised' = [o \in Orders |-> Promise(o)']
      /\ Promised' \in [Orders -> Nat] /\ Reserved' = Total(Promised')
  BY NewPromiseTypes
<1> QED
  BY <1>1, <1>2, <1>3, ShelfTotals

\* A step that changes one promise.
LEMMA ShelfExcept ==
  ASSUME TypeOK, TypeOK', NEW o \in Orders,
         \A w \in Orders : w # o => resv'[w] = resv[w]
  PROVE  Promised' = [Promised EXCEPT ![o] = Promise(o)']
<1>1. \A w \in Orders : w # o => Promise(w)' = Promise(w)
  BY DEF Promise
<1>2. /\ Promised = [w \in Orders |-> Promise(w)]
      /\ Promised' = [w \in Orders |-> Promise(w)']
  BY PromiseTypes, NewPromiseTypes
<1> QED
  BY <1>1, <1>2

\* Units come in and nobody loses a promise.
LEMMA ShelfSupplies ==
  ASSUME TypeOK, TypeOK', Shelved',
         stock + otherOut <= stock' + otherOut',
         \A w \in Orders : Promise(w) <= Promise(w)'
  PROVE  Shelf!Supply
<1>1. Reserved' <= stock' + otherOut'
  BY DEF Shelved, PromisedStockOnHand
<1>2. stock' + otherOut' >= stock + otherOut
  BY ShelfTypes
<1>3. \A w \in Orders : Promised'[w] >= Promised[w]
  <2> SUFFICES ASSUME NEW w \in Orders PROVE Promised'[w] >= Promised[w]
    OBVIOUS
  <2>1. Promise(w) \in Nat /\ Promise(w)' \in Nat /\ Promise(w) <= Promise(w)'
    BY PromiseTypes, NewPromiseTypes
  <2> QED
    BY <2>1, ShelfTypes
<1> QED
  BY <1>1, <1>2, <1>3, ShelfTypes DEF Shelf!Supply

\* Promises that stay, on a shelf that does not lose.
LEMMA ShelfRests ==
  ASSUME TypeOK, TypeOK', Shelved', UNCHANGED resv,
         stock + otherOut <= stock' + otherOut'
  PROVE  Shelf!Supply
<1>1. \A w \in Orders : Promise(w) \in Nat /\ Promise(w)' = Promise(w)
  BY PromiseTypes DEF Promise
<1>2. \A w \in Orders : Promise(w) <= Promise(w)'
  BY <1>1
<1> QED
  BY <1>2, ShelfSupplies

\* Placing an order promises it unpromised units, or sells them.
LEMMA PlacingOnShelf ==
  ASSUME IInv, TypeOK', Shelved, Shelved', Placing
  PROVE  Shelf!Next \/ UNCHANGED <<stock + otherOut, Promised>>
<1>1. TypeOK
  BY DEF IInv, TypeInv
<1>2. PICK o \in Orders, q \in Qtys :
        \/ WalkInSale(o, q)
        \/ \E kind \in Kinds, paidNow \in BOOLEAN :
             CreateInvoice(o, q, kind, paidNow)
        \/ \E kind \in Kinds : Checkout(o, q, kind)
  BY DEF Placing
<1>3. q \in Nat /\ q > 0
  BY BoundsAssumption DEF Qtys
<1>4. /\ stock \in Nat /\ otherOut \in Nat /\ Reserved \in Nat
      /\ stock' \in Nat
  BY <1>1, PromiseTypes DEF TypeOK
<1>5. CASE WalkInSale(o, q)
  <2>1. /\ q <= Available /\ stock' = stock - q /\ UNCHANGED <<otherOut, resv>>
    BY <1>5 DEF WalkInSale
  <2>2. Promised' = Promised
    BY <2>1 DEF Promised
  <2>3. Reserved' = Reserved
    BY <2>2 DEF Reserved
  <2>4. Reserved <= stock' + otherOut'
    BY <2>3 DEF Shelved, PromisedStockOnHand
  <2>5. stock' + otherOut' \in 0 .. (stock + otherOut)
    BY <1>3, <1>4, <2>1
  <2>6. Shelf!Sell
    BY <1>1, <2>2, <2>4, <2>5, ShelfTypes DEF Shelf!Sell
  <2> QED
    BY <2>6 DEF Shelf!Next
<1>6. CASE ~WalkInSale(o, q)
  <2>1. /\ inv[o].status = "NONE" /\ ReserveInvoiceStock(o, q)
        /\ UNCHANGED <<stock, otherOut>>
    BY <1>2, <1>6 DEF CreateInvoice, Checkout
  <2>2. Blank(o)
    BY <2>1 DEF IInv, OrderInv
  <2>3. PICK got \in 0 .. q :
          resv' = [resv EXCEPT ![o] =
                     IF got > 0 THEN [status |-> "ACTIVE", qty |-> got] ELSE @]
    BY <2>1 DEF ReserveInvoiceStock
  <2>4. \A w \in Orders : w # o => resv'[w] = resv[w]
    BY <1>1, <2>3 DEF TypeOK
  <2>5. resv'[o] = IF got > 0 THEN [status |-> "ACTIVE", qty |-> got]
                              ELSE resv[o]
    BY <1>1, <2>3 DEF TypeOK
  <2>6. Promise(o) = 0 /\ Promise(o)' = got
    BY <2>2, <2>3, <2>5 DEF Promise, Blank
  <2>7. Promised' = [Promised EXCEPT ![o] = got]
    BY <1>1, <2>4, <2>6, ShelfExcept
  <2>8. CASE got = 0
    <3>1. \A w \in Orders : Promise(w)' = Promise(w)
      BY <2>4, <2>6, <2>8 DEF Promise
    <3>2. Promised' = Promised
      BY <1>1, <3>1, PromiseTypes, NewPromiseTypes
    <3> QED
      BY <2>1, <3>2
  <2>9. CASE got > 0
    <3>1. got \in Nat /\ Reserved' = Reserved + got
      BY <1>1, <1>3, <1>4, <2>4, <2>6, OnePromise, NewPromiseTypes
    <3>2. Reserved + got <= stock + otherOut
      BY <2>1, <3>1 DEF Shelved, PromisedStockOnHand
    <3>3. got \in 1 .. (stock + otherOut)
      BY <1>4, <2>9, <3>1, <3>2
    <3>4. Promised[o] = 0 /\ Shelf!Total(Promised) = Reserved
      BY <1>1, <2>6, ShelfTypes
    <3>5. Shelf!Reserve(o)
      BY <2>1, <2>7, <3>2, <3>3, <3>4 DEF Shelf!Reserve
    <3> QED
      BY <3>5 DEF Shelf!Next
  <2> QED
    BY <1>3, <2>8, <2>9
<1> QED
  BY <1>5, <1>6
\* Production takes no promise back.
LEMMA ProducePromises ==
  ASSUME TypeOK, Shelved, NEW units, Produce(units), NEW o \in Orders
  PROVE  Promise(o) <= Promise(o)'
<1> DEFINE available == Max({0, stock + units - Reserved})
<1> HIDE DEF available
<1>1. PICK alloc \in [Orders -> 0 .. MaxQty] :
        /\ IsFifoAllocation(alloc, available)
        /\ resv' = [w \in Orders |->
             IF alloc[w] > 0 THEN [status |-> "ACTIVE",
                                   qty |-> resv[w].qty + alloc[w]]
                             ELSE resv[w]]
  BY DEF Produce, available
<1>2. /\ alloc[o] \in Nat /\ resv[o].qty \in Nat /\ Promise(o) \in Nat
      /\ alloc[o] > 0 => HasOpenTask(o)
  BY <1>1, AllocationBounds, RowTypes, PromiseTypes
<1>3. CASE alloc[o] > 0
  <2>1. Promise(o) = resv[o].qty
    BY <1>2, <1>3 DEF Shelved, TaskHeld, Promise
  <2>2. Promise(o)' = resv[o].qty + alloc[o]
    BY <1>1, <1>3 DEF Promise
  <2> QED
    BY <1>2, <2>1, <2>2
<1>4. CASE ~(alloc[o] > 0)
  <2>1. Promise(o)' = Promise(o)
    BY <1>1, <1>4 DEF Promise
  <2> QED
    BY <1>2, <2>1
<1> QED
  BY <1>3, <1>4

\* An order called off gives its promise back, or what left comes in again.
LEMMA CallingOffOnShelf ==
  ASSUME IInv, TypeOK', Shelved', NEW o \in Orders,
         VoidInvoice(o) \/ ExpireSubmission(o) \/ ExpireOrder(o)
           \/ WebhookFailure(o)
  PROVE  Shelf!Next
<1>1. TypeOK /\ OrderInv(o)
  BY DEF IInv, TypeInv
<1>2. /\ stock \in Nat /\ otherOut \in Nat /\ ledger[o].out \in Nat
  BY <1>1, RowTypes DEF TypeOK
<1>3. /\ otherOut' = otherOut
      /\ stock' = stock \/ stock' = stock + ledger[o].out
  BY DEF VoidInvoice, ExpireSubmission, ExpireOrder, WebhookFailure,
         ReverseSaleEntries
<1>4. \/ UNCHANGED resv
      \/ \E to \in {"RELEASED", "EXPIRED"} : ReleaseReservation(o, to)
  BY DEF VoidInvoice, ExpireSubmission, ExpireOrder, WebhookFailure
<1>5. CASE UNCHANGED resv
  <2>1. stock + otherOut <= stock' + otherOut'
    <3>1. CASE stock' = stock
      BY <1>2, <1>3, <3>1
    <3>2. CASE stock' = stock + ledger[o].out
      <4> DEFINE out == ledger[o].out
      <4>1. out \in Nat /\ stock' = stock + out
        BY <1>2, <3>2
      <4> HIDE DEF out
      <4>2. stock + otherOut <= (stock + out) + otherOut
        BY <1>2, <4>1
      <4> QED
        BY <1>3, <4>1, <4>2
    <3> QED
      BY <1>3, <3>1, <3>2
  <2>2. Shelf!Supply
    BY <1>1, <1>5, <2>1, ShelfRests
  <2> QED
    BY <2>2 DEF Shelf!Next
<1>6. ASSUME NEW to \in {"RELEASED", "EXPIRED"}, ReleaseReservation(o, to),
             ~UNCHANGED resv
      PROVE  Shelf!Next
  <2>1. \A w \in Orders : w # o => resv'[w] = resv[w]
    BY <1>1, <1>6 DEF ReleaseReservation, TypeOK
  <2>2. resv[o].status = "ACTIVE"
    <3> SUFFICES ASSUME resv[o].status # "ACTIVE"
                 PROVE  UNCHANGED resv
      BY <1>6
    <3>1. resv[o] \in Reservation /\ resv'[o] = resv[o]
      BY <1>1, <1>6, RowTypes DEF ReleaseReservation, TypeOK, Reservation
    <3> QED
      BY <1>1, <1>6, <2>1, <3>1 DEF ReleaseReservation, TypeOK
  <2>3. Promise(o)' = 0
    BY <1>1, <1>6 DEF ReleaseReservation, Promise, TypeOK, Reservation
  <2>4. ledger[o].out = 0
    BY <1>1, <1>2, <2>2 DEF OrderInv
  <2>5. stock' + otherOut' = stock + otherOut
    BY <1>2, <1>3, <2>4
  <2>6. Promised' = [Promised EXCEPT ![o] = 0]
    BY <1>1, <2>1, <2>3, ShelfExcept
  <2>7. Shelf!CallOff(o)
    BY <2>5, <2>6 DEF Shelf!CallOff
  <2> QED
    BY <2>7 DEF Shelf!Next
<1> QED
  BY <1>4, <1>5, <1>6

\* Production supplies waiting orders, returns the shelf; what other flows
\* take stays counted.
LEMMA MovingOnShelf ==
  ASSUME IInv, TypeOK', Shelved, Shelved', Moving
  PROVE  Shelf!Next
<1>1. TypeOK /\ \A units \in Qtys : units \in Nat
  BY BoundsAssumption DEF IInv, TypeInv, Qtys
<1>2. stock \in Nat /\ otherOut \in Nat
  BY <1>1 DEF TypeOK
<1>3. ASSUME NEW units \in Nat, OtherOut(units)
      PROVE  Shelf!Supply
  <2>1. /\ stock' = stock - units /\ otherOut' = otherOut + units
        /\ UNCHANGED resv
    BY <1>3 DEF OtherOut
  <2>2. stock + otherOut <= stock' + otherOut'
    BY <1>2, <2>1
  <2> QED
    BY <1>1, <2>1, <2>2, ShelfRests
<1>4. ASSUME NEW units \in Nat, NEW o \in Orders, CreateCreditNote(o, units)
      PROVE  Shelf!Supply
  <2>1. /\ stock' = stock + units /\ UNCHANGED <<otherOut, resv>>
    BY <1>4 DEF CreateCreditNote
  <2>2. stock + otherOut <= stock' + otherOut'
    BY <1>2, <2>1
  <2> QED
    BY <1>1, <2>1, <2>2, ShelfRests
<1>5. ASSUME NEW units \in Nat, Produce(units)
      PROVE  Shelf!Supply
  <2>1. stock' = stock + units /\ UNCHANGED otherOut
    BY <1>5 DEF Produce
  <2>2. stock + otherOut <= stock' + otherOut'
    BY <1>2, <2>1
  <2>3. \A w \in Orders : Promise(w) <= Promise(w)'
    BY <1>1, <1>5, ProducePromises
  <2> QED
    BY <1>1, <2>2, <2>3, ShelfSupplies
<1> QED
  BY <1>1, <1>3, <1>4, <1>5 DEF Moving, Shelf!Next

\* A hand-over takes what its order was promised, all of it and no more.
LEMMA HandoverOnShelf ==
  ASSUME SInv, TypeOK', NEW c \in Clerks, HandoverWrites(c)
  PROVE  Shelf!Next
<1>1. TypeOK /\ ClerkHasOrder /\ Held(c) /\ clerk[c].pc = "fulfil"
  BY DEF SInv, MInv, IInv, TypeInv, HandoverWrites
<1>2. PICK o \in Orders :
        /\ o = clerk[c].order
        /\ resv[o].status = "ACTIVE" /\ inv[o].qty <= resv[o].qty
  BY <1>1 DEF Held, Busy, ClerkHasOrder
<1>3. /\ stock' = stock - inv[o].qty /\ UNCHANGED otherOut
      /\ resv' = [resv EXCEPT ![o] = Consumed(@)]
      /\ InStock(inv[o].qty)
  BY <1>2 DEF HandoverWrites
<1>4. /\ stock \in Nat /\ otherOut \in Nat /\ inv[o].qty \in Nat
      /\ resv[o] \in Reservation /\ resv[o].qty \in Nat
      /\ task[o].shortage \in Nat
  BY <1>1, <1>2, RowTypes DEF TypeOK
<1>5. OrderInv(o)
  BY DEF SInv, MInv, IInv
<1>6. resv[o].qty + task[o].shortage = inv[o].qty
  BY <1>2, <1>5 DEF OrderInv
<1>7. inv[o].qty = Promise(o) /\ Promise(o) \in Nat
  BY <1>2, <1>4, <1>6 DEF Promise
<1>8. \A w \in Orders : w # o => resv'[w] = resv[w]
  BY <1>1, <1>3 DEF TypeOK
<1>9. Promise(o)' = 0
  BY <1>1, <1>3, <1>4 DEF TypeOK, Consumed, Reservation, Promise
<1>10. Promised' = [Promised EXCEPT ![o] = 0]
  BY <1>1, <1>8, <1>9, ShelfExcept
<1>11. Promised[o] = Promise(o)
  BY <1>1, ShelfTypes
<1>12. stock' + otherOut' = (stock + otherOut) - Promised[o]
  <2> DEFINE taken == Promised[o]
  <2>1. taken \in Nat /\ stock' = stock - taken /\ taken <= stock
    BY <1>3, <1>7, <1>11 DEF InStock
  <2> HIDE DEF taken
  <2>2. stock' + otherOut' = (stock + otherOut) - taken
    BY <1>3, <1>4, <2>1
  <2> QED
    BY <2>2 DEF taken
<1>13. Shelf!HandOver(o)
  BY <1>10, <1>12 DEF Shelf!HandOver
<1> QED
  BY <1>13 DEF Shelf!Next

\* Every call, step by step, is one of the shelf's.
LEMMA NextOnShelf ==
  ASSUME SInv, Shelved, [SerialStep]_vars
  PROVE  Shelf!Next \/ UNCHANGED <<stock + otherOut, Promised>>
<1>1. IInv /\ TypeOK /\ [Next]_vars
  BY SerialSteps DEF SInv, MInv, IInv, TypeInv
<1>2. TypeOK' /\ Shelved'
  BY <1>1, NextTypes, NextShelved DEF IInv, TypeInv
<1>3. CASE Placing
  BY <1>1, <1>2, <1>3, PlacingOnShelf
<1>4. CASE \/ Cancelling
           \/ \E o \in Orders : \/ ExpireSubmission(o) \/ ExpireOrder(o)
                                \/ WebhookFailure(o)
  BY <1>1, <1>2, <1>4, CallingOffOnShelf DEF Cancelling
<1>5. CASE Moving
  BY <1>1, <1>2, <1>5, MovingOnShelf
<1>6. CASE \E c \in Clerks : HandoverWrites(c)
  BY <1>2, <1>6, HandoverOnShelf
<1>7. CASE UNCHANGED <<stock, otherOut, resv, task>>
  BY <1>7 DEF Promised
<1> QED
  BY <1>1, <1>3, <1>4, <1>5, <1>6, <1>7, StockWaits

\* While calls do not overlap, orders, production, returns and hand-overs
\* implement StockPromise: no unit is promised twice, an order that gets its
\* goods takes the units promised to it and no others.
THEOREM OrdersKeepPromises == SerialSpec => ShelfKeepsPromises
<1>1. Init => Shelf!Init
  <2> SUFFICES ASSUME Init PROVE Shelf!Init
    OBVIOUS
  <2>1. stock \in Nat /\ otherOut = 0
    BY BoundsAssumption DEF Init
  <2>2. stock + otherOut \in Nat
    BY <2>1
  <2>3. Promised = [o \in Orders |-> 0]
    BY DEF Init, Promised
  <2> QED
    BY <2>2, <2>3 DEF Shelf!Init
<1>2. SInv /\ Shelved /\ [SerialStep]_vars =>
        [Shelf!Next]_<<stock + otherOut, Promised>>
  BY NextOnShelf
<1>3. SInv /\ Shelved /\ [SerialStep]_vars => Shelved'
  BY NextShelved
<1> QED
  BY <1>1, <1>2, <1>3, InitShelved, SerialInductive, PTL
  DEF SerialSpec, ShelfKeepsPromises, Shelf!Spec

\* What StockPromise promises: whatever implements it has every promised unit
\* on its shelf, those taken by other flows included.
THEOREM ShelfBacksPromises == ShelfKeepsPromises => []PromisedStockOnHand
<1> DEFINE goods == stock + otherOut
           Backed == /\ goods \in Nat /\ Promised \in [Orders -> Nat]
                     /\ Total(Promised) <= goods
<1>1. Shelf!Init => Backed
  <2> SUFFICES ASSUME Shelf!Init PROVE Backed
    OBVIOUS
  <2>1. goods \in Nat /\ Promised = [o \in Orders |-> 0]
    BY DEF Shelf!Init
  <2>2. Total(Promised) = 0
    BY <2>1, TotalZero
  <2> HIDE DEF goods
  <2> QED
    BY <2>1, <2>2
<1>2. Backed /\ [Shelf!Next]_<<goods, Promised>> => Backed'
  <2> SUFFICES ASSUME Backed, [Shelf!Next]_<<goods, Promised>>
               PROVE  Backed'
    OBVIOUS
  <2> DEFINE p == Promised
             q == Promised'
             g == goods
             h == goods'
  <2>1. g \in Nat /\ p \in [Orders -> Nat] /\ Total(p) <= g
    OBVIOUS
  <2>2. Total(p) \in Nat /\ Shelf!Total(p) = Total(p)
        /\ Shelf!Total(q) = Total(q)
    BY <2>1, OrdersAssumption, TotalType, ShelfTotals
  <2> SUFFICES h \in Nat /\ q \in [Orders -> Nat] /\ Total(q) <= h
    OBVIOUS
  <2>3. CASE Shelf!Sell
    <3>1. h \in 0 .. g /\ Total(p) <= h /\ q = p
      BY <2>2, <2>3 DEF Shelf!Sell
    <3> HIDE DEF p, q, g, h
    <3> QED
      BY <2>1, <3>1
  <2>4. CASE Shelf!Supply
    <3>1. h \in Nat /\ q \in [Orders -> Nat] /\ Total(q) <= h
      BY <2>2, <2>4 DEF Shelf!Supply
    <3> QED
      BY <3>1
  <2>5. ASSUME NEW o \in Orders, NEW n \in Nat,
               q = [p EXCEPT ![o] = n],
               \/ h = g /\ n = 0
               \/ h = g /\ p[o] = 0 /\ Total(p) + n <= g
               \/ h = g - p[o] /\ n = 0
        PROVE  h \in Nat /\ q \in [Orders -> Nat] /\ Total(q) <= h
    <3> HIDE DEF p, q, g, h
    <3>1. /\ q \in [Orders -> Nat] /\ q[o] = n /\ p[o] \in Nat
          /\ \A w \in Orders : w # o => q[w] = p[w]
      BY <2>1, <2>5
    <3>2. Total(q) + p[o] = Total(p) + n /\ p[o] <= Total(p)
      BY <2>1, <3>1, OrdersAssumption, TotalChange
    <3>3. Total(q) \in Nat
      BY <3>1, OrdersAssumption, TotalType
    <3> QED
      BY <2>1, <2>2, <2>5, <3>1, <3>2, <3>3
  <2>6. ASSUME NEW o \in Orders,
               Shelf!Reserve(o) \/ Shelf!HandOver(o) \/ Shelf!CallOff(o)
        PROVE  h \in Nat /\ q \in [Orders -> Nat] /\ Total(q) <= h
    <3>1. CASE Shelf!HandOver(o)
      <4>1. q = [p EXCEPT ![o] = 0] /\ h = g - p[o]
        BY <3>1 DEF Shelf!HandOver
      <4> HIDE DEF p, q, g, h
      <4> QED
        BY <2>5, <4>1
    <3>2. CASE Shelf!CallOff(o)
      <4>1. q = [p EXCEPT ![o] = 0] /\ h = g
        BY <3>2 DEF Shelf!CallOff
      <4> HIDE DEF p, q, g, h
      <4> QED
        BY <2>5, <4>1
    <3>3. CASE Shelf!Reserve(o)
      <4>1. PICK n \in 1 .. g : /\ Total(p) + n <= g /\ p[o] = 0
                                /\ q = [p EXCEPT ![o] = n] /\ h = g
        BY <2>2, <3>3 DEF Shelf!Reserve
      <4> HIDE DEF p, q, g, h
      <4>2. n \in Nat
        BY <2>1
      <4> QED
        BY <2>5, <4>1, <4>2
    <3> QED
      BY <2>6, <3>1, <3>2, <3>3
  <2>7. CASE UNCHANGED <<goods, Promised>>
    <3>1. h = g /\ q = p
      BY <2>7
    <3> HIDE DEF p, q, g, h
    <3> QED
      BY <2>1, <3>1
  <2> QED
    BY <2>3, <2>4, <2>6, <2>7 DEF Shelf!Next
<1>3. Backed => PromisedStockOnHand
  BY DEF PromisedStockOnHand, Reserved
<1> QED
  BY <1>1, <1>2, <1>3, PTL DEF ShelfKeepsPromises, Shelf!Spec

=============================================================================
