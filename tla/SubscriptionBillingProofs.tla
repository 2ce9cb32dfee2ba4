---------------------- MODULE SubscriptionBillingProofs ----------------------
(***************************************************************************)
(* Proofs about SubscriptionBilling, for any number of payments and of     *)
(* concurrent deliveries, any kinds of notification and any times.         *)
(***************************************************************************)
EXTENDS SubscriptionBilling, FiniteSetTheorems, TLAPS

USE EventsAssumption, TimesAssumption, EventIdAssumption, CycleAssumption

\* A claim, by either statement, stores the event and starts its handling.
LEMMA ClaimType ==
  ASSUME InboxTypeOK, NEW d \in Deliveries, delivery[d].pc # "idle",
         event' = [event EXCEPT ![delivery[d].event] =
                     Received(@, delivery[d].at)],
         Handle(d), now' = now
  PROVE  InboxTypeOK'
<1>1. /\ delivery[d].event \in Events /\ delivery[d].at \in Nat
      /\ NoEvent \notin Events
  BY DEF InboxTypeOK, Delivery
<1>2. /\ event' \in [Events -> EventRow]
      /\ event'[delivery[d].event].status = "RECEIVED"
      /\ \A e \in Events : e # delivery[d].event => event'[e] = event[e]
  BY <1>1 DEF InboxTypeOK, Received, EventRow, EventStatuses
<1>3. /\ delivery' \in [Deliveries -> Delivery]
      /\ delivery'[d].event = delivery[d].event
      /\ \A x \in Deliveries : x # d => delivery'[x] = delivery[x]
  BY <1>1 DEF InboxTypeOK, Handle, Idle, Delivery, Places, EventStatuses
<1>4. \A x \in Deliveries :
        /\ delivery'[x].pc # "idle" => delivery'[x].event \in Events
        /\ delivery'[x].pc \in {"look", "reclaim", "handle", "fail"} =>
             event'[delivery'[x].event].status # "NONE"
  BY <1>1, <1>2, <1>3 DEF InboxTypeOK
<1> QED
  BY <1>2, <1>3, <1>4 DEF InboxTypeOK

\* The steps of the inbox keep its types.
LEMMA InboxStepType ==
  ASSUME InboxTypeOK, NEW d \in Deliveries, InboxStep(d)
  PROVE  InboxTypeOK'
<1>1. CASE Stamp(d)
  BY <1>1 DEF Stamp, InboxTypeOK, Delivery, Places
<1>2. CASE Create(d)
  <2>1. CASE event[delivery[d].event].status = "NONE"
    BY <1>2, <2>1, ClaimType DEF Create
  <2>2. CASE event[delivery[d].event].status # "NONE"
    <3>1. /\ delivery' \in [Deliveries -> Delivery]
          /\ delivery'[d].event = delivery[d].event
          /\ \A x \in Deliveries : x # d => delivery'[x] = delivery[x]
      BY <1>2, <2>2 DEF Create, Goto, InboxTypeOK, Delivery, Places
    <3>2. event' = event /\ now' = now /\ delivery[d].event \in Events
      BY <1>2, <2>2 DEF Create, InboxTypeOK
    <3> QED
      BY <2>2, <3>1, <3>2 DEF InboxTypeOK
  <2> QED
    BY <2>1, <2>2
<1>3. CASE Look(d)
  BY <1>3 DEF Look, Answer, Idle, InboxTypeOK, Delivery, Places, EventRow,
              EventStatuses
<1>4. CASE Reclaim(d)
  <2> DEFINE open == IsReclaimable(event[delivery[d].event],
                                   delivery[d].saw, delivery[d].at)
  <2>1. CASE open
    BY <1>4, <2>1, ClaimType DEF Reclaim
  <2>2. CASE ~open
    BY <1>4, <2>2 DEF Reclaim, Answer, Idle, InboxTypeOK, Delivery, Places,
                      EventStatuses
  <2> QED
    BY <2>1, <2>2
<1>5. CASE Throw(d)
  BY <1>5 DEF Throw, Goto, InboxTypeOK, Delivery, Places
<1>6. CASE MarkFailed(d)
  BY <1>6 DEF MarkFailed, Answer, Idle, InboxTypeOK, Delivery, Places,
              EventRow, EventStatuses
<1>7. CASE Die(d)
  BY <1>7 DEF Die, Answer, Idle, InboxTypeOK, Delivery, Places, EventStatuses
<1> QED
  BY <1>1, <1>2, <1>3, <1>4, <1>5, <1>6, <1>7 DEF InboxStep

\* ... and so does the arrival of a request.
LEMMA ReceiveType ==
  ASSUME InboxTypeOK, NEW d \in Deliveries, NEW e \in Events, Receive(d, e)
  PROVE  InboxTypeOK'
  BY DEF Receive, InboxTypeOK, Delivery, Places

\* ... and the end of its transaction, whether its reply arrives or not.
LEMMA FinishType ==
  ASSUME InboxTypeOK, NEW d \in Deliveries, NEW replied \in BOOLEAN,
         NEW status \in {"PROCESSED", "IGNORED"}, Finish(d, status, replied)
  PROVE  InboxTypeOK'
  BY DEF Finish, Answer, Goto, Idle, InboxTypeOK, Delivery, Places, EventRow,
         EventStatuses

\* A billing date is a date.
LEMMA NextBillingType ==
  ASSUME NEW due \in Nat \cup {NoDate}, now \in Nat
  PROVE  NextBilling(due) \in Nat
  BY DEF NextBilling, NoDate

\* Types are kept by every step.
LEMMA TypeStep == TypeOK /\ [Next]_vars => TypeOK'
<1> SUFFICES ASSUME TypeOK, [Next]_vars PROVE TypeOK'
  OBVIOUS
<1> USE DEF TypeOK
<1>1. CASE UNCHANGED vars
  BY <1>1 DEF vars, inboxVars, InboxTypeOK
<1>2. CASE Time
  BY <1>2 DEF Time, Tick, InboxTypeOK
<1>3. CASE Synchronize
  BY <1>3 DEF Synchronize, ExpireTrial, MarkPastDue, inboxVars, InboxTypeOK,
              Tenant, TenantStatuses
<1>4. CASE Superadmin
  BY <1>4, EditsAssumption
     DEF Superadmin, UpdateTenantAdmin, inboxVars, InboxTypeOK, Tenant,
         TenantStatuses
<1>5. CASE ExtendTrial
  BY <1>5 DEF ExtendTrial, inboxVars, InboxTypeOK, Tenant, TenantStatuses,
              NoDate
<1>6. ASSUME NEW days \in Extensions, ReadTrial(days) PROVE TypeOK'
  BY <1>6 DEF ReadTrial, inboxVars, InboxTypeOK, Tenant
<1>7. ASSUME NEW p \in Payments, NEW tier \in Tiers, Checkout(p, tier)
      PROVE  TypeOK'
  BY <1>7 DEF Checkout, inboxVars, InboxTypeOK, SubscriptionPayment, AllTiers
<1>8. ASSUME NEW d \in Deliveries, Inbox(d) PROVE TypeOK'
  BY <1>8, InboxStepType DEF Inbox, Forget
<1>9. ASSUME NEW d \in Deliveries, NEW p \in Payments, NEW k \in Kinds,
             Notify(d, p, k)
      PROVE  TypeOK'
  BY <1>9, ReceiveType DEF Notify, Tenant
<1>10. ASSUME NEW d \in Deliveries, NEW replied \in BOOLEAN,
              Process(d, replied)
       PROVE  TypeOK'
  <2>1. InboxTypeOK'
    BY <1>10, FinishType DEF Process
  <2>2. delivery[d].event \in Payments \X Kinds
    BY <1>10 DEF Process, InboxTypeOK
  <2>3. payment' \in [Payments -> SubscriptionPayment]
    BY <1>10, <2>2 DEF Process, SubscriptionPayment, StatusOf
  <2>4. tenant' \in Tenant
    <3>1. NextBilling(seen[d]) \in Nat
      BY NextBillingType DEF InboxTypeOK
    <3>2. payment[delivery[d].event[1]].tier \in AllTiers
      BY <2>2 DEF SubscriptionPayment
    <3> QED
      BY <1>10, <3>1, <3>2 DEF Process, Tenant, TenantStatuses
  <2> QED
    BY <1>10, <2>1, <2>3, <2>4 DEF Process, Forget
<1> QED
  BY <1>1, <1>2, <1>3, <1>4, <1>5, <1>6, <1>7, <1>8, <1>9, <1>10 DEF Next

-----------------------------------------------------------------------------
\* A tenant that has just registered is well typed.
LEMMA InitType == Init => TypeOK
  BY DEF Init, InboxInit, Idle, TypeOK, InboxTypeOK, EventRow, EventStatuses,
         Delivery, Places, SubscriptionPayment, AllTiers, Tenant,
         TenantStatuses, NoDate

\* The rows, the deliveries and the tenant keep their types.
THEOREM BillingTypeCorrect == Spec => []TypeOK
  BY InitType, TypeStep, PTL DEF Spec

\* Only a notification that is handled writes to a payment that was made, and
\* never to a settled one.
LEMMA PaymentStep ==
  ASSUME TypeOK, [Next]_vars, NEW p \in Payments
  PROVE  payment[p].status = "SUCCESS" => payment'[p].status = "SUCCESS"
<1>1. ASSUME NEW d \in Deliveries, NEW replied \in BOOLEAN,
             Process(d, replied)
      PROVE  payment[p].status = "SUCCESS" => payment'[p].status = "SUCCESS"
  BY <1>1 DEF Process, IsOpen, TypeOK
<1>2. ASSUME NEW q \in Payments, NEW tier \in Tiers, Checkout(q, tier)
      PROVE  payment[p].status = "SUCCESS" => payment'[p].status = "SUCCESS"
  BY <1>2 DEF Checkout, TypeOK
<1> QED
  BY <1>1, <1>2
     DEF Next, Time, Synchronize, ExpireTrial, MarkPastDue, Superadmin,
         UpdateTenantAdmin, ExtendTrial, ReadTrial, Inbox, Notify, vars

\* No notification undoes a settlement.
THEOREM SettledStays == Spec => SettledIsFinal
<1>1. TypeOK /\ [Next]_vars =>
        [\A p \in Payments : payment[p].status = "SUCCESS" =>
           payment'[p].status = "SUCCESS"]_vars
  BY PaymentStep
<1> QED
  BY <1>1, BillingTypeCorrect, PTL DEF Spec, SettledIsFinal

\* The row of an event becomes terminal only at the end of the transaction
\* that handled it, whoever else handles or handled the same event.
LEMMA TerminalStep ==
  ASSUME TypeOK, [Next]_vars, NEW e \in Events,
         event'[e].status \in {"PROCESSED", "IGNORED"},
         event[e].status \notin {"PROCESSED", "IGNORED"}
  PROVE  \E d \in Deliveries, replied \in BOOLEAN :
           Process(d, replied) /\ delivery[d].event = e
<1>1. ASSUME NEW d \in Deliveries, Inbox(d) PROVE FALSE
  <2>1. InboxStep(d) /\ event \in [Events -> EventRow]
    BY <1>1 DEF Inbox, TypeOK, InboxTypeOK
  <2>2. event'[e].status \in {event[e].status, "RECEIVED", "FAILED"}
    BY <2>1 DEF InboxStep, Stamp, Create, Look, Reclaim, Throw, MarkFailed,
                Die, Received, EventRow
  <2> QED
    BY <2>2
<1>2. ASSUME NEW d \in Deliveries, NEW replied \in BOOLEAN,
             Process(d, replied), delivery[d].event # e
      PROVE  FALSE
  BY <1>2 DEF Process, Finish, TypeOK, InboxTypeOK
<1> QED
  BY <1>1, <1>2
     DEF Next, Time, Tick, Synchronize, ExpireTrial, MarkPastDue, Superadmin,
         UpdateTenantAdmin, ExtendTrial, ReadTrial, Checkout, Notify, Receive,
         vars, inboxVars

\* A terminal row of a successful notification stands for a settled payment.
LEMMA DoneStep ==
  ASSUME TypeOK, DoneMeansPaid, [Next]_vars PROVE DoneMeansPaid'
<1> SUFFICES ASSUME NEW p \in Payments, NEW k \in Kinds, Succeeds(k),
                    event'[<<p, k>>].status \in {"PROCESSED", "IGNORED"}
             PROVE  payment'[p].status = "SUCCESS"
  BY DEF DoneMeansPaid, Succeeds
<1>1. CASE event[<<p, k>>].status \in {"PROCESSED", "IGNORED"}
  BY <1>1, PaymentStep DEF DoneMeansPaid
<1>2. CASE event[<<p, k>>].status \notin {"PROCESSED", "IGNORED"}
  <2>1. PICK d \in Deliveries, replied \in BOOLEAN :
          Process(d, replied) /\ delivery[d].event = <<p, k>>
    BY <1>2, TerminalStep
  <2>2. delivery[d].event[1] = p /\ delivery[d].event[2] = k
    BY <2>1
  <2>3. payment' = IF IsOpen(p, k)
                   THEN [payment EXCEPT ![p].status = StatusOf(k)]
                   ELSE payment
    BY <2>1, <2>2 DEF Process
  <2>4. StatusOf(k) = "SUCCESS"
    BY DEF StatusOf
  <2> QED
    BY <2>3, <2>4 DEF IsOpen, TypeOK, SubscriptionPayment
<1> QED
  BY <1>1, <1>2

\* No redelivery is turned away as a duplicate of an event whose payment is
\* not settled, once nobody handles it and it is marked as done.
THEOREM DoneIsPaid == Spec => []DoneMeansPaid
<1>1. Init => DoneMeansPaid
  BY DEF Init, InboxInit, DoneMeansPaid
<1>2. TypeOK /\ DoneMeansPaid /\ [Next]_vars => DoneMeansPaid'
  BY DoneStep
<1> QED
  BY <1>1, <1>2, BillingTypeCorrect, PTL DEF Spec

-----------------------------------------------------------------------------
\* A tenant that has paid for the current month and is let in is let in after
\* the step too: neither cron statement applies to it, and a notification only
\* ever activates.
THEOREM PaidUpStaysIn == Spec => PaidUpKeepsAccess
<1>1. TypeOK /\ [Next]_vars =>
        [IsPaidUp /\ HasAccess /\ IsPaidUp' /\ ~Superadmin => HasAccess']_vars
  <2> SUFFICES ASSUME TypeOK, [Next]_vars, IsPaidUp, HasAccess, IsPaidUp',
                      ~Superadmin
               PROVE  HasAccess'
    OBVIOUS
  <2>1. tenant \in Tenant /\ now \in Nat
    BY DEF TypeOK, InboxTypeOK
  <2>2. ~Synchronize
    BY <2>1 DEF Synchronize, ExpireTrial, MarkPastDue, IsTrialOver, IsPlanOver,
                IsPaidUp, Tenant, NoDate
  <2>3. tenant'.status = "ACTIVE"
    <3>1. ASSUME NEW d \in Deliveries, NEW replied \in BOOLEAN,
                 Process(d, replied)
          PROVE  tenant'.status = "ACTIVE"
      BY <3>1, <2>1 DEF Process, HasAccess, Tenant
    <3>2. CASE ExtendTrial
      BY <3>2, <2>1 DEF ExtendTrial, Tenant
    <3> QED
      BY <2>2, <3>1, <3>2
         DEF Next, Time, Checkout, Inbox, Notify, ReadTrial, vars, HasAccess
  <2>4. now' \in Nat /\ tenant' \in Tenant
    BY TypeStep DEF TypeOK, InboxTypeOK
  <2> QED
    BY <2>3, <2>4 DEF HasAccess, IsPaidUp, IsTrialOver, IsPlanOver, Tenant,
                      NoDate
<1> QED
  BY <1>1, BillingTypeCorrect, PTL DEF Spec, PaidUpKeepsAccess
-----------------------------------------------------------------------------
(* One payment, one month.  A delivery writes a billing date computed from   *)
(* one it has read before, so the bound must hold of what every delivery has *)
(* read, not of the tenant's column alone.                                   *)

Granted == Month * Cardinality(Settled)
InTime(date) == date <= now + Granted
BillingInv == TypeOK /\ InTime(tenant.due)
              /\ \A d \in Deliveries : InTime(seen[d])

\* The settled payments are finitely many.
LEMMA SettledFinite == IsFiniteSet(Settled) /\ Cardinality(Settled) \in Nat
<1>1. Settled \subseteq Payments
  BY DEF Settled
<1> QED
  BY <1>1, PaymentsAssumption, FS_Subset, FS_CardinalityType

\* What is granted is a number, and a month more with one more payment.
LEMMA GrantedType == Granted \in Nat
  BY SettledFinite DEF Granted

\* Months multiply out.
LEMMA MonthMore ==
  ASSUME NEW m \in Nat, NEW n \in Nat PROVE m * (n + 1) = m * n + m
  OBVIOUS

\* The handling of a notification that settles a payment grants a month, from
\* today or from the date the delivery read, whatever others did meanwhile.
LEMMA SettlingStep ==
  ASSUME BillingInv, NEW d \in Deliveries, NEW replied \in BOOLEAN,
         Process(d, replied), Succeeds(delivery[d].event[2]),
         IsOpen(delivery[d].event[1], delivery[d].event[2])
  PROVE  /\ Granted' = Granted + Month
         /\ now' = now
         /\ tenant'.due <= now + Granted + Month
<1> DEFINE p == delivery[d].event[1]
           k == delivery[d].event[2]
<1>1. p \in Payments /\ k \in Kinds
  BY DEF Process, BillingInv, TypeOK, InboxTypeOK
<1>2. payment' = [payment EXCEPT ![p].status = "SUCCESS"]
  BY DEF Process, StatusOf
<1>3. payment \in [Payments -> SubscriptionPayment]
  BY DEF BillingInv, TypeOK
<1>4. /\ payment'[p].status = "SUCCESS"
      /\ \A q \in Payments : q # p => payment'[q] = payment[q]
  BY <1>1, <1>2, <1>3 DEF SubscriptionPayment
<1>5. Settled' = Settled \cup {p} /\ p \notin Settled
  BY <1>1, <1>4 DEF Settled, IsOpen
<1>6. Cardinality(Settled \cup {p}) = Cardinality(Settled) + 1
  BY <1>5, SettledFinite, FS_AddElement
<1>7. Granted' = Granted + Month
  BY <1>5, <1>6, SettledFinite, MonthMore DEF Granted
<1>8. now' = now
  BY DEF Process, Finish
<1>9. tenant'.due <= now + Granted + Month
  <2>1. tenant'.due = NextBilling(seen[d])
    <3>1. tenant' = [tenant EXCEPT !.tier = payment[p].tier,
                                   !.status = "ACTIVE",
                                   !.due = NextBilling(seen[d])]
      BY DEF Process
    <3> QED
      BY <3>1 DEF BillingInv, TypeOK, Tenant
  <2>2. /\ now \in Nat /\ seen[d] \in Nat \cup {NoDate}
        /\ seen[d] <= now + Granted
    BY DEF BillingInv, InTime, TypeOK, InboxTypeOK
  <2> QED
    BY <2>1, <2>2, GrantedType DEF NextBilling, NoDate
<1> QED
  BY <1>7, <1>8, <1>9

\* Every other step leaves the settled payments and the billing date alone.
LEMMA OtherStep ==
  ASSUME TypeOK, [Next]_vars,
         ~\E d \in Deliveries, replied \in BOOLEAN :
            /\ Process(d, replied)
            /\ Succeeds(delivery[d].event[2])
            /\ IsOpen(delivery[d].event[1], delivery[d].event[2])
  PROVE  Settled' = Settled /\ tenant'.due = tenant.due /\ now <= now'
<1>1. ASSUME NEW d \in Deliveries, NEW replied \in BOOLEAN,
             Process(d, replied)
      PROVE  Settled' = Settled /\ tenant' = tenant /\ now' = now
  <2> DEFINE p == delivery[d].event[1]
             k == delivery[d].event[2]
  <2>1. p \in Payments /\ now' = now
    BY <1>1 DEF Process, Finish, TypeOK, InboxTypeOK
  <2>2. CASE ~IsOpen(p, k)
    BY <1>1, <2>1, <2>2 DEF Process, Settled
  <2>3. CASE IsOpen(p, k)
    <3>1. ~Succeeds(k)
      BY <1>1, <2>3
    <3>2. StatusOf(k) # "SUCCESS" /\ payment[p].status # "SUCCESS"
      BY <2>3, <3>1 DEF StatusOf, IsOpen
    <3>3. /\ payment' = [payment EXCEPT ![p].status = StatusOf(k)]
          /\ tenant' = tenant
      BY <1>1, <2>3, <3>1 DEF Process
    <3>4. \A q \in Payments : (payment'[q].status = "SUCCESS")
                              <=> (payment[q].status = "SUCCESS")
      BY <2>1, <3>2, <3>3 DEF TypeOK, SubscriptionPayment
    <3> QED
      BY <2>1, <3>3, <3>4 DEF Settled
  <2> QED
    BY <2>2, <2>3
<1>2. ASSUME NEW p \in Payments, NEW tier \in Tiers, Checkout(p, tier)
      PROVE  Settled' = Settled /\ tenant' = tenant /\ now' = now
  <2>1. \A q \in Payments : (payment'[q].status = "SUCCESS")
                            <=> (payment[q].status = "SUCCESS")
    BY <1>2 DEF Checkout, TypeOK
  <2> QED
    BY <1>2, <2>1 DEF Checkout, Settled, inboxVars
<1>3. ASSUME NEW d \in Deliveries, Inbox(d)
      PROVE  Settled' = Settled /\ tenant' = tenant /\ now' = now
  BY <1>3 DEF Inbox, InboxStep, Stamp, Create, Look, Reclaim, Throw,
              MarkFailed, Die, Settled
<1>4. ASSUME NEW d \in Deliveries, NEW p \in Payments, NEW k \in Kinds,
             Notify(d, p, k)
      PROVE  Settled' = Settled /\ tenant' = tenant /\ now' = now
  BY <1>4 DEF Notify, Receive, Settled
<1>5. CASE Time
  BY <1>5 DEF Time, Tick, Settled, TypeOK, InboxTypeOK
<1>6. CASE Synchronize \/ Superadmin \/ ExtendTrial
           \/ \E days \in Extensions : ReadTrial(days)
  <2>1. payment' = payment /\ now' = now
    BY <1>6 DEF Synchronize, ExpireTrial, MarkPastDue, Superadmin,
                UpdateTenantAdmin, ExtendTrial, ReadTrial, inboxVars
  <2>2. tenant'.due = tenant.due
    BY <1>6 DEF Synchronize, ExpireTrial, MarkPastDue, Superadmin,
                UpdateTenantAdmin, ExtendTrial, ReadTrial, TypeOK, Tenant
  <2> QED
    BY <2>1, <2>2 DEF Settled, TypeOK, InboxTypeOK
<1>7. CASE UNCHANGED vars
  BY <1>7 DEF vars, inboxVars, Settled, TypeOK, InboxTypeOK
<1>8. now' = now => now <= now'
  BY DEF TypeOK, InboxTypeOK
<1>9. tenant' = tenant => tenant'.due = tenant.due
  OBVIOUS
<1> QED
  BY <1>1, <1>2, <1>3, <1>4, <1>5, <1>6, <1>7, <1>8, <1>9 DEF Next

\* What a delivery knows of the billing date after a step is what it knew, or
\* nothing, or the date of now.
LEMMA SeenStep ==
  ASSUME TypeOK, [Next]_vars, NEW x \in Deliveries
  PROVE  seen'[x] \in {seen[x], NoDate, tenant.due}
<1>1. ASSUME NEW d \in Deliveries, NEW replied \in BOOLEAN,
             Process(d, replied)
      PROVE  seen'[x] \in {seen[x], NoDate, tenant.due}
  BY <1>1 DEF Process, Forget, TypeOK
<1>2. ASSUME NEW d \in Deliveries, Inbox(d)
      PROVE  seen'[x] \in {seen[x], NoDate, tenant.due}
  BY <1>2 DEF Inbox, Forget, TypeOK
<1>3. ASSUME NEW d \in Deliveries, NEW p \in Payments, NEW k \in Kinds,
             Notify(d, p, k)
      PROVE  seen'[x] \in {seen[x], NoDate, tenant.due}
  BY <1>3 DEF Notify, TypeOK
<1> QED
  BY <1>1, <1>2, <1>3
     DEF Next, Time, Synchronize, ExpireTrial, MarkPastDue, Superadmin,
         UpdateTenantAdmin, ExtendTrial, ReadTrial, Checkout, vars

\* The bound is kept by every step.
LEMMA BillingStep == BillingInv /\ [Next]_vars => BillingInv'
<1> SUFFICES ASSUME BillingInv, [Next]_vars PROVE BillingInv'
  OBVIOUS
<1>1. TypeOK /\ TypeOK'
  BY TypeStep DEF BillingInv
<1>2. /\ now \in Nat /\ now' \in Nat
      /\ tenant.due \in Nat \cup {NoDate}
      /\ tenant'.due \in Nat \cup {NoDate}
      /\ \A x \in Deliveries : /\ seen[x] \in Nat \cup {NoDate}
                               /\ seen'[x] \in Nat \cup {NoDate}
  BY <1>1 DEF TypeOK, InboxTypeOK, Tenant
<1>3. SUFFICES /\ tenant'.due <= now' + Granted'
               /\ \A x \in Deliveries : seen'[x] <= now' + Granted'
  BY <1>1 DEF BillingInv, InTime
<1>4. \A x \in Deliveries : seen'[x] <= now + Granted
  BY <1>1, <1>2, SeenStep, GrantedType DEF BillingInv, InTime, NoDate
<1>5. CASE \E d \in Deliveries, replied \in BOOLEAN :
             /\ Process(d, replied)
             /\ Succeeds(delivery[d].event[2])
             /\ IsOpen(delivery[d].event[1], delivery[d].event[2])
  <2>1. /\ Granted' = Granted + Month /\ now' = now
        /\ tenant'.due <= now + Granted + Month
    BY <1>5, SettlingStep
  <2> DEFINE g == Granted
             n == now
  <2>2. g \in Nat /\ n \in Nat /\ Month \in Nat
    BY <1>2, GrantedType
  <2>3. tenant'.due <= n + (g + Month)
    BY <1>2, <2>1, <2>2 DEF NoDate
  <2>4. \A x \in Deliveries : seen'[x] <= n + (g + Month)
    BY <1>2, <1>4, <2>2 DEF NoDate
  <2> QED
    BY <2>1, <2>2, <2>3, <2>4
<1>6. CASE ~\E d \in Deliveries, replied \in BOOLEAN :
              /\ Process(d, replied)
              /\ Succeeds(delivery[d].event[2])
              /\ IsOpen(delivery[d].event[1], delivery[d].event[2])
  <2>1. Settled' = Settled /\ tenant'.due = tenant.due /\ now <= now'
    BY <1>1, <1>6, OtherStep
  <2>2. Granted' = Granted
    BY <2>1 DEF Granted
  <2>3. tenant.due <= now + Granted
    BY DEF BillingInv, InTime
  <2> QED
    <3> DEFINE g == Granted
               n == now
               m == now'
    <3>1. /\ g \in Nat /\ n \in Nat /\ m \in Nat /\ n <= m
          /\ Granted' = g
      BY <1>2, <2>1, <2>2, GrantedType
    <3>2. tenant'.due <= m + g
      BY <1>2, <2>1, <2>3, <3>1 DEF NoDate
    <3>3. \A x \in Deliveries : seen'[x] <= m + g
      BY <1>2, <1>4, <3>1 DEF NoDate
    <3> QED
      BY <3>1, <3>2, <3>3
<1> QED
  BY <1>5, <1>6

\* No payment buys two months, however often and concurrently its
\* notifications are handled, and with any number of payments under way.
THEOREM NoMonthForFree == Spec => []NoFreeMonth
<1>1. Init => BillingInv
  <2> SUFFICES ASSUME Init PROVE BillingInv
    OBVIOUS
  <2>1. /\ now = 0 /\ tenant.due = NoDate
        /\ \A d \in Deliveries : seen[d] = NoDate
    BY DEF Init, InboxInit
  <2> QED
    BY <2>1, InitType, GrantedType DEF BillingInv, InTime, NoDate
<1>2. BillingInv => NoFreeMonth
  BY DEF BillingInv, InTime, Granted, NoFreeMonth
<1> QED
  BY <1>1, <1>2, BillingStep, PTL DEF Spec
=============================================================================
