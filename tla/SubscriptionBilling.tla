------------------------ MODULE SubscriptionBilling ------------------------
(***************************************************************************)
(* The subscription of one tenant: checkout of a monthly payment, the      *)
(* notifications of Midtrans handled through the webhook inbox, the daily  *)
(* cron that marks lapsed tenants, and the superadmin's edits.             *)
(*                                                                         *)
(* A notification reads the payment with the tenant's billing date, claims *)
(* its event, and then handles it in one READ COMMITTED transaction, which *)
(* reads nothing again but the payment's status, in the update that guards *)
(* it; that row lock orders the transactions of one payment.               *)
(***************************************************************************)
EXTENDS WebhookInbox, FiniteSets

CONSTANTS
  Payments,  \* subscription payments that may be made
  Kinds,     \* transaction statuses Midtrans may report
  Tiers,     \* the paid plans on sale
  Edits,     \* bound: subscription statuses the superadmin sets
  Month,     \* a billing cycle, in ticks
  Trial,     \* when the trial ends
  Extensions \* bound: by how much the superadmin extends a trial

ASSUME PaymentsAssumption == IsFiniteSet(Payments)
ASSUME CycleAssumption == Month \in Nat \ {0} /\ Trial \in Nat
                   /\ Extensions \subseteq Nat
\* An event id is the order, the transaction status and the status code.
ASSUME EventIdAssumption == Events = Payments \X Kinds
ASSUME KindsAssumption ==
  Kinds \subseteq {"pending", "challenge", "capture", "settlement", "expire"}
ASSUME EditsAssumption ==
  Edits \subseteq {"ACTIVE", "PAST_DUE", "CANCELED", "EXPIRED"}
ASSUME TiersAssumption == Tiers \subseteq {"BASIC", "PRO", "ENTERPRISE"}

VARIABLES
  payment,   \* subscription_payments
  tenant,    \* the tenant's subscription columns
  seen,      \* nextBillingDate as each delivery read it
  extending  \* the trial end extendTenantTrial is about to write

vars == <<inboxVars, payment, tenant, seen, extending>>
-----------------------------------------------------------------------------
NoDate == 0 - 1                            \* NULL
TenantStatuses == {"ACTIVE", "PAST_DUE", "CANCELED", "EXPIRED"}
AllTiers == Tiers \cup {"TRIAL"}
SubscriptionPayment == [status: {"NONE", "PENDING", "SUCCESS", "FAILED"},
                        tier: AllTiers]
Tenant == [tier: AllTiers, status: TenantStatuses, trialEnds: Nat,
           due: Nat \cup {NoDate}]

\* A tenant has registered and is on trial.
Init ==
  /\ InboxInit
  /\ payment = [p \in Payments |-> [status |-> "NONE", tier |-> "TRIAL"]]
  /\ tenant = [tier |-> "TRIAL", status |-> "ACTIVE", trialEnds |-> Trial,
               due |-> NoDate]
  /\ seen = [d \in Deliveries |-> NoDate]
  /\ extending = NoDate

\* POST /api/billing/checkout.
Checkout(p, tier) ==
  /\ payment[p].status = "NONE"
  /\ payment' = [payment EXCEPT ![p] = [status |-> "PENDING", tier |-> tier]]
  /\ UNCHANGED <<inboxVars, tenant, seen, extending>>

\* A notification of a payment that is known; any other gets a 404.
Notify(d, p, k) ==
  /\ payment[p].status # "NONE"
  /\ Receive(d, <<p, k>>)
  /\ seen' = [seen EXCEPT ![d] = tenant.due]
  /\ UNCHANGED <<payment, tenant, extending>>

\* What a delivery read is of no use after its answer.
Forget(d) == seen' = [seen EXCEPT ![d] = IF delivery'[d].pc = "idle"
                                        THEN NoDate ELSE @]
Inbox(d) ==
  InboxStep(d) /\ Forget(d) /\ UNCHANGED <<payment, tenant, extending>>
Time == Tick /\ UNCHANGED <<payment, tenant, seen, extending>>

Succeeds(k) == k \in {"capture", "settlement"}
StatusOf(k) == IF Succeeds(k) THEN "SUCCESS"
               ELSE IF k = "expire" THEN "FAILED" ELSE "PENDING"

\* The guarding updateMany: status: { not: "SUCCESS" }.
MutantIsAlwaysOpen(p, k) == TRUE                     \* no guard
MutantIsPending(p, k) == payment[p].status = "PENDING"
MutantIsOpenToFailure(p, k) ==                       \* guards payments only
  ~Succeeds(k) \/ payment[p].status # "SUCCESS"
IsOpen(p, k) == payment[p].status # "SUCCESS"

\* addMonthsClamped from the billing date read earlier, or from today.
NextBilling(due) == (IF due # NoDate /\ due > now THEN due ELSE now) + Month

Process(d, replied) ==
  LET p == delivery[d].event[1]
      k == delivery[d].event[2]
  IN  /\ delivery[d].pc = "handle"
      /\ IF IsOpen(p, k)
         THEN /\ payment' = [payment EXCEPT ![p].status = StatusOf(k)]
              /\ tenant' = IF ~Succeeds(k) THEN tenant
                           ELSE [tenant EXCEPT !.tier = payment[p].tier,
                                               !.status = "ACTIVE",
                                               !.due = NextBilling(seen[d])]
         ELSE UNCHANGED <<payment, tenant>>
      /\ Finish(d, IF Succeeds(k) THEN "PROCESSED" ELSE "IGNORED", replied)
      /\ Forget(d)
      /\ UNCHANGED extending

\* synchronizeSubscriptionStatuses: two statements, each with a clock read
\* when the cron's request came in.
MutantIsTrialOver(at) == tenant.trialEnds <= at      \* whatever the tier
IsTrialOver(at) == tenant.tier = "TRIAL" /\ tenant.trialEnds <= at
IsPlanOver(at) ==
  tenant.tier # "TRIAL" /\ tenant.due # NoDate /\ tenant.due <= at

ExpireTrial(at) ==
  /\ tenant.status = "ACTIVE" /\ IsTrialOver(at)
  /\ tenant' = [tenant EXCEPT !.status = "EXPIRED"]
  /\ UNCHANGED <<inboxVars, payment, seen, extending>>

MarkPastDue(at) ==
  /\ tenant.status = "ACTIVE" /\ IsPlanOver(at)
  /\ tenant' = [tenant EXCEPT !.status = "PAST_DUE"]
  /\ UNCHANGED <<inboxVars, payment, seen, extending>>

Synchronize == \E at \in 0 .. now : ExpireTrial(at) \/ MarkPastDue(at)

\* updateTenantAdmin.
UpdateTenantAdmin(tier, status) ==
  /\ tenant' = [tenant EXCEPT !.tier = tier, !.status = status]
  /\ UNCHANGED <<inboxVars, payment, seen, extending>>

\* extendTenantTrial by some days: it reads the tenant and then writes, whether
\* it is still on trial or not.
ReadTrial(days) ==
  LET base == IF tenant.trialEnds > now THEN tenant.trialEnds ELSE now
  IN  /\ extending = NoDate /\ tenant.tier = "TRIAL"
      /\ base + days <= MaxTime
      /\ extending' = base + days
      /\ UNCHANGED <<inboxVars, payment, tenant, seen>>
ExtendTrial ==
  /\ extending # NoDate
  /\ tenant' = [tenant EXCEPT !.trialEnds = extending, !.status = "ACTIVE"]
  /\ extending' = NoDate
  /\ UNCHANGED <<inboxVars, payment, seen>>

Superadmin == \E tier \in AllTiers, status \in Edits :
                UpdateTenantAdmin(tier, status)

Next ==
  \/ Time \/ Synchronize \/ Superadmin \/ ExtendTrial
  \/ \E days \in Extensions : ReadTrial(days)
  \/ \E p \in Payments, tier \in Tiers : Checkout(p, tier)
  \/ \E d \in Deliveries :
       \/ Inbox(d)
       \/ \E p \in Payments, k \in Kinds : Notify(d, p, k)
       \/ \E replied \in BOOLEAN : Process(d, replied)

Spec == Init /\ [][Next]_vars
-----------------------------------------------------------------------------
(* Properties. *)

\* Types, and the inbox's.
TypeOK ==
  /\ InboxTypeOK
  /\ payment \in [Payments -> SubscriptionPayment]
  /\ tenant \in Tenant
  /\ seen \in [Deliveries -> Nat \cup {NoDate}]
  /\ extending \in Nat \cup {NoDate}

Settled == {p \in Payments : payment[p].status = "SUCCESS"}

\* No payment buys two months: "concurrent notifications (capture + settlement
\* race) can never both extend the billing cycle"
\* (superadmin-midtrans/route.ts:97), nor one that is delivered again after a
\* crash, a lost reply or a stuck handler.
NoFreeMonth == tenant.due <= now + Month * Cardinality(Settled)

\* An event that is done with was not for nothing: once the row of a
\* successful payment's notification is terminal, so that no redelivery is
\* looked at again, the payment is settled.
DoneMeansPaid ==
  \A p \in Payments, k \in Kinds :
    Succeeds(k) /\ event[<<p, k>>].status \in {"PROCESSED", "IGNORED"} =>
      payment[p].status = "SUCCESS"

\* A settled payment stays settled, whatever arrives late or again
\* (tests/e2e/smoke.spec.ts:496 sends an expire after the settlement).
SettledIsFinal ==
  [][\A p \in Payments : payment[p].status = "SUCCESS" =>
       payment'[p].status = "SUCCESS"]_vars

\* getTenantAccessState = "ACTIVE".
HasAccess == tenant.status = "ACTIVE" /\ ~IsTrialOver(now) /\ ~IsPlanOver(now)

IsPaidUp == tenant.tier # "TRIAL" /\ tenant.due > now

\* Nobody but the superadmin shuts a tenant out while its paid month runs: not
\* the cron with a clock of its own, nor a trial that ended before it paid.
PaidUpKeepsAccess ==
  [][IsPaidUp /\ HasAccess /\ IsPaidUp' /\ ~Superadmin => HasAccess']_vars
=============================================================================
