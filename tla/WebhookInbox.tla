---------------------------- MODULE WebhookInbox ----------------------------
(***************************************************************************)
(* The webhook inbox (src/lib/webhook-inbox.ts): claimWebhookEvent and the *)
(* frame its callers put around it.  A provider may deliver an event any   *)
(* number of times, concurrently too; each delivery claims the event's row *)
(* or is answered as a duplicate, handles it in a transaction that ends by *)
(* updating the row, and marks the row FAILED when that throws.            *)
(*                                                                         *)
(* Every statement outside that transaction is an action.  The module that *)
(* extends this one says what the transaction does (Finish) and what a     *)
(* delivery reads before it claims (Receive).                              *)
(***************************************************************************)
EXTENDS Integers

CONSTANTS
  Events,      \* event ids
  NoEvent,
  Deliveries,  \* requests that may be handled at the same time
  Lease,       \* DEFAULT_LEASE_MS, in ticks
  Stuck,       \* STUCK_THRESHOLD_MS
  MaxTime      \* bound: the clock stops here

ASSUME EventsAssumption == NoEvent \notin Events
ASSUME TimesAssumption ==
  Lease \in Nat /\ Stuck \in Nat /\ MaxTime \in Nat /\ Lease <= Stuck

VARIABLES
  now,      \* getCurrentDate()
  event,    \* webhook_events rows: status and receivedAt
  delivery  \* requests under way

inboxVars == <<now, event, delivery>>
-----------------------------------------------------------------------------
EventStatuses == {"RECEIVED", "PROCESSED", "IGNORED", "FAILED"}
EventRow == [status: {"NONE"}, receivedAt: {0}]
            \cup [status: EventStatuses, receivedAt: Nat]
Places == {"idle", "arrived", "claim", "look", "reclaim", "handle", "fail"}
Delivery == [pc: Places, event: Events \cup {NoEvent}, at: Nat,
             saw: EventStatuses]

Idle == [pc |-> "idle", event |-> NoEvent, at |-> 0, saw |-> "RECEIVED"]

InboxInit ==
  /\ now = 0
  /\ event = [e \in Events |-> [status |-> "NONE", receivedAt |-> 0]]
  /\ delivery = [d \in Deliveries |-> Idle]

Goto(d, pc) == delivery' = [delivery EXCEPT ![d].pc = pc]
Answer(d) == delivery' = [delivery EXCEPT ![d] = Idle]

\* The claim is made, and with it the request's clock is done with.
Handle(d) == delivery' = [delivery EXCEPT
                           ![d] = [Idle EXCEPT !.pc = "handle",
                                               !.event = delivery[d].event]]

\* A request comes in and reads what it is about.
Receive(d, e) ==
  /\ delivery[d].pc = "idle"
  /\ delivery' = [delivery EXCEPT ![d] = [@ EXCEPT !.pc = "arrived",
                                                   !.event = e]]
  /\ UNCHANGED <<now, event>>

\* claimWebhookEvent looks at the clock once.
Stamp(d) ==
  /\ delivery[d].pc = "arrived"
  /\ delivery' = [delivery EXCEPT ![d].pc = "claim", ![d].at = now]
  /\ UNCHANGED <<now, event>>

MutantReceived(r, at) == r                  \* claimed, but not stored
Received(r, at) == [status |-> "RECEIVED", receivedAt |-> at]

\* webhookEvent.create, refused by the unique key when the event is known.
Create(d) ==
  LET e == delivery[d].event
  IN  /\ delivery[d].pc = "claim"
      /\ IF event[e].status = "NONE"
         THEN /\ event' = [event EXCEPT ![e] = Received(@, delivery[d].at)]
              /\ Handle(d)
         ELSE UNCHANGED event /\ Goto(d, "look")
      /\ UNCHANGED now

\* The row of a known event: a failed one, or one received too long ago, may
\* be tried again; any other is a duplicate.
IsRetryable(r, at) ==
  \/ r.status = "FAILED"
  \/ r.status = "RECEIVED" /\ r.receivedAt < at - Stuck

Look(d) ==
  LET r == event[delivery[d].event]
  IN  /\ delivery[d].pc = "look"
      /\ IF IsRetryable(r, delivery[d].at)
         THEN delivery' = [delivery EXCEPT ![d].pc = "reclaim",
                                           ![d].saw = r.status]
         ELSE Answer(d)
      /\ UNCHANGED <<now, event>>

\* updateMany where the status is the one seen, and the lease is over.
IsReclaimable(r, saw, at) ==
  r.status = saw /\ (saw = "RECEIVED" => r.receivedAt < at - Lease)

Reclaim(d) ==
  LET e == delivery[d].event
  IN  /\ delivery[d].pc = "reclaim"
      /\ IF IsReclaimable(event[e], delivery[d].saw, delivery[d].at)
         THEN /\ event' = [event EXCEPT ![e] = Received(@, delivery[d].at)]
              /\ Handle(d)
         ELSE UNCHANGED event /\ Answer(d)
      /\ UNCHANGED now

\* The transaction of a delivery commits and sets the event's status; its
\* reply may be lost, and then the catch block follows.
Finish(d, status, replied) ==
  /\ delivery[d].pc = "handle"
  /\ event' = [event EXCEPT ![delivery[d].event].status = status]
  /\ IF replied THEN Answer(d) ELSE Goto(d, "fail")
  /\ UNCHANGED now

\* The transaction rolls back.
Throw(d) ==
  /\ delivery[d].pc = "handle"
  /\ Goto(d, "fail")
  /\ UNCHANGED <<now, event>>

\* The catch block: the row is found by its id, whatever its status has become
\* since, and whoever handles it now.
MarkFailed(d) ==
  /\ delivery[d].pc = "fail"
  /\ event' = [event EXCEPT ![delivery[d].event].status = "FAILED"]
  /\ Answer(d)
  /\ UNCHANGED now

\* The process stops, or the reply to a claim or the update of the catch block
\* is lost.
Die(d) ==
  /\ delivery[d].pc # "idle"
  /\ Answer(d)
  /\ UNCHANGED <<now, event>>

Tick == now < MaxTime /\ now' = now + 1 /\ UNCHANGED <<event, delivery>>

\* The steps that touch nothing but the inbox.
InboxStep(d) ==
  \/ Stamp(d) \/ Create(d) \/ Look(d) \/ Reclaim(d)
  \/ Throw(d) \/ MarkFailed(d) \/ Die(d)

\* An event has a row from its claim on, and a delivery past the claim is
\* about an event that has one.
InboxTypeOK ==
  /\ now \in Nat
  /\ event \in [Events -> EventRow]
  /\ delivery \in [Deliveries -> Delivery]
  /\ \A d \in Deliveries :
       /\ delivery[d].pc # "idle" => delivery[d].event \in Events
       /\ delivery[d].pc \in {"look", "reclaim", "handle", "fail"} =>
            event[delivery[d].event].status # "NONE"
=============================================================================
