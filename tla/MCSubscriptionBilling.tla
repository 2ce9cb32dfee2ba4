----------------------- MODULE MCSubscriptionBilling -----------------------
(* The payment and the event ids for TLC. *)
EXTENDS SubscriptionBilling, TLC

CONSTANT p1

EventIds == Payments \X Kinds
=============================================================================
