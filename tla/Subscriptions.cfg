SPECIFICATION Spec
CONSTANTS
  p1 = p1
  Payments = {p1}
  Kinds = {"settlement", "expire"}
  Tiers = {"PRO"}
  Edits = {"CANCELED"}
  Events <- EventIds
  NoEvent = NoEvent
  Deliveries = {d1, d2}
  Lease = 1
  Stuck = 1
  Month = 2
  Trial = 1
  Extensions = {1}
  MaxTime = 2
INVARIANTS TypeOK NoFreeMonth DoneMeansPaid
PROPERTIES SettledIsFinal PaidUpKeepsAccess
CHECK_DEADLOCK FALSE
