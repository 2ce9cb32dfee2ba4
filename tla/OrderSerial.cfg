SPECIFICATION SerialSpec
CONSTANTS
  Kinds = {"DIRECT", "WALK_IN", "CREDIT", "MANUAL", "MIDTRANS"}
  Orders = {o1}
  Clerks = {c1}
  MaxQty = 1
  MaxStock = 1
  MaxPayments = 2
  ShippingCosts = {0, 1}
  UpsertKeyInSchema = TRUE
  NoOrder = NoOrder
INVARIANTS GoodsLeaveOnce VoidIsReversed PaidWithinTotal StatusMatchesPaid
PROPERTY VoidIsFinal
CHECK_DEADLOCK FALSE
