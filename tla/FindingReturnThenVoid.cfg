SPECIFICATION SerialSpec
CONSTANTS
  Kinds = {"CREDIT"}
  Orders = {o1}
  Clerks = {c1}
  MaxQty = 1
  MaxStock = 1
  MaxPayments = 0
  ShippingCosts = {0}
  UpsertKeyInSchema = TRUE
  NoOrder = NoOrder
INVARIANT RestoredWithinSold
CHECK_DEADLOCK FALSE
