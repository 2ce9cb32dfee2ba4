SPECIFICATION Spec
CONSTANTS
  Kinds = {"CREDIT"}
  Orders = {o1}
  Clerks = {c1, c2}
  MaxQty = 1
  MaxStock = 2
  MaxPayments = 0
  ShippingCosts = {0}
  UpsertKeyInSchema = TRUE
  NoOrder = NoOrder
INVARIANT GoodsLeaveOnce
CHECK_DEADLOCK FALSE
SYMMETRY ClerkSymmetry
