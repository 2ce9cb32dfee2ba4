SPECIFICATION Spec
CONSTANTS
  Kinds = {"WALK_IN", "DIRECT", "CREDIT", "MANUAL", "MIDTRANS"}
  Orders = {o1}
  Clerks = {c1}
  MaxQty = 2
  MaxStock = 2
  MaxPayments = 1
  ShippingCosts = {0}
  UpsertKeyInSchema = TRUE
  NoOrder = NoOrder
INVARIANTS TypeOK DemandAccounted NothingHeldOnceSold VoidHoldsNoStock VoidHoldsNoMoney HandoverIsWhole
CHECK_DEADLOCK FALSE
