SPECIFICATION FairSpec
CONSTANTS
  Kinds = {"MANUAL", "MIDTRANS"}
  Orders = {o1}
  Clerks = {c1}
  MaxQty = 1
  MaxStock = 1
  MaxPayments = 1
  ShippingCosts = {0}
  UpsertKeyInSchema = TRUE
  NoOrder = NoOrder
PROPERTY OverdueReservationEnds
CHECK_DEADLOCK FALSE
