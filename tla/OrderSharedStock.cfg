SPECIFICATION SerialSpec
CONSTANTS
  Kinds = {"DIRECT", "CREDIT"}
  Orders = {o1, o2}
  Clerks = {c1}
  MaxQty = 2
  MaxStock = 2
  MaxPayments = 0
  ShippingCosts = {0}
  UpsertKeyInSchema = TRUE
  NoOrder = NoOrder
INVARIANTS PromisedStockOnHand DemandAccounted
PROPERTY ShelfKeepsPromises
CHECK_DEADLOCK FALSE
SYMMETRY Symmetry
