SPECIFICATION Spec
CONSTANTS
  Kinds = {"CREDIT", "MIDTRANS"}
  Orders = {o1}
  Clerks = {c1}
  MaxQty = 2
  MaxStock = 2
  MaxPayments = 2
  ShippingCosts = {0}
  UpsertKeyInSchema = TRUE
  NoOrder = NoOrder
INVARIANTS PaidIsSumOfPayments BooksMatchDocuments DepositHeldUntilSale
CHECK_DEADLOCK FALSE
