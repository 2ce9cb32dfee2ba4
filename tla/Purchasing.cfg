SPECIFICATION Spec
CONSTANTS
  Orders = {o1}
  Items = {x, y}
  RoastedItems = {y}
  Purchases = {p1, p2, p3}
  Keys = {k1}
  Users = {u1, u2}
  MaxDirect = 1
  MaxUnits = 2
  MaxTotal = 2
  MaxRevisions = 1
SYMMETRY Symmetry
INVARIANTS TypeOK PaidIsPayments BooksMatchPurchases OrderIsReceipts
  ClosedIsReceived OverReceiptBounded
CHECK_DEADLOCK FALSE
