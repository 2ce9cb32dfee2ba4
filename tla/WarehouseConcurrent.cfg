SPECIFICATION Spec
CONSTANTS
  GreenLots = {g1}
  Roasts = {r1}
  Issues = {i1}
  Counts = {n1}
  Users = {u1}
  Locations = {a}
  Receipts = {3}
  MaxKg = 1
  Corrected = {"GREEN"}
  MaxAdjusted = 1
INVARIANTS TypeOK StockIsLedger WipIsCharged LotIsDocuments
CHECK_DEADLOCK FALSE
