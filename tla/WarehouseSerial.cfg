SPECIFICATION SerialSpec
CONSTANTS
  GreenLots = {g1, g2}
  Roasts = {r1}
  Issues = {i1}
  Counts = {}
  Users = {u1}
  Locations = {a, b}
  Receipts = {1}
  MaxKg = 1
  Corrected = {"ROASTED"}
  MaxAdjusted = 1
INVARIANT VoidLeavesNothing
PROPERTY PlacedStaysBacked
CHECK_DEADLOCK FALSE
SYMMETRY Symmetry
