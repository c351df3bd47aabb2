SPECIFICATION Spec
CONSTANTS
  w1 = w1
  w2 = w2
  sbin = sbin
  k1 = k1
  k2 = k2
  NoKey = NoKey
  Workers = {w1, w2}
  Symbols = {sbin}
  Requests <- RoundTrip
  UpdateWords = {"OPEN", "FILLED"}
  Serial = TRUE
  Failing = {}
  MaxOrders = 2
  MaxHistory = 4
  MaxRestarts = 0
  MaxOrderQuantity = 2
  MaxSymbolPositionQuantity = 2
  MaxOpenPositions = 1
SYMMETRY Symmetry
INVARIANT LatestPositionPersisted
CHECK_DEADLOCK FALSE
