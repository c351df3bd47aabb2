SPECIFICATION Spec
CONSTANTS
  w1 = w1
  w2 = w2
  sbin = sbin
  infy = infy
  k1 = k1
  k2 = k2
  NoKey = NoKey
  NoExternal = NoExternal
  Workers = {w1, w2}
  Symbols = {sbin}
  Requests <- OneRequest
  Operations <- AllOperations
  UpdateWords <- EndWords
  FillQuantities = {0}
  FillPrices = {1}
  BrokerMode = "live"
  Discipline = "answered"
  MaxOrders = 3
  MaxHistory = 3
  MaxRestarts = 1
  MaxOrderQuantity = 1
  MaxSymbolPositionQuantity = 1
  MaxOpenPositions = 1
SYMMETRY Symmetry
INVARIANT WorkingOrdersArePlaced
