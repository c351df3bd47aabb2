SPECIFICATION Spec
CONSTANTS
  w1 = w1
  w2 = w2
  sbin = sbin
  infy = infy
  k1 = k1
  k2 = k2
  NoKey = NoKey
  NoExternal = NoExternal
  Workers = {w1, w2}
  Symbols = {sbin, infy}
  Requests <- TwoBuys
  Operations <- AllOperations
  UpdateWords <- LifeWords
  FillQuantities = {0}
  FillPrices = {1}
  BrokerMode = "stub"
  Discipline = "serial"
  MaxOrders = 2
  MaxHistory = 5
  MaxRestarts = 0
  MaxOrderQuantity = 1
  MaxSymbolPositionQuantity = 1
  MaxOpenPositions = 1
SYMMETRY Symmetry
INVARIANT HistoryIsChain
INVARIANT OneBrokerOrderPerKey
INVARIANT ExternalIdFindsOwnOrder
PROPERTY ImplementsOrderBook
