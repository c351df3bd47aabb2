SPECIFICATION FeedSpec
CONSTANTS
  w1 = w1
  w2 = w2
  sbin = sbin
  k1 = k1
  NoKey = NoKey
  NoExternal = NoExternal
  Workers = {w1, w2}
  Symbols = {sbin}
  Requests <- TwoShares
  Operations = {"submit", "update", "cancel", "modify"}
  UpdateWords = {}
  FillQuantities = {0}
  FillPrices = {1}
  BrokerMode = "live"
  Discipline = "answered"
  MaxOrders = 1
  MaxHistory = 5
  MaxRestarts = 1
  MaxOrderQuantity = 2
  MaxSymbolPositionQuantity = 2
  MaxOpenPositions = 1
SYMMETRY Symmetry
INVARIANT BookedWithinBroker
INVARIANT EndsAgree
CHECK_DEADLOCK FALSE
