SPECIFICATION FairSpec
CONSTANTS
  w1 = w1
  w2 = w2
  sbin = sbin
  infy = infy
  k1 = k1
  k2 = k2
  NoKey = NoKey
  NoExternal = NoExternal
  Workers = {w1, w2}
  Symbols = {sbin, infy}
  Requests <- OneRequest
  Operations <- AllOperations
  UpdateWords <- LifeWords
  FillQuantities = {0}
  FillPrices = {0, 1}
  BrokerMode = "stub"
  Discipline = "answered"
  MaxOrders = 1
  MaxHistory = 5
  MaxRestarts = 0
  MaxOrderQuantity = 1
  MaxSymbolPositionQuantity = 1
  MaxOpenPositions = 1
INVARIANT TypeOK
INVARIANT HistoryLegal
INVARIANT FillsAccounted
PROPERTY SubmissionsAnswered
PROPERTY CancelsConcluded
PROPERTY LedgerCatchesUp
