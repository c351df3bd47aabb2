SPECIFICATION Spec
CONSTANTS
  w1 = w1
  w2 = w2
  sbin = sbin
  k1 = k1
  k2 = k2
  NoKey = NoKey
  Workers = {w1, w2}
  Symbols = {sbin}
  Requests <- RoundTrip
  UpdateWords = {"OPEN", "FILLED"}
  Serial = TRUE
  Failing = {"save_new", "save_event", "save_trade"}
  MaxOrders = 2
  MaxHistory = 4
  MaxRestarts = 1
  MaxOrderQuantity = 1
  MaxSymbolPositionQuantity = 1
  MaxOpenPositions = 1
SYMMETRY Symmetry
INVARIANT TypeOK
INVARIANT OneBrokerOrderPerKey
INVARIANT BrokerOrdersInTable
INVARIANT EveryEventPersisted
INVARIANT TableLags
INVARIANT BooksPersisted
CHECK_DEADLOCK FALSE
