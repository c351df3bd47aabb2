SPECIFICATION Spec
CONSTANTS
  b1 = b1
  b2 = b2
  g1 = g1
  g2 = g2
  sbin = sbin
  reliance = reliance
  Feeds = {g1, g2}
  Builders = {b1, b2}
  SymbolList <- OneSymbol
  Quotes <- Apart
  MaxMinute = 1
  MaxTicks = 3
  MaxBatch = 2
  MaxRestarts = 1
  MaxPolls = 2
  Disturbances = {"redelivered", "failed", "restarted", "overlapped"}
SYMMETRY Symmetry
INVARIANT TypeOK
INVARIANT BarsAreAggregates
INVARIANT NoTickLost
INVARIANT NoTickTwice
INVARIANT ClosedBarIsComplete
INVARIANT SinksAgree
PROPERTY ClosedBarStays
PROPERTY ImplementsClosedBars
CHECK_DEADLOCK FALSE
