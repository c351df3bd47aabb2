SPECIFICATION Spec
CONSTANTS
  sbin = sbin
  reliance = reliance
  e1 = e1
  e2 = e2
  p1 = p1
  p2 = p2
  Symbols = {sbin, reliance}
  Closes = {1, 2, 3}
  Averages <- Leaning
  Engines = {e1, e2}
  Placers = {p1, p2}
  MaxBatch = 2
  MaxOpenPositions = 1
  MaxMinute = 1
  MaxBars = 2
  MaxPolls = 2
  MaxPlacings = 3
SYMMETRY Symmetry
INVARIANT TypeOK
INVARIANT IndicatorsConverge
INVARIANT OrdersFromBars
INVARIANT OneOrderPerBar
INVARIANT OnlyFirstSignalPlaced
CHECK_DEADLOCK FALSE
