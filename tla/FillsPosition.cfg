SPECIFICATION Spec
CONSTANTS
  w1 = w1
  w2 = w2
  sbin = sbin
  infy = infy
  Workers = {w1, w2}
  Symbols = {sbin, infy}
  Quantities = {1, 2}
  Prices = {3, 5}
  MaxFills = 3
SYMMETRY Symmetry
CHECK_DEADLOCK FALSE
INVARIANT PositionConserves
