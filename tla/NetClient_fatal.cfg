CONSTANTS
  c1 = c1
  c2 = c2
  c3 = c3
  Connections <- MCTwoConnections
  MaxConnects = 2
  MaxQueue = 2
SPECIFICATION Spec
INVARIANTS NeverFatal
CHECK_DEADLOCK FALSE
