CONSTANTS
  c1 = c1
  c2 = c2
  c3 = c3
  Connections <- MCTwoConnections
  MaxConnects = 3
  MaxQueue = 2
SPECIFICATION FairSpec
INVARIANTS ClientFollows ConnectsIdleConnection EventsInOrder
PROPERTIES DisconnectingEnds
CHECK_DEADLOCK FALSE
