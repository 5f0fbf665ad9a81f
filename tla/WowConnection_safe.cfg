CONSTANTS
  c1 = c1
  c2 = c2
  c3 = c3
  w1 = w1
  w2 = w2
  Connections <- MCThreeConnections
  Streams <- MCStream
  Workers <- MCOneWorker
  NULL = NULL
  TimesOut = TRUE
  MaxConnects = 3
SPECIFICATION Spec
INVARIANTS ConnectionsCounted ReleasedOnce
CHECK_DEADLOCK FALSE
