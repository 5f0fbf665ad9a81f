CONSTANTS
  c1 = c1
  c2 = c2
  c3 = c3
  w1 = w1
  w2 = w2
  Connections <- MCConnections
  Streams <- MCStream
  Workers <- MCTwoWorkers
  NULL = NULL
  TimesOut = FALSE
  MaxConnects = 2
SPECIFICATION FairSpec
INVARIANTS OneServer WorkerForPermit
PROPERTIES CallbacksSpec EventuallyDisconnected
CHECK_DEADLOCK FALSE
