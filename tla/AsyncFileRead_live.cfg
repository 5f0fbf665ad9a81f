CONSTANTS
  o1 = o1
  o2 = o2
  o3 = o3
  Objects <- MCTwoObjects
  NULL = NULL
  Priorities = {125, 126}
  MaxRequests = 3
  MaxWaits = 1
SPECIFICATION FairSpec
INVARIANTS WaitMeansProcessed
PROPERTIES WaitReturns RequestAnswered
