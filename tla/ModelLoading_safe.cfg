CONSTANTS
  m1 = m1
  m2 = m2
  o1 = o1
  o2 = o2
  Models <- MCModels
  MaxCalls = 2
  Objects <- MCObjects
  NULL = NULL
  Priorities = {125, 126}
  MaxRequests = 4
  MaxWaits = 1
SPECIFICATION Spec
SYMMETRY Symmetry
INVARIANTS CallbackForLiveModel ModelsComplete CallsInOrder
PROPERTIES ReaderSpec WaitForLoadLoads
