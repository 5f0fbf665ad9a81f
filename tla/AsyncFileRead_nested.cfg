CONSTANTS
  o1 = o1
  o2 = o2
  o3 = o3
  Objects <- MCObjects
  NULL = NULL
  Priorities = {125, 126, 130}
  MaxRequests = 3
  MaxWaits = 2
SPECIFICATION Spec
SYMMETRY Symmetry
INVARIANTS TypeOK OnePlace NoNullPointer NoLateCallback FlagsMatchLists
PROPERTIES KeepsOrder
