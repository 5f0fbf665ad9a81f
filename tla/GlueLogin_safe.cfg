CONSTANTS
  MaxLogins = 2
  MaxAsked = 1
  MaxActs = 3
  MaxFaults = 1
SPECIFICATION FairSpec
INVARIANTS SessionsSound OperationOfIdle DisconnectExpected
PROPERTIES SelectsAfterAccept WaitsEnd
CHECK_DEADLOCK FALSE
