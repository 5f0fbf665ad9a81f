CONSTANTS
  MaxLogins = 2
  MaxAsked = 1
  MaxActs = 3
  MaxFaults = 1
SPECIFICATION Spec
INVARIANTS VersionAfterChallenge
CHECK_DEADLOCK FALSE
