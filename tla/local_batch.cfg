SPECIFICATION FairSpec
CONSTANTS
  a = a  b = b  c = c
  Repositories = {a, b, c}
  Lists <- MCLists
  MaxFaults = 2
INVARIANTS
  AcceptedIsOnFile
  BatchFileTrue
  ExitCodeTrue
  FailuresStopNothing
  PendingWasNotDelivered
PROPERTIES
  BatchEnds
CHECK_DEADLOCK FALSE
