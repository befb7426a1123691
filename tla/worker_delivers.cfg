SPECIFICATION FairSpec
CONSTANTS
  ResultsConfigured = TRUE
  Delays = 4
  MaxFaults = 6
INVARIANTS
  AcceptedInBudget
  GivesUpAfterAllAttempts
PROPERTIES
  ImplementsPod
  PodEnds
CHECK_DEADLOCK FALSE
