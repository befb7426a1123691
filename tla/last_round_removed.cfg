SPECIFICATION Spec
CONSTANTS
  a = a  b = b  d = d  v1 = v1  v2 = v2  c1 = c1  c2 = c2
  ChunkSize = 2
  Repositories <- MCPair
  RuleVersions = {v1}
  NoRules = NoRules
  ResultsConfigured = FALSE
  MaxTime = 2
  MaxRemovals = 1
  RemovalsAnytime = FALSE
  Controllers = {c1}
  Snapshots <- MCPairFixed
  Groups <- MCGroups
  Deadline = 2
  MinDeadline = 1
  RetryMargin = 1
  ReadsMayFail = FALSE
  MaxExits = 1
PROPERTIES
  FinishedRoundNeverRecreated
CHECK_DEADLOCK FALSE
