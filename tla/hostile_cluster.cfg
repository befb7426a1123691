SPECIFICATION Spec
CONSTANTS
  a = a  b = b  d = d  v1 = v1  v2 = v2  c1 = c1  c2 = c2
  ChunkSize = 1
  Repositories <- MCPair
  RuleVersions = {v1, v2}
  NoRules = NoRules
  ResultsConfigured = FALSE
  MaxTime = 1
  MaxRemovals = 1
  RemovalsAnytime = TRUE
  Controllers = {c1, c2}
  Snapshots <- MCPairChanging
  Groups <- MCGroups
  Deadline = 1
  MinDeadline = 1
  RetryMargin = 1
  ReadsMayFail = TRUE
  MaxExits = 1
INVARIANTS
  TypeOK
  StoredManifestIntact
  AdoptedSnapshot
  OneRoundRunning
  SettledNeverRescanned
  EveryRepositoryCountedOnce
PROPERTIES
  RoundsFollowPlan
SYMMETRY Symmetric
CHECK_DEADLOCK FALSE
