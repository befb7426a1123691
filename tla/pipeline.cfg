SPECIFICATION FairSpec
CONSTANTS
  h1 = h1  h2 = h2  r1 = r1  r2 = r2
  NoCommit = NoCommit  NoRules = NoRules  NoArtifact = NoArtifact
  Dependencies <- MCDependencies
  Artifacts <- MCArtifacts
  Commits = {h1, h2}
  Rules = {r1, r2}
  Codes <- MCCodes
  Depth = 2
  MaxFaults = 2
INVARIANTS
  SavedVerdictTrue
  NoStageOnBadResult
  AllWellIsCompleted
  EarlierStagesSaved
  NothingLeftBehind
  ScannedAsRecorded
PROPERTIES
  ImplementsScan
  ScanEnds
CHECK_DEADLOCK FALSE
