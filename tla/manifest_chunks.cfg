SPECIFICATION Spec
CONSTANTS
  Lists <- MCLists
  Limits = {0, 14, 15, 17, 18, 20, 23, 40}
  RecordBytes <- MCRecordBytes
  FixedBytes = 10
  Batch = "ours"
  Strangers <- MCStrangers
  MaxReplaced = 2
INVARIANTS
  ChunksFit
  CutIntoGroups
  RoundTrip
  WorkerReadsItsJob
CHECK_DEADLOCK FALSE
