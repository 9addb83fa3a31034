CONSTANTS
  Adapters = {"discord", "ask", "telegram", "cli"}
  ChunkSizes = {1, 3}
  QueueSize = 1
  OverflowAt = 1
  MaxMsgLen = 2
  ApiOutcomes = {"ok", "failed"}
  MaxText = 3
  MaxTools = 1
SPECIFICATION FairSpec
INVARIANTS
  TypeOK
  ReadsInOrder
  ShownIsRecorded
  RecordedIsWhole
PROPERTIES
  WorkerFree
  ExecutorEnds
CHECK_DEADLOCK FALSE
