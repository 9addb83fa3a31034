CONSTANTS
  Handlers = {h1, h2}
  Jobs = {j1, j2}
  MaxTurnsBeforeCompaction = 2
  MaxTurnsInContext = 1
  MaxContextTokens = 0
  FlagAtBoot = {"idle"}
  BrainAtBoot = {"bridge"}
  Extraction = {"entities"}
  BrainOutcomes = {"stored"}
  WriteOutcomes = {"ok", "failed"}
  LineLengths = {"fits"}
  MayRestart = FALSE
  MaxTurns = 3
SPECIFICATION FairSpec
INVARIANTS
  TypeOK
  OneCompaction
  SnapshotStillGood
  NothingForgotten
PROPERTIES
  ResponsePathFree
  CompactionFinishes
