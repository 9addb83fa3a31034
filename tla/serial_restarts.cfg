CONSTANTS
  Handlers = {h1}
  Jobs = {j1, j2}
  MaxTurnsBeforeCompaction = 3
  MaxTurnsInContext = 2
  MaxContextTokens = 0
  FlagAtBoot = {"absent", "idle"}
  BrainAtBoot = {"bridge", "nil"}
  Extraction = {"entities", "none"}
  BrainOutcomes = {"stored", "unavailable", "write_failed"}
  WriteOutcomes = {"ok"}
  LineLengths = {"fits", "too_long"}
  MayRestart = TRUE
  MaxTurns = 6
SPECIFICATION Spec
INVARIANT DiskMatchesMemory
PROPERTY ConversationKept
