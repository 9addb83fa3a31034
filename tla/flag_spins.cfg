CONSTANTS
  Handlers = {h1}
  Jobs = {j1}
  MaxTurnsBeforeCompaction = 2
  MaxTurnsInContext = 2
  MaxContextTokens = 0
  FlagAtBoot = {"absent"}
  BrainAtBoot = {"bridge"}
  Extraction = {"entities"}
  BrainOutcomes = {"stored"}
  WriteOutcomes = {"ok"}
  LineLengths = {"fits"}
  MayRestart = FALSE
  MaxTurns = 3
SPECIFICATION FairSpec
PROPERTY ResponsePathFree
