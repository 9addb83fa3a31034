CONSTANTS
  Handlers = {h1, h2}
  Jobs = {j1}
  MaxTurnsBeforeCompaction = 3
  MaxTurnsInContext = 2
  MaxContextTokens = 0
  FlagAtBoot = {"idle"}
  BrainAtBoot = {"bridge"}
  Extraction = {"entities"}
  BrainOutcomes = {"stored"}
  WriteOutcomes = {"ok"}
  LineLengths = {"fits"}
  MayRestart = FALSE
  MaxTurns = 4
SPECIFICATION Spec
INVARIANT Resumable
