CONSTANTS
  Callers = {c1, c2}
  MaxCalls = 3
  MaxLines = 2
  MayRepeat = TRUE
  GoesDumb = "started"
SPECIFICATION FairSpec
INVARIANTS
  TypeOK
  OwnAnswer
  NoOneStranded
PROPERTY CallsReturn
CHECK_DEADLOCK FALSE
