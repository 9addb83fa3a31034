CONSTANTS
  Callers = {c1, c2, c3}
  LoadOnStartup = {TRUE, FALSE}
  LongTurns = {2}
  MayStop = TRUE
  MaxTurns = 3
SPECIFICATION Spec
SYMMETRY Symmetry
INVARIANTS
  TypeOK
  OneSession
  NeverStale
