CONSTANTS
  Turns = {t1, t2}
  Registered = {a}
  Names = {a, b}
  Inputs = {x}
  MaxToolRounds = 2
  MaxUses = 2
SPECIFICATION Spec
\* Turns end.
CHECK_DEADLOCK FALSE
INVARIANTS
  TypeOK
  EveryUseAnswered
  OwnResults
  OncePerTurn
