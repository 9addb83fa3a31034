CONSTANTS
  Handlers = {h1, h2}
  MaxTurnsInContext = 3
  MaxContextTokens = 9
  MaxHistoryTurns = 2
  MaxAssistantChars = 2
  MaxAppendBytes = 6
  Lengths = {1, 3}
  MaxTurns = 4
  MessageIDs = {1, 2, 3}
  MaxChunk = 2
  MaxAnswer = 6
  MaxLen = 3
  MaxText = 7
  Names = {1, 2}
  TriggerLengths = {0, 1, 2}
  MaxTriggers = 2
  MaxChanges = 1
SPECIFICATION Spec
INVARIANTS
  ToldInOrder
  DeltasTellAll
  SplitKeepsText
  LongestTrigger
\* Sessions, answers and texts end.
CHECK_DEADLOCK FALSE
