CONSTANTS
  Handlers = {h1, h2}
  MaxTurnsInContext = 3
  MaxContextTokens = 9
  MaxHistoryTurns = 2
  MaxAssistantChars = 2
  MaxAppendBytes = 6
  Lengths = {1, 3}
  MaxTurns = 4
SPECIFICATION PromptSpec
INVARIANT LastTurnsTold
\* The session has all its turns.
CHECK_DEADLOCK FALSE
