CONSTANTS
  Messages <- MCMessages
  Direct <- MCDirect
  AllowedUserIDs = {"ann", "bob"}
  MentionResponse = TRUE
  Configs = {{"discord"}, {"telegram", "cli"}}
  QueueSize = 2
  Repeated <- MCRepeated
  MaxEvents = 2
  MaxExpired = 1
SPECIFICATION Spec
INVARIANTS
  TypeOK
  OneAtATime
  InOrderAccepted
  OnceWhileRemembered
PROPERTY
  AcceptedHandled
\* Nobody need write another message.
CHECK_DEADLOCK FALSE
