SPECIFICATION LiveSpec
CONSTANTS
  N = 2
  MaxSessions = 2
INVARIANTS
  ServedOnce
  BodyIntact
  NoSessionLeft
PROPERTIES
  RepliesInSession
  AskSettled
