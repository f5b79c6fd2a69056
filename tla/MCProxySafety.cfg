SPECIFICATION Spec
CONSTANTS
  list = list
  call = call
  ext  = ext
  Ids <- MCIds
  MethodOf <- MCMethodOf
  Pushes = {note}
  InCap = 1
  Results = {"object", "odd", "null", "error"}
  NoMsg = NoMsg
INVARIANTS
  TypeOK
  PendingIsInFlight
  AnsweredBeforeNextLine
  OneAnswer
  NoAnswerLost
  PushBeforeAnswer
  InjectedOnTime
