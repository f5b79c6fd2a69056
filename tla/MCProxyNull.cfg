SPECIFICATION Spec
CONSTANTS
  list = list
  call = call
  ext  = ext
  Ids <- ForwardedIds
  MethodOf <- ForwardedMethodOf
  Pushes = {note}
  InCap = 1
  Results = {"object", "odd", "null"}
  NoMsg = NoMsg
INVARIANTS
  DegradedBeatsBroken
