SPECIFICATION CodeSpec
CONSTANTS
  list = list
  call = call
  ext  = ext
  Ids <- MCIds
  MethodOf <- MCMethodOf
  Pushes = {note}
  InCap = 1
  Results = {"object", "null"}
  NoMsg = NoMsg
PROPERTIES
  RequestsAnswered
  PushesRelayed
  KeepsPromise
