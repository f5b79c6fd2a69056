SPECIFICATION Spec
CONSTANTS
  Cap = 1
  MaxSize = 2
  Missing = Missing
INVARIANTS
  TypeOK
  PostedAtMostOnce
  OkMeansPosted
  EgressIsLogged
  BeyondCapMeansWritten
