SPECIFICATION Spec
CONSTANTS
  Proxies = {p1, p2}
  Names = {a}
  UserNames = {a}
  Cap = 1
  MaxSize = 3
  User = User
  Nobody = Nobody
SYMMETRY ProxySymmetry
INVARIANTS
  WholeOrAbsent
  NoPartialRemains
  LogTellsTheTruth
  AttemptsAreLogged
PROPERTIES
  ReplacesOnlyLatecomers
