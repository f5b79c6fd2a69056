SPECIFICATION Spec
CONSTANTS
  Procs = {p1, p2}
  MaxSerial = 3
  MaxStarts = 3
SYMMETRY Symmetric
INVARIANTS
  TypeOK
  SoloSaveIsAtomic
  StoredGrantLives
  NeverSpendsItsOwn
  NeverResends
PROPERTIES
  KeepsRefreshToken
