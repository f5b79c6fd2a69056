SPECIFICATION Spec
CONSTANTS
  Procs = {p1, p2}
  MaxSerial = 3
  MaxStarts = 3
INVARIANTS
  SaveIsAtomic
