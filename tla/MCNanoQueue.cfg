CONSTANTS
  Producers = {p1, p2, p3}
  MaxLines = 5
  Size = 2
  RollMb = 2
  MegaByte = 2
  RollWrap = 8
  SizeOf <- LineSizes
SPECIFICATION Spec
SYMMETRY Symm
CHECK_DEADLOCK FALSE
INVARIANTS OwnItem NothingDropped
