CONSTANTS
  Producers = {p1}
  MaxLines = 3
  Size = 2
  RollMb = 2
  MegaByte = 2
  RollWrap = 8
  SizeOf <- LineSizes
SPECIFICATION FairSpec
CHECK_DEADLOCK FALSE
PROPERTIES Guaranteed
