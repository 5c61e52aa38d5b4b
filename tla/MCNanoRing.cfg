CONSTANTS
  Producers = {p1, p2, p3}
  MaxLines = 7
  Size = 2
  Wrap = 4
  RollMb = 2
  MegaByte = 2
  RollWrap = 8
  SizeOf <- LineSizes
SPECIFICATION FairSpec
CHECK_DEADLOCK FALSE
INVARIANTS Accounted LossNeedsOverrun FilesComplete
PROPERTIES Delivered
