CONSTANTS
  Producers = {p1}
  Consumers = {c1}
  Values = {v1, v2}
  None = None
  Size = 1
  MaxSeq = 2
SPECIFICATION Spec
INVARIANTS Bounded
