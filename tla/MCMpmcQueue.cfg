CONSTANTS
  Producers = {p1, p2}
  Consumers = {c1, c2}
  Values = {v1, v2}
  None = None
  Size = 2
  MaxSeq = 4
SPECIFICATION Spec
SYMMETRY Symm
INVARIANTS SlotExclusive IInv
PROPERTIES FifoSpec HonestFailure
