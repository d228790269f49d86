CONSTANTS
  p1 = p1
  p2 = p2
  p3 = p3
  b1 = b1
  b2 = b2
  b3 = b3
  Proc = {p1, p2}
  Buf = {b1, b2, b3}
  Block = {n1, n2, n3, n4}
  Val = {0, 1}
  MaxPins = 1
  None = None
SYMMETRY Perms
SPECIFICATION Spec
INVARIANTS
  BuffersHeld
PROPERTIES
  ImplementsBlocks
