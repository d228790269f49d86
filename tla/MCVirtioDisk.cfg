SPECIFICATION Spec
CONSTANTS
  P1 = P1
  P2 = P2
  P3 = P3
  Proc <- Procs3
  NUM = 7
  WRAP = 7
  Val = {0, 1}
  None = None
SYMMETRY Perms
INVARIANTS
  RingsTrue
PROPERTIES
  ImplementsOps
