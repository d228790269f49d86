CONSTANTS
  p1 = p1
  p2 = p2
  a = a
  b = b
  Proc = {p1, p2}
  Inode = 2
  NINODE = 2
  Name = {a, b}
  Block = {1}
  MAXFILE = 1
  Calls <- FileCalls
  Crashes = TRUE
  None = None
SYMMETRY Perms
SPECIFICATION Spec
INVARIANTS
  DiskSound
  InodeTableTrue
