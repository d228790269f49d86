SPECIFICATION Spec
CONSTANTS
  p1 = p1
  p2 = p2
  f1 = f1
  f2 = f2
  Proc <- Procs2
  Initproc = p1
  NCPU = 1
  Frame <- Frames2
  MAX_SP = 4
  MaxPages = 2
  Val = {0, 1}
  Zero = 0
  Junk = 5
  Calls = {"sbrk", "sbrklazy", "fork", "exit"}
  AloneCalls = {"shrink", "copyout"}
  None = None
SYMMETRY FrameSymmetry
INVARIANTS
  MemoryAccounted
  PrivateMemory
