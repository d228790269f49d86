SPECIFICATION Spec
CONSTANTS
  CPU = {0, 1}
  N = 2
  NPROC = 4
  LEVELS = 2
  SLICE = 1
  BOOST = 1
  Kills = {2}
INVARIANTS
  OneCpu
  ChildNotStarted
  NoStranded
