SPECIFICATION FairSpec
CONSTANTS
  P1 = P1
  P2 = P2
  Proc <- Procs2
  PIPESIZE = 2
  WRAP = 4
  Val = {0, 1}
  MaxLen = 2
  Kills = TRUE
  None = None
CHECK_DEADLOCK FALSE
INVARIANTS
  PipeSound
PROPERTIES
  ImplementsFifo
  EofSeen
