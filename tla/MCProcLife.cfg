SPECIFICATION FairSpec
CONSTANTS
  N = 3
  MaxPid = 5
  None = 0
  Targets <- KillInitToo
CHECK_DEADLOCK FALSE
INVARIANTS
  TableSound
PROPERTIES
  FreshNotKilled
  ImplementsTree
  ZombiesReaped
