SPECIFICATION FairSpec
CONSTANTS
  Proc = {p1,p2}
  Block = {b1,b2}
  Value = {v1,v2}
  NotCached = NotCached
  LOGBLOCKS = 4
  MAXOPBLOCKS = 2
  NBUF = 5
  Held = 1
  OpBlocks = 1
  MaxCrashes = 2
INVARIANTS
  LogInv
  QuiescentDurable
  
PROPERTIES
  Atomicity
  SleeperWoken
