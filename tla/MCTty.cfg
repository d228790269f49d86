\* When its bounded output is written the UART has nothing left to do.
SPECIFICATION MCSpec
CHECK_DEADLOCK FALSE
CONSTANTS
  p1 = p1
  p2 = p2
  c1 = c1
  c2 = c2
  Proc = {p1, p2}
  None = None
  INPUT_BUF_SIZE = 3
  WRAP = 6
  MaxRead = 2
  Cpu = {c1, c2}
  FifoSize = 3
  MaxWrite = 2
  MaxWrites = 2
  MaxSync = 2
  MaxInput = 1
INVARIANTS
  TtySound
PROPERTIES
  ImplementsLines
  LineTaken
  WritersReturn
