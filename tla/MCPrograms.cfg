SPECIFICATION MCSpec
CONSTANTS
  MAXARGS = 3
  NPROC = 7
  NOFILE = 5
  NPIPE = 3
  PIPESIZE = 1
  MaxWrite = 2
  Scripts <- MCScripts
  None = None
  HDR = 2
  NALLOC = 4
  HeapTop = 11
  MaxBytes = 5
  BUFSZ = 5
  FileArgs <- MCFileArgs
  Patterns <- MCPatterns
  Texts <- MCTexts
  BSIZE = 2
  NDIRECT = 2
  NINDIRECT = 2
  FSSIZE = 16
  NMETA = 3
  Inputs <- MCInputs
  W = 3
  PGSIZE = 4
  NFRAME = 24
  AddrSpace = 64
  MAXARG = 3
  USERSTACK = 2
  ALIGN = 2
  Programs <- MCProgs
  Argvs <- MCArgvs
  MaxCalls = 2
CHECK_DEADLOCK FALSE
INVARIANTS
  ParsesLikeGrammar
  ProcessesRight
  HeapSound
  MatcherExact
  OutputWhole
  ImageSound
  FramesAccounted
  AllOrNothing
  
PROPERTIES
  PromptReturns
  ZombiesReaped
