SPECIFICATION Spec
CONSTANTS
  NULL = NULL
  TOTAL_NUM_PROC = 4
  TOTAL_NUM_IPROC = 2
  NUM_ENV = 1
  Priority <- Booted
  BootPid = 2
  NullProcs = {5}
  ChangesAllowed = {}
  MaxNest = 1
PROPERTY DispatchesHighest
