SPECIFICATION Spec
CONSTANTS
  NULL = NULL
  TOTAL_NUM_PROC = 3
  TOTAL_NUM_IPROC = 2
  NUM_ENV = 2
  Priority <- Shared
  BootPid = 2
  NullProcs = {4}
  ChangesAllowed = {}
  MaxNest = 2
CHECK_DEADLOCK FALSE
INVARIANTS OneRunning EnvelopesConserved
PROPERTIES WakesBehind MailboxSpec
