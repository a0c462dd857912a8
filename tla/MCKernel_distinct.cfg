SPECIFICATION Spec
CONSTANTS
  NULL = NULL
  TOTAL_NUM_PROC = 3
  TOTAL_NUM_IPROC = 2
  NUM_ENV = 2
  Priority <- Distinct
  BootPid = 2
  NullProcs = {4}
  ChangesAllowed <- Crossing
  MaxNest = 2
CHECK_DEADLOCK FALSE
INVARIANTS TypeOK QueuesMatchStates BlockedHasNoMail WokenHasMail NoEnvelopeIdles NoFault
PROPERTIES DispatchesHighest
