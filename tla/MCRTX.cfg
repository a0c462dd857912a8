SPECIFICATION FairSpec
CONSTANTS
  NULL = NULL
  TOTAL_NUM_PROC = 5
  TOTAL_NUM_IPROC = 3
  NUM_ENV = 4
  Priority <- Table
  BootPid = 6
  NullProcs = {5, 7}
  ChangesAllowed <- Change
  MaxNest = 2
  Commands = {"cd", "n", "s", "print"}
  MaxShown = 1
  MaxLines = 3
CHECK_DEADLOCK FALSE
INVARIANTS RTXTypeOK EnvelopeBudget StopsOnlyWhenSpent ConsoleHasRequest LowLevelsStarve
PROPERTIES ConsoleAnswers ConsoleReturns
