SPECIFICATION Spec
CONSTANTS
  Slots = 16
  Ring = 15
  MaxEvents = 33
INVARIANT DumpShowsRecent
CHECK_DEADLOCK FALSE
