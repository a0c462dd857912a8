SPECIFICATION Spec
CONSTANTS
  PerSecond = 3
  MAX_SS = 1
  MAX_MM = 1
  MAX_HH = 1
  MaxPulses = 30
INVARIANTS TypeOK SystemClockKeepsTime
CHECK_DEADLOCK FALSE
