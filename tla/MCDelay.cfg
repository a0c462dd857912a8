SPECIFICATION Spec
CONSTANTS
  NULL = NULL
  p1 = p1
  p2 = p2
  Proc = {p1, p2}
  Env = {1, 2, 3}
  Holder <- TwoAndOne
  Delays = {0, 2, 3}
  InOrder = TRUE
  MaxNest = 1
INVARIANTS TypeOK DelaysKept
PROPERTIES AlarmsSpec SleepersWake
