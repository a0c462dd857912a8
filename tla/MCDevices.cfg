SPECIFICATION Spec
CONSTANTS
  BufSize = 4
  Lines <- Typed
  Texts <- Displayed
  Env = {1, 2}
  NoEnv = 0
  MaxNest = 2
INVARIANTS TypeOK BuffersExclusive LineArrives KeyboardDropsNone TextPrintedWhole
PROPERTIES TextsTakeTurns KeyboardGoesOn TextsAreTaken
