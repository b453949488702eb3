SPECIFICATION Spec
CONSTANTS
  Main = main
  Coroutines = {co}
  NoThread = NoThread
  TailFrames = {TRUE, FALSE}
  BreakOnCoroutineErrors = TRUE
  MaxDepth = 3
  MaxLoops = 2
INVARIANTS
  ErrorsInspected
CHECK_DEADLOCK FALSE
