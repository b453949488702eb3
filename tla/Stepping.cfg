SPECIFICATION Spec
CONSTANTS
  Main = main
  Coroutines = {co}
  NoThread = NoThread
  TailFrames = {TRUE, FALSE}
  BreakOnCoroutineErrors = TRUE
  MaxDepth = 3
  MaxLoops = 2
INVARIANTS
  TypeOK
  StepSkipsCalls
  NoStepMissed
  StepThreadRuns
