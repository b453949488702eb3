SPECIFICATION Spec
CONSTANTS
  Files = {f1}
  NoFile = NoFile
  Flushers = {k1, k2}
  Nobody = Nobody
  Attach = FALSE
  Live = FALSE
  Asks = {"run", "runNoDebug", "resume", "resumeThread"}
  Does = {"fail", "end", "print"}
  MaxSets = 1
  PipeCap = 1
  MaxNest = 1
  PollBatch = 1
  CmdCap = 1
  EvCap = 2
  EarlySets = TRUE
  MayCrash = FALSE
  Patient = FALSE
  MaxPauses = 1
INVARIANTS
  PausedMeansWaiting
  ClosedLeavesNoCaller
  OutputBeforeTerminated
PROPERTIES
  HandsOff
CHECK_DEADLOCK FALSE
