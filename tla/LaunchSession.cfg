SPECIFICATION Spec
CONSTANTS
  Files = {f1, f2}
  NoFile = NoFile
  Flushers = {k1, k2}
  Nobody = Nobody
  Attach = FALSE
  Live = TRUE
  Asks = {"run", "runNoDebug", "resume", "query", "pause"}
  Does = {"end", "unnamed"}
  MaxSets = 2
  PipeCap = 1
  MaxNest = 0
  PollBatch = 1
  CmdCap = 1
  EvCap = 2
  EarlySets = FALSE
  MayCrash = FALSE
  Patient = TRUE
  MaxPauses = 1
SYMMETRY FileSymmetry
INVARIANTS
  TypeOK
  CallInOnePlace
  NoStalePause
  VerifiedAfterResponse
  LastSetWins
CHECK_DEADLOCK FALSE
