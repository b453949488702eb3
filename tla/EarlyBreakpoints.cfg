SPECIFICATION Spec
CONSTANTS
  Files = {f1}
  NoFile = NoFile
  Flushers = {k1, k2}
  Nobody = Nobody
  Attach = FALSE
  Live = TRUE
  Asks = {"run", "resume"}
  Does = {}
  MaxSets = 1
  PipeCap = 1
  MaxNest = 0
  PollBatch = 1
  CmdCap = 2
  EvCap = 2
  EarlySets = TRUE
  MayCrash = FALSE
  Patient = TRUE
  MaxPauses = 1
INVARIANTS
  LastSetWins
CHECK_DEADLOCK FALSE
