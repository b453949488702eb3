SPECIFICATION FairSpec
CONSTANTS
  Files = {f1}
  NoFile = NoFile
  Flushers = {k1, k2}
  Nobody = Nobody
  Attach = FALSE
  Live = TRUE
  Asks = {"run", "resume"}
  Does = {}
  MaxSets = 3
  PipeCap = 2
  MaxNest = 0
  PollBatch = 1
  CmdCap = 2
  EvCap = 1
  EarlySets = FALSE
  MayCrash = FALSE
  Patient = TRUE
  MaxPauses = 1
PROPERTIES
  RequestAnswered
CHECK_DEADLOCK FALSE
