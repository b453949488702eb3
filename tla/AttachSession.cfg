SPECIFICATION BusyProgramSpec
CONSTANTS
  Files = {f1}
  NoFile = NoFile
  Flushers = {k1, k2}
  Nobody = Nobody
  Attach = TRUE
  Live = TRUE
  Asks = {"run", "resume", "terminate"}
  Does = {"stop"}
  MaxSets = 1
  PipeCap = 1
  MaxNest = 0
  PollBatch = 1
  CmdCap = 1
  EvCap = 2
  EarlySets = FALSE
  MayCrash = TRUE
  Patient = TRUE
  MaxPauses = 1
PROPERTIES
  RequestAnswered
  PathAnswered
  ExitReported
  OrphanEnds
CHECK_DEADLOCK FALSE
