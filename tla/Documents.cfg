SPECIFICATION FairSpec
CONSTANTS
  Texts <- SmallTexts
  Inserts <- SmallInserts
  MaxLen = 3
  MaxSpan = 1
  MaxEdits = 2
  MaxPending = 2
  MaxOpens = 2
  UseInterpreter = TRUE
INVARIANTS
  TypeOK
  InSync
  SettledDiagnostics
  StaleDiagnosticsAreDue
PROPERTIES
  NeverOlderDiagnostics
  RenameHitsTheName
  DiagnosticsArrive
CHECK_DEADLOCK FALSE
