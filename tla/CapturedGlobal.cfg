SPECIFICATION Spec
CONSTANTS
  Names = {a, b}
  Self = self
  Constructs = {"assign", "block", "for", "local", "global", "star", "local function", "initializer", "function", "method", "global function"}
  MaxSymbols = 3
  MaxRefs = 2
  MaxScopes = 4
  MaxAt = 9
INVARIANTS
  RenameKeepsBindings
CHECK_DEADLOCK FALSE
