SPECIFICATION Spec
CONSTANTS
  Names = {a, b}
  Self = self
  Constructs = {"assign", "block", "for", "local", "global", "star", "local function", "initializer", "function", "method", "global function"}
  MaxSymbols = 3
  MaxRefs = 2
  MaxScopes = 4
  MaxAt = 9
SYMMETRY NameSymmetry
INVARIANTS
  TypeOK
  ResolvesAsLua
  CompletionSeesAsLua
  RenameKeepsReferences
  GlobalRenameKeepsBindings
CHECK_DEADLOCK FALSE
