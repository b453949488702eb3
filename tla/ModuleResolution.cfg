SPECIFICATION Spec
CONSTANTS
    a = a
    b = b
    c = c
    native = native
    Modules = {a, b, c, native}
    Places = {1, 2}
    Natives = {native}
    Disks <- MCDisks
    Docs <- MCDocs
    Asks <- MCAsks
    MaxDepth = 2
    Budget = 4
    FileLimit = 2
    MaxVersion = 2
    MaxRequests = 2
    None = None
INVARIANTS
    TypeOK
    OnlyRealMembers
    CompleteWithinLimits
    NoReentry
    NativeResultCurrent
CHECK_DEADLOCK FALSE
