CONSTANTS
    Client = {c1, c2}
    Fd = {f1, f2, f3}
    NoFd = NoFd
    Flag = {ro}
    ReadOnly = ro
    HandlerThreads = 2
    NetworkMount = FALSE
    RpcMayFail = TRUE
    MaxCrashes = 1
SPECIFICATION FaultSpec
SYMMETRY Symmetry
INVARIANTS TableBoundsHandles CrashesKeepExclusion
PROPERTY ImplementsVfsLock
