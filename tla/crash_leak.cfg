CONSTANTS
    Client = {c1, c2}
    Fd = {f1, f2, f3}
    NoFd = NoFd
    Flag = {ro}
    ReadOnly = ro
    HandlerThreads = 2
    NetworkMount = FALSE
    RpcMayFail = FALSE
    MaxCrashes = 1
SPECIFICATION FaultSpec
INVARIANT ReservedLockHasOwner
