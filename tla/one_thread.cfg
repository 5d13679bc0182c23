CONSTANTS
    Client = {c1, c2}
    Fd = {f1, f2}
    NoFd = NoFd
    Flag = {rw, ro}
    ReadOnly = ro
    HandlerThreads = 1
    NetworkMount = FALSE
SPECIFICATION FairSpec
INVARIANT KernelBacksTable
PROPERTY CallsReturn
