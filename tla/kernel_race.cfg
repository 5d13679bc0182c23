CONSTANTS
    Client = {c1, c2}
    Fd = {f1, f2, f3}
    NoFd = NoFd
    Flag = {rw, ro}
    ReadOnly = ro
    HandlerThreads = 2
    NetworkMount = FALSE
SPECIFICATION Spec
INVARIANT KernelBacksTable
