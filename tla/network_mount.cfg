CONSTANTS
    Client = {c1, c2}
    Fd = {f1, f2, f3}
    NoFd = NoFd
    Flag = {ro}
    ReadOnly = ro
    HandlerThreads = 2
    NetworkMount = TRUE
SPECIFICATION Spec
SYMMETRY Symmetry
INVARIANTS TypeOK IInv DescriptorsAccounted
PROPERTY ImplementsVfsLock
