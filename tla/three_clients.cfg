CONSTANTS
    Client = {c1, c2, c3}
    Fd = {f1, f2, f3, f4}
    NoFd = NoFd
    Flag = {ro}
    ReadOnly = ro
    HandlerThreads = 2
    NetworkMount = FALSE
SPECIFICATION Spec
SYMMETRY Symmetry
INVARIANTS TableMatchesHandles WriterExcludesReaders BeliefIsHeld AssertionsHold UnusedFdsAreTemporary
PROPERTY OnlyRacingCloseDropsLocks
