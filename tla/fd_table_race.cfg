CONSTANTS
    Handle = {h1, h2}
    Fd = {f1, f2, f3}
    ZeroFd = f0
    HandlerThreads = 2
SPECIFICATION Spec
SYMMETRY Symmetry
INVARIANTS CloseRoutineMatchesFile
