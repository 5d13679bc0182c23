CONSTANTS
    Handle = {h1, h2, h3}
    Fd = {f1, f2}
    ZeroFd = f0
    HandlerThreads = 3
SPECIFICATION Spec
SYMMETRY Symmetry
INVARIANTS TypeOK OneNodePerFd OneThreadClosesRightly OnlyDefaultIsWrong
