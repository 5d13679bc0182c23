CONSTANTS
    Client = {c1, c2}
    NPage = 2
    MaxTxn = 1
    MaxFaults = 1
SPECIFICATION Spec
SYMMETRY Symmetry
CHECK_DEADLOCK FALSE
INVARIANT ReaderSeesContent
