CONSTANTS
    Client = {c1, c2}
    NPage = 2
    MaxTxn = 2
    MaxFaults = 2
SPECIFICATION Spec
SYMMETRY Symmetry
CHECK_DEADLOCK FALSE
INVARIANTS TypeOK OnlyRefusalMisleads WriterAlone JournalMatchesPager
PROPERTY ImplementsAtomicDb
CONSTRAINT MisledBound
