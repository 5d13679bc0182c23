CONSTANTS
    Client = {c1, c2}
    NPage = 2
    MaxTxn = 1
    MaxFaults = 1
SPECIFICATION RestartSpec
CHECK_DEADLOCK FALSE
INVARIANT CommitIsIrrevocable
