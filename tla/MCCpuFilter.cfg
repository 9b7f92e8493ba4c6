SPECIFICATION BoundedSpec
CONSTANTS
    c1 = c1
    c2 = c2
    Cpus = {c1, c2}
    Threads = {1, 2}
    Transactions = {3}
    PrevStates = {0, 2, 130, 2048}
    Times = {1, 2}
    Word = 8
    MaxSlices = 3
    MaxWaits = 2
    MaxWaitTime = 1
SYMMETRY Symmetry
CHECK_DEADLOCK FALSE
INVARIANTS
    TypeOK
    LatestIsLatest
    SlicesTile
    BlockedRowIsSleep
PROPERTIES
    RowsAreHistory
