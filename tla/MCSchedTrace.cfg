SPECIFICATION BoundedSpec
CONSTANTS
    c1 = c1
    c2 = c2
    Cpus = {c1, c2}
    Threads = {1, 2}
    Transactions = {7, 8}
    PrevStates = {0, 1, 2, 130, 2048}
    Times = {1, 2, 3}
    Word = 16
    EarlyWakeups = FALSE
    Asleep = 1
    MaxSlices = 3
    MaxAlone = 4
    MaxCalling = 4
    MaxCallTime = 2
SYMMETRY Symmetry
CHECK_DEADLOCK FALSE
INVARIANTS
    TimelineIsTrue
    CpuTimelineIsTrue
    ThreadRowsFollow
    BinderWaitsTrue
