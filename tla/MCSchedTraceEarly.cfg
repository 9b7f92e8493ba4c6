SPECIFICATION BoundedSpec
CONSTANTS
    c1 = c1
    c2 = c2
    Cpus = {c1}
    Threads = {1, 2}
    Transactions = {}
    PrevStates = {0, 1}
    Times = {1, 2, 3}
    Word = 16
    EarlyWakeups = TRUE
    Asleep = 1
    MaxSlices = 3
    MaxAlone = 3
    MaxCalling = 3
    MaxCallTime = 2
CHECK_DEADLOCK FALSE
INVARIANTS
    DurationsMeasured
