SPECIFICATION BoundedSpec
CONSTANTS
    t1 = t1
    t2 = t2
    Threads = {t1}
    Cats = {"work", "binder"}
    Names = {"user", "work", "lock"}
    Cookies = {}
    Args = {}
    Times = {1, 2, 3}
    MaxDepth = 3
    MaxCalls = 3
    MaxOuter = 2
    MaxRows = 3
CHECK_DEADLOCK FALSE
INVARIANTS
    CallsRecorded
