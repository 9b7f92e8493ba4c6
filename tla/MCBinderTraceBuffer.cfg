SPECIFICATION BoundedSpec
CONSTANTS
    a = a
    b = b
    Threads = {a, b}
    Cats = {"binder"}
    Names = {}
    Cookies = {}
    Args = {}
    Times = {1, 2}
    MaxDepth = 9
    Transactions = {1, 2, 3, 4, 5, 6}
    MaxCalls = 2
    MaxLocks = 0
SYMMETRY Symmetry
CHECK_DEADLOCK FALSE
INVARIANTS
    BuffersRight
