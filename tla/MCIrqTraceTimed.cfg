SPECIFICATION BoundedSpec
CONSTANTS
    c1 = c1
    c2 = c2
    Cpus = {c1, c2}
    Times = {1, 2, 3, 4}
    DurWidth = 2
    MaxRows = 5
    MaxLossyRows = 4
    MaxLossyTime = 2
SYMMETRY Symmetry
CHECK_DEADLOCK FALSE
INVARIANTS
    InterruptsTimed
