SPECIFICATION BoundedSpec
CONSTANTS
    t1 = t1
    t2 = t2
    Threads = {t1, t2}
    Cats = {"work", "binder"}
    Names = {"f"}
    Cookies = {7}
    Args = {"x"}
    Times = {1, 2, 3}
    MaxDepth = 2
    MaxRows = 3
    MixedCat = "binder"
    MixedTime = 2
SYMMETRY Symmetry
INVARIANTS
    TypeOK
    StackIsChain
    ChildInsideParent
    
    ArgsAgree
    AsyncRowIsOpen
PROPERTY
    DurationsFinal
