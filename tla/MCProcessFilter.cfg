SPECIFICATION BoundedSpec
CONSTANTS
    a = a
    b = b
    Ids = {0, a, b}
    Names = {"", "n1"}
    MaxThreads = 6
    MaxNamed = 3
SYMMETRY Symmetry
INVARIANTS
    TypeOK
    IndexesAgree
    PidsUnique
    UnownedAlone
    OneRowPerThread
    MainThreadExists
    ReturnsWhatWasAsked
PROPERTIES
    RowsKeepTheirMeaning
    LookupIsStable
    FinishMakesNewPids
    ProcessAndMainThreadRenamed
