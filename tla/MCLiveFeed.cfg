CONSTANTS
    Calls = 2
    PageSize = 1
    None = None
    NoData = NoData
    MaxLines = 2
    MaxTrouble = 1
    MaxOrders = 1

SPECIFICATION Spec

INVARIANTS
    LinesAreOfThisCall
    HeldToCursor

PROPERTIES
    CatchesUp

CHECK_DEADLOCK FALSE
