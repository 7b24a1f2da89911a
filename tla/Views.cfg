SPECIFICATION Spec
CONSTANTS
    Things = {a, b}
    Null = Null
    Data = {0, 1}
    MaxRows = 4
    MaxDepth = 2
    MaxCalls = 4
INVARIANTS
    TypeOK
    ViewTrue
    InsertsOwnRow
PROPERTIES
    MoveKeepsRows
CHECK_DEADLOCK FALSE
