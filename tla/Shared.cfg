SPECIFICATION Spec
CONSTANTS
    Clients = {c1, c2}
    Up <- PairUp
    Kind <- PairKind
    Keyed <- PairKeyed
    ByRef <- PairObject
    Val = {"x", "y"}
    DefVal = "x"
    NewObjects <- Pairs
    Calls = {"insert", "select", "update", "delete"}
    Faulty = {"insert"}
    SelectedOnly = FALSE
    MaxRowid = 3
    MaxCalls = 4
    MaxFaults = 1
SYMMETRY Symmetry
INVARIANTS
    TypeOK
PROPERTIES
    FreshRowids
CHECK_DEADLOCK FALSE
