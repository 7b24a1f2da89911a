SPECIFICATION Spec
CONSTANTS
    Clients = {c1}
    Up <- PairUp
    Kind <- PairKind
    Keyed <- PairKeyed
    ByRef <- PairObject
    Val = {"x", "y"}
    DefVal = "x"
    NewObjects <- Unlike
    Calls = {"insert", "delete"}
    Faulty = {}
    SelectedOnly = TRUE
    MaxRowid = 4
    MaxCalls = 3
    MaxFaults = 0
INVARIANTS
    ReferencesHold
CHECK_DEADLOCK FALSE
