SPECIFICATION Spec
CONSTANTS
    Clients = {c1}
    Up <- PairUp
    Kind <- PairKind
    Keyed <- PairKeyed
    ByRef <- PairGadget
    Val = {"x", "y"}
    DefVal = "x"
    NewObjects <- Pairs
    Calls = {"insert"}
    Faulty = {"insert"}
    SelectedOnly = FALSE
    MaxRowid = 4
    MaxCalls = 2
    MaxFaults = 1
INVARIANTS
    ReferencesHold
CHECK_DEADLOCK FALSE
