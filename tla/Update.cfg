SPECIFICATION FairSpec
CONSTANTS
    Clients = {c1}
    Up <- FamilyUp
    Kind <- FamilyKind
    Keyed <- FamilyKeyed
    ByRef <- Gadget
    Val = {"x", "y"}
    DefVal = "x"
    NewObjects <- Family
    Calls = {"insert", "select", "update"}
    Faulty = {"update"}
    SelectedOnly = TRUE
    MaxRowid = 6
    MaxCalls = 5
    MaxFaults = 1
INVARIANTS
    RoundTrip
PROPERTIES
    CallsReturn
CHECK_DEADLOCK FALSE
