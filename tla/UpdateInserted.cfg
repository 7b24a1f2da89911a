SPECIFICATION Spec
CONSTANTS
    Clients = {c1}
    Up <- FamilyUp
    Kind <- FamilyKind
    Keyed <- FamilyKeyed
    ByRef <- Object
    Val = {"x", "y"}
    DefVal = "x"
    NewObjects <- Brothers
    Calls = {"insert", "update"}
    Faulty = {}
    SelectedOnly = FALSE
    MaxRowid = 4
    MaxCalls = 2
    MaxFaults = 0
INVARIANTS
    RoundTrip
CHECK_DEADLOCK FALSE
