SPECIFICATION FairSpec
CONSTANTS
    Clients = {c1}
    Up <- FamilyUp
    Kind <- FamilyKind
    Keyed <- KeylessBros
    ByRef <- Gadget
    Val = {"x", "y"}
    DefVal = "x"
    NewObjects <- Family
    Calls = {"create", "insert", "select", "delete", "drop"}
    Faulty = {"create", "insert", "select", "delete"}
    SelectedOnly = FALSE
    MaxRowid = 3
    MaxCalls = 4
    MaxFaults = 1
INVARIANTS
    LinkIntegrity
    TablesNested
PROPERTIES
    DeleteLeavesNoChild
    CallsReturn
CHECK_DEADLOCK FALSE
