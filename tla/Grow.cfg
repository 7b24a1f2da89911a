SPECIFICATION Spec
CONSTANTS
    Clients = {c1, c2}
    Up <- FamilyUp
    Kind <- FamilyKind
    Keyed <- FamilyKeyed
    ByRef <- Gadget
    Val = {"x", "y"}
    DefVal = "x"
    NewObjects <- Family
    Calls = {"insert", "select"}
    Faulty = {"insert", "select"}
    SelectedOnly = FALSE
    MaxRowid = 6
    MaxCalls = 3
    MaxFaults = 1
SYMMETRY Symmetry
INVARIANTS
    MembersSingle
    LinkIntegrity
    LinkInv
    MembersAreOwn
    NoOrphans
    RoundTrip
PROPERTIES
    ImplementsForest
CHECK_DEADLOCK FALSE
