SPECIFICATION Spec
CONSTANTS
    ClassOf <- FamilyOf
    Members <- Family
    Named <- FamilyNamed
    Norm <- FamilyNorm
    Pairs = {"Hats"}
    NoParent = {"Car"}
    Roots = {"Ur", "Dad"}
    Ops = {"create", "insert", "select", "update", "delete", "drop"}
    MaxCalls = 2
INVARIANTS
    EntriesInPlace
    TextIsItsOwn
    ColumnsAreProperties
CHECK_DEADLOCK FALSE
