SPECIFICATION Spec
CONSTANTS
    ClassOf <- BrotherOf
    Members <- Brother
    Named <- BrotherNamed
    Norm <- BrotherNorm
    Pairs = {}
    NoParent = {}
    Roots = {"Brother"}
    Ops = {"create", "select"}
    MaxCalls = 1
INVARIANTS
    ColumnsAreProperties
CHECK_DEADLOCK FALSE
