SPECIFICATION Spec
CONSTANTS
    Gadgets = {"Car"}
    Objects = {"Wheel"}
    Plain <- PlainTypes
    Converted = {"Money"}
    Declarable <- Declared
    Builtin <- BuiltinTypes
    GadgetPointers = FALSE
    MaxCalls = 0
    Properties <- OneOfEach
    Samples <- Objects2
    Default <- Defaults
    Scalars <- Native
    Lists <- NumberLists
    Printed <- SixDigits
    MaxTrips = 1
INVARIANTS
    RawReturns
CHECK_DEADLOCK FALSE
