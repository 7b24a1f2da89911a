SPECIFICATION Spec
CONSTANTS
    Gadgets = {"Car"}
    Objects = {"Wheel"}
    Plain <- PlainTypes
    Converted = {"Money"}
    Declarable <- Declared
    Builtin <- BuiltinTypes
    GadgetPointers = FALSE
    MaxCalls = 3
    Properties <- OneOfEach
    Samples <- Objects2
    Default <- Defaults
    Scalars <- Native
    Lists <- NumberLists
    Printed <- SixDigits
    MaxTrips = 2
INVARIANTS
    RegistryTypeOK
    PointersFollow
    TreatedAlike
    RemovalsErrOneWay
    ValueReturns
    TripIsStable
CHECK_DEADLOCK FALSE
