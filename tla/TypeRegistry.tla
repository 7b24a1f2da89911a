----------------------------- MODULE TypeRegistry -----------------------------
(***************************************************************************)
(* What the ORM knows about types: the static registries of ORM/orm.cpp:79 *)
(* and the functions that fill them (orm::Register, RegisterEx, the        *)
(* register... functions of orm::Containers, orm::Config) or ask them      *)
(* (isGadget ... meta_object).  The answers decide whether a property is   *)
(* skipped, a column or a table, and of which class.                       *)
(*                                                                         *)
(* A type is a pair <<shape, name>>: <<"T*", "Car">> is Car*.  QList       *)
(* stands for the four sequential templates.  A stub is the set of type    *)
(* ids that are not 0 in a PointerStub; the empty one is "no entry".       *)
(***************************************************************************)
EXTENDS Naturals

CONSTANTS
    Gadgets,        \* classes with Q_GADGET
    Objects,        \* classes derived from QObject
    Plain,          \* names of all other types
    Converted,      \* those with converters to QString and back
    Declarable,     \* the types the program declares
    Builtin,        \* what the constructor declares, by kind
    GadgetPointers, \* whether Qt flags T* of a gadget (minor version 10 on)
    MaxCalls        \* bound: calls

Smart   == {"QSharedPointer", "QWeakPointer", "shared_ptr", "weak_ptr"}
Weak    == {"QWeakPointer", "weak_ptr"}
Class   == Gadgets \cup Objects
Of(shapes, names) == {<<s, n>> : s \in shapes, n \in names}

Type ==
    Of({"T"}, Gadgets \cup Plain) \cup Of({"QPointer"}, Objects)
        \cup Of({"T*", "QList", "QList of QSharedPointer", "QMap", "QPair"} \cup Smart, Class)

NoType == <<"", "">>
Kinds  == {"ignored", "primitive", "string", "raw"}

ASSUME RegistryAssumption ==
    /\ Gadgets \cap Objects = {} /\ Class \cap Plain = {} /\ "" \notin Class
    /\ Builtin \in [Kinds -> SUBSET Type]
    /\ Converted \subseteq Plain /\ Declarable \subseteq Type
    /\ GadgetPointers \in BOOLEAN /\ MaxCalls \in Nat

VARIABLES
    once,           \* orm_once: no ORM has been constructed
    pointerMap,     \* the stub of each type
    seqContTypeMap, \* the type stored in each container, or NoType
    assContTypeMap, \* the types entered; their names give the value type
    pairTypes,      \* those that are pairs
    declared,       \* ignoredTypes, primitiveContainers, ...String..., ...Raw...
    registered,     \* history: classes given to Register
    smart,          \* history: classes given to RegisterEx
    wanted,         \* history: what declared would be if each call did what it says
    regs            \* calls made so far

registryVars == <<once, pointerMap, seqContTypeMap, assContTypeMap, pairTypes,
                  declared, registered, smart, wanted, regs>>

-----------------------------------------------------------------------------
(* Filling the registries.                                                 *)

\* Mutant: the pointer to the class alone leads to the stub.
EnterPointer(map, stub) ==
    [t \in Type |-> IF t \in stub /\ t[1] \in {"T", "T*"} THEN stub ELSE map[t]]

\* addPointerStub: the stub under each of its ids but that of QPointer.
Enter(map, stub) ==
    [t \in Type |-> IF t \in stub /\ t[1] # "QPointer" THEN stub ELSE map[t]]

\* Mutant: a QObject class gets a value type.
TypePointersValue(map, c) == map[<<"T*", c>>] \cup {<<"T", c>>, <<"T*", c>>}

\* registerTypePointers: the stub found, completed.
TypePointers(map, c) ==
    IF c \in Gadgets THEN map[<<"T", c>>] \cup {<<"T", c>>, <<"T*", c>>}
                     ELSE map[<<"T*", c>>] \cup {<<"T*", c>>, <<"QPointer", c>>}

\* Mutant: the smart pointers go into a stub of their own.
SmartPointersFresh(map, c) == {<<"T*", c>>} \cup Of(Smart, {c})

\* registerTypeSmartPointers.
SmartPointers(map, c) == map[<<"T*", c>>] \cup {<<"T*", c>>} \cup Of(Smart, {c})

\* addSeqContainerType: the first entry stays.
AddSeq(map, t, inner) == [map EXCEPT ![t] = IF @ = NoType THEN inner ELSE @]

Item(c) == IF c \in Gadgets THEN <<"T", c>> ELSE <<"T*", c>>

Call ==
    /\ regs < MaxCalls
    /\ regs' = regs + 1

\* orm::Impl::Register; only the one for gadgets registers their containers.
Registered(c) ==
    /\ seqContTypeMap' = IF c \in Gadgets THEN AddSeq(seqContTypeMap, <<"QList", c>>, <<"T", c>>)
                                          ELSE seqContTypeMap
    /\ registered' = registered \cup {c}
    /\ UNCHANGED <<once, assContTypeMap, pairTypes, declared, wanted>>

Register(c) ==
    /\ Call
    /\ pointerMap' = Enter(pointerMap, TypePointers(pointerMap, c))
    /\ Registered(c)
    /\ UNCHANGED smart

\* RegisterEx: Register, then the smart pointers on top of what it entered.
RegisterEx(c) ==
    /\ Call
    /\ LET map == Enter(pointerMap, TypePointers(pointerMap, c))
       IN  pointerMap' = Enter(map, SmartPointers(map, c))
    /\ Registered(c)
    /\ smart' = smart \cup {c}

\* registerSequentialContainers of T* or QSharedPointer<T>, by the program.
RegisterSequential(t, c) ==
    /\ Call
    /\ seqContTypeMap' = AddSeq(seqContTypeMap, t,
                                IF t[1] = "QList" THEN Item(c) ELSE <<"QSharedPointer", c>>)
    /\ UNCHANGED <<once, pointerMap, assContTypeMap, pairTypes, declared, registered, smart, wanted>>

\* registerQPair enters the pair twice; registerAssociative does it, too.
RegisterPairs(ts, c) ==
    /\ Call
    /\ assContTypeMap' = assContTypeMap \cup ts \cup {<<"QPair", c>>}
    /\ pairTypes' = pairTypes \cup {<<"QPair", c>>}
    /\ UNCHANGED <<once, pointerMap, seqContTypeMap, declared, registered, smart, wanted>>

Add(decl, k, ts) == [decl EXCEPT ![k] = @ \cup ts]
Remove(decl, k, t) == [decl EXCEPT ![k] = @ \ {t}]

\* Config::add...Type; addPrimitiveStringType asserts that there are converters.
Declare(k, t) ==
    /\ Call
    /\ k = "string" => t[2] \in Converted
    /\ declared' = Add(declared, k, {t})
    /\ wanted' = Add(wanted, k, {t})
    /\ UNCHANGED <<once, pointerMap, seqContTypeMap, assContTypeMap, pairTypes, registered, smart>>

\* Mutant: the raw types are mixed up, too.
WithdrawnFromMixed(k) == IF k \in {"ignored", "raw"} THEN "primitive" ELSE k

\* removeIgnoredType works on the primitive types.
WithdrawnFrom(k) == IF k = "ignored" THEN "primitive" ELSE k

\* Config::remove...Type.
Withdraw(k, t) ==
    /\ Call
    /\ declared' = Remove(declared, WithdrawnFrom(k), t)
    /\ wanted' = Remove(wanted, k, t)
    /\ UNCHANGED <<once, pointerMap, seqContTypeMap, assContTypeMap, pairTypes, registered, smart>>

\* The first ORM declares the built-in types.  It throws the stubs of QObject away.
Construct ==
    /\ once
    /\ once' = FALSE
    /\ declared' = [k \in Kinds |-> declared[k] \cup Builtin[k]]
    /\ wanted' = [k \in Kinds |-> wanted[k] \cup Builtin[k]]
    /\ UNCHANGED <<pointerMap, seqContTypeMap, assContTypeMap, pairTypes, registered, smart, regs>>

RegistryInit ==
    /\ once = TRUE
    /\ pointerMap = [t \in Type |-> {}]
    /\ seqContTypeMap = [t \in Type |-> NoType]
    /\ assContTypeMap = {} /\ pairTypes = {}
    /\ declared = [k \in Kinds |-> {}]
    /\ registered = {} /\ smart = {} /\ wanted = declared /\ regs = 0

RegistryNext ==
    \/ Construct
    \/ \E c \in Class :
        \/ Register(c)
        \/ RegisterEx(c)
        \/ \E s \in {"QList", "QList of QSharedPointer"} : RegisterSequential(<<s, c>>, c)
        \/ RegisterPairs({}, c)
        \/ RegisterPairs({<<"QMap", c>>}, c)
    \/ \E k \in Kinds, t \in Declarable : Declare(k, t) \/ Withdraw(k, t)

RegistrySpec == RegistryInit /\ [][RegistryNext]_registryVars

-----------------------------------------------------------------------------
(* Asking them.                                                            *)

isIgnored(t) == t \in declared["ignored"]
isPrimitive(t) == \E k \in {"primitive", "string", "raw"} : t \in declared[k]
isSequentialContainer(t) == seqContTypeMap[t] # NoType
isAssociativeContainer(t) == t \in assContTypeMap

Value(stub) == {t \in stub : t[1] = "T"}

\* Qt's own flags for gadgets, and its meta object.
FlaggedGadget(t) == t[1] = "T" /\ t[2] \in Gadgets
metaObject(t) ==
    IF FlaggedGadget(t) \/ (t[1] = "T*" /\ (GadgetPointers \/ t[2] \in Objects)) THEN t[2] ELSE ""

isGadget(t) == IF pointerMap[t] = {} THEN FlaggedGadget(t) ELSE Value(pointerMap[t]) # {}

isPointer(t) ==
    \/ t[1] = "T*" /\ (GadgetPointers \/ t[2] \in Objects)
    \/ pointerMap[t] # {} /\ t \notin Value(pointerMap[t])

isWeakPointer(t) == pointerMap[t] # {} /\ t[1] \in Weak

isTypeForTable(t) ==
    /\ ~isPrimitive(t)
    /\ isPointer(t) \/ isGadget(t) \/ isSequentialContainer(t)
         \/ isAssociativeContainer(t) \/ t \in pairTypes

\* actualMetaTypeID: the loop around actualMetaTypeIDOnce makes no second step.
actualMetaTypeID(t) ==
    IF isIgnored(t) THEN NoType
    ELSE IF t \in declared["raw"] THEN <<"T", "QByteArray">>
    ELSE IF t \in declared["string"] THEN <<"T", "QString">>
    ELSE IF t \in declared["primitive"] THEN t
    ELSE IF isAssociativeContainer(t) THEN <<"QList", "ORM_QVariantPair">>
    ELSE IF isSequentialContainer(t) THEN seqContTypeMap[t]
    ELSE IF pointerMap[t] = {} THEN t
    ELSE IF isWeakPointer(t) THEN NoType
    ELSE IF Value(pointerMap[t]) # {} THEN <<"T", t[2]>>
    ELSE <<"T*", t[2]>>

meta_object(t) == IF metaObject(t) # "" THEN metaObject(t) ELSE metaObject(actualMetaTypeID(t))

\* What queryDataRecursive makes of a property of type t.
Layout(t) ==
    IF isIgnored(t) THEN "skipped"
    ELSE IF ~isTypeForTable(t) THEN "column"
    ELSE IF meta_object(t) # "" THEN meta_object(t)
    ELSE IF isAssociativeContainer(t) THEN "key, value, orm_rowid"
    ELSE IF isSequentialContainer(t) THEN "index, value"
    ELSE "no columns"

-----------------------------------------------------------------------------
(* Properties.                                                             *)

RegistryTypeOK ==
    /\ once \in BOOLEAN
    /\ pointerMap \in [Type -> SUBSET Type]
    /\ seqContTypeMap \in [Type -> Type \cup {NoType}]
    /\ assContTypeMap \subseteq Type /\ pairTypes \subseteq assContTypeMap
    /\ declared \in [Kinds -> SUBSET Type] /\ wanted \in [Kinds -> SUBSET Type]
    /\ registered \subseteq Class /\ smart \subseteq registered
    /\ regs \in Nat

\* The stub a class has once it went through Register, or through RegisterEx.
Base(c) == IF c \in Gadgets THEN {<<"T", c>>, <<"T*", c>>} ELSE {<<"T*", c>>, <<"QPointer", c>>}
Known(c) ==
    IF c \in smart THEN Base(c) \cup Of(Smart, {c}) ELSE IF c \in registered THEN Base(c) ELSE {}

\* In whatever order classes are registered, plainly or with smart pointers,
\* once or again, each of their types but QPointer leads to one and the same
\* stub with everything registered so far (addPointerStub and the two
\* functions that complete a stub they find under one of its ids).
PointersFollow ==
    \A t \in Type : pointerMap[t] = IF t \in Known(t[2]) /\ t[1] # "QPointer" THEN Known(t[2]) ELSE {}

\* A registered class gets a table with its own columns whether a member holds
\* it by value, by pointer, by QSharedPointer or shared_ptr once RegisterEx saw
\* it, or in a list that is registered (that of a gadget is, by Register),
\* whatever else is registered and in which order.  These are the forms the code
\* treats alike.  Two that README.md names it does not: a weak pointer is not
\* ignored (README.md:180) but a table without columns, as isIgnored does not ask
\* isWeakPointer; a list of shared pointers (README.md:180, 183) is a table of
\* indices and values, as actualMetaTypeID stops at the pointer.
TreatedAlike ==
    \A c \in registered, s \in {"T", "T*", "QList"} \cup (Smart \ Weak) :
        LET t == <<s, c>>
        IN  /\ t \in Type /\ ~isIgnored(t) /\ ~isPrimitive(t)
            /\ s \in Smart => c \in smart
            /\ s = "QList" /\ c \in Objects => isSequentialContainer(t)
            => Layout(t) = c

\* The program asked for some types to be ignored, primitive, text or raw and
\* took some of it back: a type it wants skipped is skipped, text and raw types
\* are exactly those it wants, but with removeIgnoredType a type stays ignored
\* and may cease to be primitive (Config::add... and remove...).
RemovalsErrOneWay ==
    /\ wanted["ignored"] \subseteq declared["ignored"]
    /\ declared["primitive"] \subseteq wanted["primitive"]
    /\ \A k \in {"string", "raw"} : declared[k] = wanted[k]

=============================================================================
