------------------------------ MODULE ValueProofs ------------------------------
(* What holds of the registries for all classes and types, in any order of   *)
(* registrations and declarations.                                           *)
EXTENDS PropertyValues, SequenceTheorems, TLAPS

\* What a step of PropertyValues does to the registries.
LEMMA Steps == ASSUME [Next]_vars PROVE [RegistryNext]_registryVars
  BY DEF Next, vars, StoreNew, StoreBack, Fetch, Store

LEMMA SamePair ==
    ASSUME NEW a, NEW b, NEW c, NEW d
    PROVE  <<a, b>> = <<c, d>> <=> a = c /\ b = d
  OBVIOUS

LEMMA InOf ==
    ASSUME NEW S, NEW N, NEW s \in S, NEW n \in N
    PROVE  <<s, n>> \in Of(S, N)
  BY DEF Of

\* The smart pointers to a class.
LEMMA SmartTypes ==
    ASSUME NEW c \in Class
    PROVE  /\ Of(Smart, {c}) \subseteq Type
           /\ \A t \in Of(Smart, {c}) : t[2] = c /\ t[1] \in Smart /\ t = <<t[1], c>>
  <1>1. \A t \in Of(Smart, {c}) : \E s \in Smart : t = <<s, c>>
        BY DEF Of
  <1>2. \A s \in Smart : <<s, c>> \in Type
    <2>1. \A s \in Smart : <<s, c>> \in Of({"T*", "QList", "QList of QSharedPointer", "QMap", "QPair"} \cup Smart, Class)
          BY InOf
    <2> QED BY <2>1 DEF Type
  <1> QED BY <1>1, <1>2

\* The types Register enters a class under.
LEMMA BaseTypes ==
    ASSUME NEW c \in Class
    PROVE  /\ Base(c) \subseteq Type
           /\ \A t \in Base(c) : t[2] = c /\ t = <<t[1], c>>
           /\ <<"T*", c>> \in Base(c)
           /\ c \in Gadgets => <<"T", c>> \in Base(c)
  <1>1. <<"T*", c>> \in Type
    <2>1. <<"T*", c>> \in Of({"T*", "QList", "QList of QSharedPointer", "QMap", "QPair"} \cup Smart, Class)
          BY InOf
    <2> QED BY <2>1 DEF Type
  <1>2. c \in Gadgets => <<"T", c>> \in Type
    <2>1. c \in Gadgets => <<"T", c>> \in Of({"T"}, Gadgets \cup Plain)
          BY DEF Of
    <2> QED BY <2>1 DEF Type
  <1>3. c \notin Gadgets => <<"QPointer", c>> \in Type
    <2>1. c \notin Gadgets => <<"QPointer", c>> \in Of({"QPointer"}, Objects)
          BY DEF Of, Class
    <2> QED BY <2>1 DEF Type
  <1> QED BY <1>1, <1>2, <1>3 DEF Base

LEMMA KnownTypes ==
    ASSUME NEW c \in Class
    PROVE  /\ Known(c) \subseteq Type
           /\ \A t \in Known(c) : t[2] = c
  BY SmartTypes, BaseTypes DEF Known

\* Completing a stub and entering it makes it the stub of the class.
LEMMA Completed ==
    ASSUME NEW c \in Class, PointersFollow
    PROVE  TypePointers(pointerMap, c) = Base(c) \cup Known(c)
  <1>1. CASE c \in Gadgets
    <2>1. pointerMap[<<"T", c>>] = IF <<"T", c>> \in Known(c) THEN Known(c) ELSE {}
          BY <1>1, BaseTypes DEF PointersFollow
    <2>2. <<"T", c>> \notin Known(c) => Known(c) = {}
          BY <1>1, BaseTypes DEF Known
    <2> QED BY <1>1, <2>1, <2>2 DEF TypePointers, Base
  <1>2. CASE c \notin Gadgets
    <2>1. pointerMap[<<"T*", c>>] = IF <<"T*", c>> \in Known(c) THEN Known(c) ELSE {}
          BY <1>2, BaseTypes DEF PointersFollow
    <2>2. <<"T*", c>> \notin Known(c) => Known(c) = {}
          BY BaseTypes DEF Known
    <2> QED BY <1>2, <2>1, <2>2 DEF TypePointers, Base
  <1> QED BY <1>1, <1>2

\* Entering a stub K of class c that holds all that was known of c.
LEMMA Entered ==
    ASSUME NEW c \in Class, PointersFollow, NEW K \in SUBSET Type,
           Known(c) \subseteq K, \A t \in K : t[2] = c
    PROVE  \A t \in Type : Enter(pointerMap, K)[t] =
             IF t[1] = "QPointer" THEN {}
             ELSE IF t[2] = c THEN IF t \in K THEN K ELSE {}
             ELSE IF t \in Known(t[2]) THEN Known(t[2]) ELSE {}
  <1> SUFFICES ASSUME NEW t \in Type
               PROVE  Enter(pointerMap, K)[t] =
                        IF t[1] = "QPointer" THEN {}
                        ELSE IF t[2] = c THEN IF t \in K THEN K ELSE {}
                        ELSE IF t \in Known(t[2]) THEN Known(t[2]) ELSE {}
      OBVIOUS
  <1>1. Enter(pointerMap, K)[t] = IF t \in K /\ t[1] # "QPointer" THEN K ELSE pointerMap[t]
        BY DEF Enter
  <1>2. pointerMap[t] = IF t \in Known(t[2]) /\ t[1] # "QPointer" THEN Known(t[2]) ELSE {}
        BY DEF PointersFollow
  <1>3. CASE t[2] = c
        BY <1>1, <1>2, <1>3
  <1>4. CASE t[2] # c
        BY <1>1, <1>2, <1>4
  <1> QED BY <1>3, <1>4

Inner(t) == IF t[1] = "QList" THEN Item(t[2]) ELSE <<"QSharedPointer", t[2]>>
Sequential == {"QList", "QList of QSharedPointer"}

ListsHold(map) == \A t \in Type : map[t] # NoType => t[1] \in Sequential /\ map[t] = Inner(t)
Listed(map, cs) == \A c \in cs \cap Gadgets : map[<<"QList", c>>] # NoType

\* The containers entered so far are lists of what their names say, and a
\* registered gadget's list is among them.
ListsFollow ==
    /\ ListsHold(seqContTypeMap) /\ Listed(seqContTypeMap, registered)
    /\ \A t \in assContTypeMap : t[1] \in {"QMap", "QPair"}

RegistryInv == RegistryTypeOK /\ PointersFollow /\ ListsFollow

LEMMA ClassTypes ==
    ASSUME NEW c \in Class
    PROVE  /\ Item(c) \in Type /\ <<"QSharedPointer", c>> \in Type
           /\ \A s \in {"QList", "QList of QSharedPointer", "QMap", "QPair"} : <<s, c>> \in Type
  <1> DEFINE S == {"T*", "QList", "QList of QSharedPointer", "QMap", "QPair"} \cup Smart
  <1>1. \A s \in S : <<s, c>> \in Of(S, Class)
        BY InOf
  <1>2. \A s \in S : <<s, c>> \in Type
        BY <1>1 DEF Type
  <1>3. \A s \in {"QList", "QList of QSharedPointer", "QMap", "QPair", "T*", "QSharedPointer"} : s \in S
        BY DEF Smart
  <1>4. c \in Gadgets => <<"T", c>> \in Type
        BY BaseTypes
  <1> HIDE DEF S
  <1> QED BY <1>2, <1>3, <1>4 DEF Item

\* The stubs after Register and after RegisterEx.
LEMMA PointersStep ==
    ASSUME NEW c \in Class, RegistryInv, Register(c) \/ RegisterEx(c)
    PROVE  PointersFollow' /\ pointerMap' \in [Type -> SUBSET Type]
  <1> DEFINE B == Base(c) \cup Known(c)
             F == B \cup Of(Smart, {c})
             mapB == Enter(pointerMap, B)
             All(d) == IF d \in smart' THEN Base(d) \cup Of(Smart, {d})
                       ELSE IF d \in registered' THEN Base(d) ELSE {}
  <1>1. B \in SUBSET Type /\ F \in SUBSET Type /\ \A t \in F : t[2] = c
        BY BaseTypes, KnownTypes, SmartTypes
  <1>2. TypePointers(pointerMap, c) = B
        BY Completed DEF RegistryInv
  <1>3. PointersFollow
        BY DEF RegistryInv
  <1>4. \A t \in Type : mapB[t] =
             IF t[1] = "QPointer" THEN {}
             ELSE IF t[2] = c THEN IF t \in B THEN B ELSE {}
             ELSE IF t \in Known(t[2]) THEN Known(t[2]) ELSE {}
        BY <1>1, <1>3, Entered
  <1>5. \A d : d # c => All(d) = Known(d)
        BY DEF Known, Register, RegisterEx, Registered
  <1>a. PointersFollow' = \A t \in Type :
              pointerMap'[t] = IF t \in All(t[2]) /\ t[1] # "QPointer" THEN All(t[2]) ELSE {}
        BY DEF PointersFollow, Known, Base, Of, Smart
  <1>b. pointerMap \in [Type -> SUBSET Type]
        BY DEF RegistryInv, RegistryTypeOK
  <1>6. CASE Register(c)
    <2>1. pointerMap' = mapB
          BY <1>2, <1>6 DEF Register
    <2>2. All(c) = B
          BY <1>6 DEF Register, Registered, Known
    <2> HIDE DEF B, F, mapB, All
    <2>3. \A t \in Type : pointerMap'[t] = IF t \in All(t[2]) /\ t[1] # "QPointer" THEN All(t[2]) ELSE {}
          BY <1>4, <1>5, <2>1, <2>2
    <2>4. pointerMap' \in [Type -> SUBSET Type]
          BY <1>1, <1>b, <2>1 DEF Enter, mapB
    <2> QED BY <1>a, <2>3, <2>4
  <1>7. CASE RegisterEx(c)
    <2>1. <<"T*", c>> \in Type /\ <<"T*", c>> \in B
          BY BaseTypes
    <2>2. mapB[<<"T*", c>>] = B
          BY <1>4, <2>1
    <2>3. SmartPointers(mapB, c) = F
      <3> HIDE DEF mapB, B
      <3> QED BY <2>1, <2>2 DEF SmartPointers
    <2>4. pointerMap' = Enter(mapB, F)
          BY <1>2, <1>7, <2>3 DEF RegisterEx
    <2>5. All(c) = F
          BY <1>7 DEF RegisterEx, Registered, Known
    <2>6. mapB \in [Type -> SUBSET Type]
          BY <1>1, <1>b DEF Enter
    <2>7. B \subseteq F
          OBVIOUS
    <2> HIDE DEF B, F, mapB, All
    <2>8. \A t \in Type : pointerMap'[t] = IF t \in All(t[2]) /\ t[1] # "QPointer" THEN All(t[2]) ELSE {}
      <3> SUFFICES ASSUME NEW t \in Type
                   PROVE  pointerMap'[t] = IF t \in All(t[2]) /\ t[1] # "QPointer" THEN All(t[2]) ELSE {}
          OBVIOUS
      <3>1. pointerMap'[t] = IF t \in F /\ t[1] # "QPointer" THEN F ELSE mapB[t]
            BY <2>4 DEF Enter
      <3>2. CASE t[2] = c
            BY <1>4, <2>5, <2>7, <3>1, <3>2
      <3>3. CASE t[2] # c
            BY <1>1, <1>4, <1>5, <3>1, <3>3
      <3> QED BY <3>2, <3>3
    <2>9. pointerMap' \in [Type -> SUBSET Type]
          BY <1>1, <2>4, <2>6 DEF Enter
    <2> QED BY <1>a, <2>8, <2>9
  <1> QED BY <1>6, <1>7

\* One more list, of what its name says.
LEMMA OneMoreList ==
    ASSUME NEW map \in [Type -> Type \cup {NoType}], ListsHold(map),
           NEW c \in Class, NEW s \in Sequential
    PROVE  LET t == <<s, c>>
               more == AddSeq(map, t, Inner(t))
           IN  /\ more \in [Type -> Type \cup {NoType}] /\ ListsHold(more) /\ more[t] # NoType
               /\ \A cs : Listed(map, cs) => Listed(more, cs)
  <1> DEFINE t == <<s, c>>
             inner == Inner(t)
             more == AddSeq(map, t, inner)
  <1>1. t \in Type
        BY ClassTypes DEF Sequential
  <1>2. inner \in Type /\ inner # NoType
    <2>1. CASE s = "QList"
      <3>1. inner = Item(c)
            BY <2>1 DEF Inner
      <3>2. inner[1] \in {"T", "T*"}
            BY <3>1 DEF Item
      <3>3. NoType[1] = ""
            BY DEF NoType
      <3> HIDE DEF inner
      <3> QED BY <3>1, <3>2, <3>3, ClassTypes
    <2>2. CASE s # "QList"
      <3>1. inner = <<"QSharedPointer", c>>
            BY <2>2 DEF Inner
      <3>2. inner[1] = "QSharedPointer"
            BY <3>1
      <3>3. NoType[1] = ""
            BY DEF NoType
      <3> HIDE DEF inner
      <3> QED BY <3>1, <3>2, <3>3, ClassTypes
    <2> QED BY <2>1, <2>2
  <1>3. t[1] \in Sequential
        OBVIOUS
  <1> HIDE DEF t, inner
  <1>4. /\ more[t] = IF map[t] = NoType THEN inner ELSE map[t]
        /\ \A u \in Type : u # t => more[u] = map[u]
        /\ more \in [Type -> Type \cup {NoType}]
        BY <1>1, <1>2 DEF AddSeq
  <1> HIDE DEF more
  <1>5. ListsHold(more)
    <2> SUFFICES ASSUME NEW u \in Type, more[u] # NoType
                 PROVE  u[1] \in Sequential /\ more[u] = Inner(u)
        BY DEF ListsHold
    <2>1. CASE u = t
          BY <1>1, <1>3, <1>4, <2>1 DEF ListsHold, inner
    <2>2. CASE u # t
          BY <1>4, <2>2 DEF ListsHold
    <2> QED BY <2>1, <2>2
  <1>6. more[t] # NoType
        BY <1>2, <1>4
  <1>7. ASSUME NEW cs, Listed(map, cs) PROVE Listed(more, cs)
    <2> SUFFICES ASSUME NEW d \in cs \cap Gadgets PROVE more[<<"QList", d>>] # NoType
        BY DEF Listed
    <2>1. <<"QList", d>> \in Type /\ map[<<"QList", d>>] # NoType
          BY <1>7, ClassTypes DEF Class, Listed
    <2> QED BY <1>4, <1>6, <2>1
  <1>8. more = AddSeq(map, <<s, c>>, Inner(<<s, c>>))
        BY DEF more, t, inner
  <1>9. t = <<s, c>>
        BY DEF t
  <1> QED BY <1>4, <1>5, <1>6, <1>7, <1>8, <1>9

\* The lists after a step.
LEMMA ListsStep ==
    ASSUME RegistryInv, RegistryNext
    PROVE  /\ ListsFollow' /\ seqContTypeMap' \in [Type -> Type \cup {NoType}]
           /\ assContTypeMap' \subseteq Type /\ pairTypes' \subseteq assContTypeMap'
  <1> DEFINE Goal == /\ ListsHold(seqContTypeMap') /\ Listed(seqContTypeMap', registered')
                     /\ \A t \in assContTypeMap' : t[1] \in {"QMap", "QPair"}
                     /\ seqContTypeMap' \in [Type -> Type \cup {NoType}]
                     /\ assContTypeMap' \subseteq Type /\ pairTypes' \subseteq assContTypeMap'
  <1>1. /\ seqContTypeMap \in [Type -> Type \cup {NoType}]
        /\ ListsHold(seqContTypeMap) /\ Listed(seqContTypeMap, registered)
        /\ assContTypeMap \subseteq Type /\ pairTypes \subseteq assContTypeMap
        /\ \A t \in assContTypeMap : t[1] \in {"QMap", "QPair"}
        BY DEF RegistryInv, RegistryTypeOK, ListsFollow
  <1>2. ASSUME NEW c \in Class, Register(c) \/ RegisterEx(c)
        PROVE  Goal
    <2>1. Registered(c)
          BY <1>2 DEF Register, RegisterEx
    <2>2. UNCHANGED <<assContTypeMap, pairTypes>> /\ registered' = registered \cup {c}
          BY <2>1 DEF Registered
    <2>3. CASE c \in Gadgets
      <3> DEFINE t == <<"QList", c>>
      <3>1. Inner(t) = <<"T", c>> /\ "QList" \in Sequential
            BY <2>3 DEF Inner, Item, Sequential
      <3>2. seqContTypeMap' = AddSeq(seqContTypeMap, t, Inner(t))
            BY <2>1, <2>3, <3>1 DEF Registered
      <3>3. /\ seqContTypeMap' \in [Type -> Type \cup {NoType}] /\ ListsHold(seqContTypeMap')
            /\ seqContTypeMap'[t] # NoType /\ Listed(seqContTypeMap', registered)
            BY <1>1, <3>1, <3>2, OneMoreList
      <3>4. Listed(seqContTypeMap', registered')
            BY <2>2, <3>3 DEF Listed
      <3> QED BY <1>1, <2>2, <3>3, <3>4
    <2>4. CASE c \notin Gadgets
      <3>1. seqContTypeMap' = seqContTypeMap
            BY <2>1, <2>4 DEF Registered
      <3>2. Listed(seqContTypeMap', registered')
            BY <1>1, <2>2, <2>4, <3>1 DEF Listed
      <3> QED BY <1>1, <2>2, <3>1, <3>2
    <2> QED BY <2>3, <2>4
  <1>3. ASSUME NEW c \in Class, NEW s \in Sequential, RegisterSequential(<<s, c>>, c)
        PROVE  Goal
    <2>1. seqContTypeMap' = AddSeq(seqContTypeMap, <<s, c>>, Inner(<<s, c>>))
          BY <1>3 DEF RegisterSequential, Inner
    <2>2. UNCHANGED <<assContTypeMap, pairTypes, registered>>
          BY <1>3 DEF RegisterSequential
    <2>3. /\ seqContTypeMap' \in [Type -> Type \cup {NoType}] /\ ListsHold(seqContTypeMap')
          /\ Listed(seqContTypeMap', registered)
          BY <1>1, <2>1, OneMoreList
    <2> QED BY <1>1, <2>2, <2>3
  <1>4. ASSUME NEW c \in Class, NEW ts \in {{}, {<<"QMap", c>>}}, RegisterPairs(ts, c)
        PROVE  Goal
    <2>1. <<"QMap", c>> \in Type /\ <<"QPair", c>> \in Type
          BY ClassTypes
    <2>2. /\ assContTypeMap' = assContTypeMap \cup ts \cup {<<"QPair", c>>}
          /\ pairTypes' = pairTypes \cup {<<"QPair", c>>}
          /\ UNCHANGED <<seqContTypeMap, registered>>
          BY <1>4 DEF RegisterPairs
    <2> QED BY <1>1, <2>1, <2>2
  <1>5. ASSUME UNCHANGED <<seqContTypeMap, assContTypeMap, pairTypes, registered>>
        PROVE  Goal
        BY <1>1, <1>5
  <1>6. Goal
    <2>1. CASE Construct
          BY <1>5, <2>1 DEF Construct
    <2>2. CASE \E k \in Kinds, t \in Declarable : Declare(k, t) \/ Withdraw(k, t)
          BY <1>5, <2>2 DEF Declare, Withdraw
    <2> HIDE DEF Goal
    <2> QED BY <1>2, <1>3, <1>4, <2>1, <2>2 DEF RegistryNext, Sequential
  <1> QED BY <1>6 DEF ListsFollow

LEMMA InitHolds == Init => RegistryInv /\ RemovalsErrOneWay
  <1> SUFFICES ASSUME Init PROVE RegistryInv /\ RemovalsErrOneWay
      OBVIOUS
  <1>1. RegistryInit
        BY DEF Init
  <1>2. RegistryTypeOK
        BY <1>1 DEF RegistryInit, RegistryTypeOK
  <1>3. PointersFollow
        BY <1>1 DEF RegistryInit, PointersFollow, Known
  <1>4. ListsFollow
        BY <1>1 DEF RegistryInit, ListsFollow, ListsHold, Listed
  <1>5. RemovalsErrOneWay
        BY <1>1 DEF RegistryInit, RemovalsErrOneWay, Kinds
  <1> QED BY <1>2, <1>3, <1>4, <1>5 DEF RegistryInv

\* The declarations and what the program wanted of them, after a step.
LEMMA DeclarationsStep ==
    ASSUME RegistryTypeOK, RemovalsErrOneWay, RegistryNext
    PROVE  /\ RemovalsErrOneWay'
           /\ declared' \in [Kinds -> SUBSET Type] /\ wanted' \in [Kinds -> SUBSET Type]
  <1> DEFINE Good(d, w) ==
        /\ w["ignored"] \subseteq d["ignored"] /\ d["primitive"] \subseteq w["primitive"]
        /\ \A k \in {"string", "raw"} : d[k] = w[k]
        /\ d \in [Kinds -> SUBSET Type] /\ w \in [Kinds -> SUBSET Type]
  <1>1. Good(declared, wanted)
        BY DEF RegistryTypeOK, RemovalsErrOneWay
  <1>2. ASSUME NEW k \in Kinds, NEW t \in Type
        PROVE  Good(Add(declared, k, {t}), Add(wanted, k, {t}))
        BY <1>1 DEF Add, Kinds
  <1>3. ASSUME NEW k \in Kinds, NEW t \in Type
        PROVE  Good(Remove(declared, WithdrawnFrom(k), t), Remove(wanted, k, t))
    <2>1. CASE k = "ignored"
          BY <1>1, <2>1 DEF Remove, WithdrawnFrom, Kinds
    <2>2. CASE k # "ignored"
          BY <1>1, <2>2 DEF Remove, WithdrawnFrom, Kinds
    <2> QED BY <2>1, <2>2
  <1>4. Good(declared', wanted')
    <2>1. CASE Construct
      <3>1. \A k \in Kinds : Builtin[k] \subseteq Type
            BY RegistryAssumption
      <3>2. /\ declared' = [k \in Kinds |-> declared[k] \cup Builtin[k]]
            /\ wanted' = [k \in Kinds |-> wanted[k] \cup Builtin[k]]
            BY <2>1 DEF Construct
      <3>3. \A k \in Kinds : declared'[k] \subseteq Type /\ wanted'[k] \subseteq Type
            BY <1>1, <3>1, <3>2
      <3>4. declared' \in [Kinds -> SUBSET Type] /\ wanted' \in [Kinds -> SUBSET Type]
            BY <3>2, <3>3
      <3> QED BY <1>1, <3>2, <3>4 DEF Kinds
    <2>2. CASE \E k \in Kinds, t \in Declarable : Declare(k, t) \/ Withdraw(k, t)
      <3>1. PICK k \in Kinds, t \in Declarable : Declare(k, t) \/ Withdraw(k, t)
            BY <2>2
      <3>2. t \in Type
            BY RegistryAssumption
      <3> HIDE DEF Good
      <3> QED BY <1>2, <1>3, <3>1, <3>2 DEF Declare, Withdraw
    <2>3. CASE UNCHANGED <<declared, wanted>>
          BY <1>1, <2>3
    <2> HIDE DEF Good
    <2> QED BY <2>1, <2>2, <2>3 DEF RegistryNext, Register, RegisterEx, Registered,
                                    RegisterSequential, RegisterPairs
  <1> QED BY <1>4 DEF RemovalsErrOneWay

LEMMA StepHolds ==
    ASSUME RegistryInv, RemovalsErrOneWay, [Next]_vars
    PROVE  (RegistryInv /\ RemovalsErrOneWay)'
  <1>1. CASE UNCHANGED registryVars
        BY <1>1 DEF registryVars, RegistryInv, RegistryTypeOK, PointersFollow, Known, Base, Of,
                    ListsFollow, ListsHold, Listed, Inner, Item, RemovalsErrOneWay
  <1>2. CASE RegistryNext
    <2>1. RegistryTypeOK /\ PointersFollow
          BY DEF RegistryInv
    <2>2. PointersFollow' /\ pointerMap' \in [Type -> SUBSET Type]
      <3>1. CASE \E c \in Class : Register(c) \/ RegisterEx(c)
            BY <3>1, PointersStep
      <3>2. CASE UNCHANGED <<pointerMap, registered, smart>>
            BY <2>1, <3>2 DEF RegistryTypeOK, PointersFollow, Known, Base, Of
      <3> QED BY <1>2, <3>1, <3>2 DEF RegistryNext, Construct, RegisterSequential, RegisterPairs,
                                      Declare, Withdraw
    <2>3. once' \in BOOLEAN /\ registered' \subseteq Class /\ smart' \subseteq registered' /\ regs' \in Nat
      <3>1. /\ once \in BOOLEAN /\ registered \subseteq Class /\ smart \subseteq registered /\ regs \in Nat
            BY <2>1 DEF RegistryTypeOK
      <3>2. CASE Construct
            BY <3>1, <3>2 DEF Construct
      <3>3. ASSUME NEW c \in Class, Register(c) \/ RegisterEx(c)
            PROVE  /\ once' \in BOOLEAN /\ registered' \subseteq Class
                   /\ smart' \subseteq registered' /\ regs' \in Nat
            BY <3>1, <3>3 DEF Register, RegisterEx, Registered, Call
      <3>4. CASE UNCHANGED <<once, registered, smart>> /\ Call
            BY <3>1, <3>4 DEF Call
      <3> QED BY <1>2, <3>2, <3>3, <3>4 DEF RegistryNext, RegisterSequential, RegisterPairs,
                                            Declare, Withdraw
    <2> QED BY <1>2, <2>1, <2>2, <2>3, ListsStep, DeclarationsStep DEF RegistryInv, RegistryTypeOK
  <1> QED BY <1>1, <1>2, Steps

\* The registries keep their form: a pair is an associative container, a class
\* with smart pointers is a registered one (TypeRegistry!RegistryTypeOK;
\* orm.cpp:79-91).
THEOREM RegistriesKeepForm == Spec => []RegistryTypeOK
  <1>1. RegistryInv => RegistryTypeOK
        BY DEF RegistryInv
  <1> QED BY InitHolds, StepHolds, <1>1, PTL DEF Spec

\* In any order of registrations, a class's types lead to one stub with all
\* that was registered (TypeRegistry!PointersFollow).
THEOREM RegistryCorrect == Spec => []PointersFollow
  <1>1. RegistryInv => PointersFollow
        BY DEF RegistryInv
  <1> QED BY InitHolds, StepHolds, <1>1, PTL DEF Spec

\* A type the program no longer wants ignored is the only kind of declaration
\* Config::remove...Type does not get rid of (TypeRegistry!RemovalsErrOneWay).
THEOREM RemovalsMiss == Spec => []RemovalsErrOneWay
  BY InitHolds, StepHolds, PTL DEF Spec

LEMMA ObjectsHaveNoValueType ==
    ASSUME NEW c \in Class, <<"T", c>> \in Type
    PROVE  c \in Gadgets
  <1>1. \A S, N : <<"T", c>> \in Of(S, N) => "T" \in S /\ c \in N
        BY DEF Of
  <1>2. "T" \notin {"T*", "QList", "QList of QSharedPointer", "QMap", "QPair"} \cup Smart
        BY DEF Smart
  <1>3. \/ <<"T", c>> \in Of({"T"}, Gadgets \cup Plain) \/ <<"T", c>> \in Of({"QPointer"}, Objects)
        \/ <<"T", c>> \in Of({"T*", "QList", "QList of QSharedPointer", "QMap", "QPair"} \cup Smart, Class)
        BY DEF Type
  <1>4. c \in Gadgets \cup Plain
    <2>1. "T" \notin {"QPointer"}
          OBVIOUS
    <2> QED BY <1>1, <1>2, <1>3, <2>1
  <1> QED BY <1>4, RegistryAssumption DEF Class

\* Which types lead to the stub of a registered class.
LEMMA KnownShapes ==
    ASSUME NEW c \in Class, NEW s, c \in registered
    PROVE  /\ <<s, c>> \in Known(c) <=>
                 \/ s = "T*" \/ (s \in Smart /\ c \in smart)
                 \/ (s = "T" /\ c \in Gadgets) \/ (s = "QPointer" /\ c \notin Gadgets)
           /\ Known(c) # {}
           /\ Value(Known(c)) # {} <=> c \in Gadgets
           /\ \A t \in Value(Known(c)) : t = <<"T", c>>
  <1>1. <<s, c>> \in Of(Smart, {c}) <=> s \in Smart
        BY DEF Of
  <1>2. <<s, c>> \in Base(c) <=> s = "T*" \/ (s = "T" /\ c \in Gadgets) \/ (s = "QPointer" /\ c \notin Gadgets)
    <2> DEFINE a == <<s, c>> b == <<"T", c>> d == <<"T*", c>> q == <<"QPointer", c>>
    <2>1. (a = b <=> s = "T") /\ (a = d <=> s = "T*") /\ (a = q <=> s = "QPointer")
          BY SamePair
    <2>2. Base(c) = IF c \in Gadgets THEN {b, d} ELSE {d, q}
          BY DEF Base
    <2> HIDE DEF a, b, d, q
    <2>3. a \in Base(c) <=> s = "T*" \/ (s = "T" /\ c \in Gadgets) \/ (s = "QPointer" /\ c \notin Gadgets)
          BY <2>1, <2>2
    <2>4. a = <<s, c>>
          BY DEF a
    <2> QED BY <2>3, <2>4
  <1>3. \A t \in Of(Smart, {c}) : t[1] # "T"
        BY SmartTypes DEF Smart
  <1>4. \A t \in Base(c) : t[1] = "T" => c \in Gadgets /\ t = <<"T", c>>
    <2>1. CASE c \in Gadgets
          BY <2>1 DEF Base
    <2>2. CASE c \notin Gadgets
      <3>1. Base(c) = {<<"T*", c>>, <<"QPointer", c>>}
            BY <2>2 DEF Base
      <3>2. <<"T*", c>>[1] = "T*" /\ <<"QPointer", c>>[1] = "QPointer"
            OBVIOUS
      <3> QED BY <3>1, <3>2
    <2> QED BY <2>1, <2>2
  <1>5. \A t \in Known(c) : t[1] = "T" => c \in Gadgets /\ t = <<"T", c>>
        BY <1>3, <1>4 DEF Known
  <1>6. c \in Gadgets => <<"T", c>> \in Known(c)
        BY DEF Known, Base
  <1>7. Known(c) = IF c \in smart THEN Base(c) \cup Of(Smart, {c}) ELSE Base(c)
        BY DEF Known
  <1>8. <<s, c>> \in Known(c) <=> <<s, c>> \in Base(c) \/ (c \in smart /\ s \in Smart)
        BY <1>1, <1>7
  <1>9. Known(c) # {}
        BY <1>7 DEF Base
  <1>10. Value(Known(c)) = {t \in Known(c) : t[1] = "T"}
        BY DEF Value
  <1>11. <<"T", c>>[1] = "T"
        OBVIOUS
  <1>12. Value(Known(c)) # {} <=> c \in Gadgets
        BY <1>5, <1>6, <1>10, <1>11
  <1>13. \A t \in Value(Known(c)) : t = <<"T", c>>
        BY <1>5, <1>10
  <1> QED BY <1>2, <1>8, <1>9, <1>12, <1>13

\* What the ORM makes of a type of a registered class.
LEMMA Treatment ==
    ASSUME RegistryInv, NEW c \in registered,
           NEW s \in {"T", "T*", "QPointer", "QList", "QList of QSharedPointer"} \cup Smart,
           NEW t, t = <<s, c>>, t \in Type, ~isIgnored(t), ~isPrimitive(t)
    PROVE  /\ s \in {"T", "T*"} => Layout(t) = c
           /\ s = "QPointer" => Layout(t) = "column"
           /\ s \in Smart \ Weak => Layout(t) = IF c \in smart THEN c ELSE "column"
           /\ s \in Weak => Layout(t) = IF c \in smart THEN "no columns" ELSE "column"
           /\ s = "QList" => Layout(t) = IF isSequentialContainer(t) THEN c ELSE "column"
           /\ s = "QList" /\ c \in Gadgets => isSequentialContainer(t)
           /\ s = "QList of QSharedPointer" =>
                 Layout(t) = IF isSequentialContainer(t) THEN "index, value" ELSE "column"
  <1>0. /\ registered \subseteq Class /\ pairTypes \subseteq assContTypeMap
        /\ \A u \in assContTypeMap : u[1] \in {"QMap", "QPair"}
        BY DEF RegistryInv, RegistryTypeOK, ListsFollow
  <1>1. c \in Class /\ t[1] = s /\ t[2] = c
        BY <1>0
  <1>2. pointerMap[t] = IF t \in Known(c) /\ s # "QPointer" THEN Known(c) ELSE {}
        BY <1>1 DEF RegistryInv, PointersFollow
  <1>3. /\ t \in Known(c) <=>
              \/ s = "T*" \/ (s \in Smart /\ c \in smart)
              \/ (s = "T" /\ c \in Gadgets) \/ (s = "QPointer" /\ c \notin Gadgets)
        /\ Known(c) # {} /\ (Value(Known(c)) # {} <=> c \in Gadgets)
        /\ \A v \in Value(Known(c)) : v = <<"T", c>>
        BY <1>1, KnownShapes
  <1>4. t \notin assContTypeMap /\ t \notin pairTypes
    <2>1. s \notin {"QMap", "QPair"}
          BY DEF Smart
    <2> QED BY <1>0, <1>1, <2>1
  <1>5. seqContTypeMap[t] # NoType => s \in Sequential /\ seqContTypeMap[t] = Inner(t)
        BY <1>1 DEF RegistryInv, ListsFollow, ListsHold
  <1>6. s = "QList" /\ c \in Gadgets => seqContTypeMap[t] # NoType
        BY DEF RegistryInv, ListsFollow, Listed
  <1>7. \A k \in {"ignored", "primitive", "string", "raw"} : t \notin declared[k]
        BY DEF isIgnored, isPrimitive
  <1>8. isTypeForTable(t) <=> isPointer(t) \/ isGadget(t) \/ isSequentialContainer(t)
        BY <1>4 DEF isTypeForTable, isAssociativeContainer
  <1>9. actualMetaTypeID(t) =
          IF isSequentialContainer(t) THEN seqContTypeMap[t]
          ELSE IF pointerMap[t] = {} THEN t
          ELSE IF isWeakPointer(t) THEN NoType
          ELSE IF Value(pointerMap[t]) # {} THEN <<"T", c>> ELSE <<"T*", c>>
        BY <1>1, <1>4, <1>7 DEF actualMetaTypeID, isIgnored, isAssociativeContainer
  <1>10. Layout(t) =
           IF ~isTypeForTable(t) THEN "column"
           ELSE IF metaObject(t) # "" THEN metaObject(t)
           ELSE IF metaObject(actualMetaTypeID(t)) # "" THEN metaObject(actualMetaTypeID(t))
           ELSE IF isSequentialContainer(t) THEN "index, value" ELSE "no columns"
        BY <1>4 DEF Layout, meta_object, isAssociativeContainer
  <1>11. /\ metaObject(<<"T", c>>) = IF c \in Gadgets THEN c ELSE ""
         /\ metaObject(<<"T*", c>>) = IF GadgetPointers \/ c \in Objects THEN c ELSE ""
         /\ metaObject(<<"QSharedPointer", c>>) = "" /\ metaObject(NoType) = ""
         BY DEF metaObject, FlaggedGadget, NoType
  <1>12. c # "" /\ (c \in Objects <=> c \notin Gadgets)
        BY <1>1, RegistryAssumption DEF Class
  <1>13. isSequentialContainer(t) <=> seqContTypeMap[t] # NoType
        BY DEF isSequentialContainer
  <1>14. isPointer(t) <=> \/ s = "T*" /\ (GadgetPointers \/ c \in Objects)
                          \/ pointerMap[t] # {} /\ t \notin Value(pointerMap[t])
        BY <1>1 DEF isPointer
  <1>15. isGadget(t) <=> IF pointerMap[t] = {} THEN s = "T" /\ c \in Gadgets ELSE Value(pointerMap[t]) # {}
        BY <1>1 DEF isGadget, FlaggedGadget
  <1>16. metaObject(t) = IF (s = "T" /\ c \in Gadgets) \/ (s = "T*" /\ (GadgetPointers \/ c \in Objects)) THEN c ELSE ""
        BY <1>1 DEF metaObject, FlaggedGadget
  <1>17. isWeakPointer(t) <=> pointerMap[t] # {} /\ s \in Weak
        BY <1>1 DEF isWeakPointer
  <1>18. /\ "QPointer" \notin Sequential \cup Smart /\ "T" \notin Sequential \cup Smart
         /\ "T*" \notin Sequential \cup Smart /\ Weak \subseteq Smart
         /\ "QList" \notin Smart /\ "QList of QSharedPointer" \notin Smart
         /\ Sequential \cap Smart = {} /\ s \in {"T", "T*", "QPointer"} \cup Sequential \cup Smart
         BY DEF Sequential, Smart, Weak
  <1>19. CASE s = "QPointer"
    <2>1. pointerMap[t] = {} /\ ~isSequentialContainer(t)
          BY <1>2, <1>5, <1>13, <1>18, <1>19
    <2>2. ~isTypeForTable(t)
          BY <1>8, <1>14, <1>15, <1>19, <2>1
    <2> QED BY <1>10, <1>18, <1>19, <2>2
  <1>20. CASE s = "T"
    <2>1. c \in Gadgets
          BY <1>1, <1>20, ObjectsHaveNoValueType
    <2>2. metaObject(t) = c
          BY <1>16, <1>20, <2>1
    <2>3. isTypeForTable(t)
          BY <1>2, <1>3, <1>8, <1>15, <1>20, <2>1
    <2> QED BY <1>10, <1>12, <1>18, <1>20, <2>2, <2>3
  <1>21. CASE s = "T*"
    <2>1. pointerMap[t] = Known(c) /\ ~isSequentialContainer(t) /\ ~isWeakPointer(t)
          BY <1>2, <1>3, <1>5, <1>13, <1>17, <1>18, <1>21
    <2>2. t \notin Value(Known(c))
          BY <1>1, <1>3, <1>21
    <2>3. isTypeForTable(t)
          BY <1>3, <1>8, <1>14, <2>1, <2>2
    <2>4. c \in Gadgets => metaObject(actualMetaTypeID(t)) = c
          BY <1>3, <1>9, <1>11, <2>1
    <2>5. c \notin Gadgets => metaObject(t) = c
          BY <1>12, <1>16, <1>21
    <2>6. metaObject(t) \in {c, ""}
          BY <1>16
    <2> QED BY <1>10, <1>12, <1>18, <1>21, <2>3, <2>4, <2>5, <2>6
  <1>22. CASE s \in Smart
    <2>1. ~isSequentialContainer(t) /\ metaObject(t) = "" /\ s \notin {"T", "T*", "QPointer"}
          BY <1>5, <1>13, <1>16, <1>18, <1>22
    <2>2. CASE c \notin smart
      <3>1. pointerMap[t] = {}
            BY <1>2, <1>3, <1>22, <2>1, <2>2
      <3>2. ~isTypeForTable(t)
            BY <1>8, <1>14, <1>15, <2>1, <3>1
      <3> QED BY <1>10, <1>18, <1>22, <2>1, <2>2, <3>2
    <2>3. CASE c \in smart
      <3>1. pointerMap[t] = Known(c)
            BY <1>2, <1>3, <1>22, <2>1, <2>3
      <3>2. t \notin Value(Known(c))
            BY <1>1, <1>3, <2>1
      <3>3. isTypeForTable(t)
            BY <1>3, <1>8, <1>14, <3>1, <3>2
      <3>4. CASE s \in Weak
        <4>1. metaObject(actualMetaTypeID(t)) = ""
              BY <1>3, <1>9, <1>11, <1>17, <2>1, <3>1, <3>4
        <4> QED BY <1>10, <1>18, <1>22, <2>1, <2>3, <3>3, <3>4, <4>1
      <3>5. CASE s \notin Weak
        <4>1. metaObject(actualMetaTypeID(t)) = c
              BY <1>3, <1>9, <1>11, <1>12, <1>17, <2>1, <3>1, <3>5
        <4> QED BY <1>10, <1>12, <1>18, <1>22, <2>1, <2>3, <3>3, <3>5, <4>1
      <3> QED BY <3>4, <3>5
    <2> QED BY <2>2, <2>3
  <1>23. CASE s \in Sequential
    <2>1. /\ s \notin {"T", "T*", "QPointer"} /\ s \notin Smart
          /\ s = "QList" \/ s = "QList of QSharedPointer"
          BY <1>18, <1>23 DEF Sequential
    <2>2. pointerMap[t] = {} /\ metaObject(t) = ""
          BY <1>2, <1>3, <1>16, <2>1
    <2>3. isTypeForTable(t) <=> isSequentialContainer(t)
          BY <1>8, <1>14, <1>15, <2>1, <2>2
    <2>4. CASE ~isSequentialContainer(t)
          BY <1>6, <1>10, <1>13, <1>18, <2>1, <2>3, <2>4
    <2>5. CASE isSequentialContainer(t) /\ s = "QList"
      <3>1. actualMetaTypeID(t) = Item(c)
            BY <1>1, <1>5, <1>9, <1>13, <2>5 DEF Inner
      <3>2. metaObject(actualMetaTypeID(t)) = c
            BY <1>11, <1>12, <3>1 DEF Item
      <3> QED BY <1>10, <1>12, <1>18, <2>1, <2>2, <2>3, <2>5, <3>2
    <2>6. CASE isSequentialContainer(t) /\ s # "QList"
      <3>1. actualMetaTypeID(t) = <<"QSharedPointer", c>>
            BY <1>1, <1>5, <1>9, <1>13, <2>6 DEF Inner
      <3>2. metaObject(actualMetaTypeID(t)) = ""
            BY <1>11, <3>1
      <3> QED BY <1>10, <1>18, <2>1, <2>2, <2>3, <2>6, <3>2
    <2> QED BY <2>4, <2>5, <2>6
  <1> QED BY <1>18, <1>19, <1>20, <1>21, <1>22, <1>23

\* A registered class is one table whether it is held by value, by pointer, by
\* shared pointer or in a list, for all classes and all orders of registration.
THEOREM RegisteredAlike == Spec => []TreatedAlike
  <1>1. RegistryInv => TreatedAlike
    <2> SUFFICES ASSUME RegistryInv, NEW c \in registered,
                        NEW s \in {"T", "T*", "QList"} \cup (Smart \ Weak), NEW t, t = <<s, c>>,
                        t \in Type, ~isIgnored(t), ~isPrimitive(t), s \in Smart => c \in smart,
                        s = "QList" /\ c \in Objects => isSequentialContainer(t)
                 PROVE  Layout(t) = c
        BY DEF TreatedAlike
    <2>1. c \in Gadgets \cup Objects
          BY DEF RegistryInv, RegistryTypeOK, Class
    <2>2. s = "QList" => isSequentialContainer(t)
          BY <2>1, Treatment
    <2> QED BY <2>2, Treatment
  <1> QED BY InitHolds, StepHolds, <1>1, PTL DEF Spec

-----------------------------------------------------------------------------
(* There and back, under the declarations D.                               *)

PropertyTypes == Of({"T"}, Plain \ {"QString", "QByteArray"})

EncodeAt(D, t, v) ==
    LET s == IF t \in D["string"] THEN ToText(v) ELSE v
    IN  IF t \in D["raw"] THEN Stream(s) ELSE s
ReadAt(D, h, t, v) == IF h = "pair" THEN v ELSE EncodeAt(D, t, v)
DecodeAt(D, t, c) ==
    LET s == IF t \in D["string"] THEN Convert(c, t) ELSE c
    IN  IF t \in D["raw"] THEN Unstream(s) ELSE s
ColumnAt(D, h, t, d) == Column(EncodeAt(D, t, ReadAt(D, h, t, V(t, d))))

\* A list of numbers after a trip.
Reprinted(d) == IF d = <<>> THEN <<"0">> ELSE [i \in DOMAIN d |-> Printed[d[i]]]

SurvivesAt(D, h, t, d) ==
    IF \/ t \in D["ignored"]
       \/ t \in D["raw"] /\ (h = "class" \/ t \in D["string"])
       \/ t \notin D["raw"] /\ ~Writable(t) /\ t \notin Lists
    THEN Default[t]
    ELSE IF t \in D["raw"] \/ t \notin Lists THEN d
    ELSE Reprinted(d)

\* Types and data are sequences of words.
Words == STRING \cup Plain \cup {"T", "", "QString", "QByteArray", "bytes"}

LEMMA OneWord ==
    ASSUME NEW a
    PROVE  DOMAIN <<a>> = {1} /\ <<a>>[1] = a /\ <<a>> = [i \in {1} |-> a]
  <1>1. <<a>>[1] = a /\ DOMAIN <<a>> = 1..1 /\ <<a>> = [i \in 1..1 |-> a]
        OBVIOUS
  <1>2. 1..1 = {1}
        OBVIOUS
  <1>3. [i \in 1..1 |-> a] = [i \in {1} |-> a]
        BY <1>2
  <1> QED BY <1>1, <1>2, <1>3

LEMMA TwoWords ==
    ASSUME NEW a \in Words, NEW b \in Words
    PROVE  <<a, b>> \in Seq(Words) /\ Len(<<a, b>>) = 2
  OBVIOUS

LEMMA SeqOfMore ==
    ASSUME NEW S, NEW T, S \subseteq T, NEW s \in Seq(S)
    PROVE  s \in Seq(T)
  OBVIOUS

LEMMA DataAreWords ==
    ASSUME NEW d \in Seq(STRING)
    PROVE  d \in Seq(Words)
  <1>1. PICK S : S = STRING
        OBVIOUS
  <1>2. S \subseteq Words
        BY <1>1 DEF Words
  <1>3. d \in Seq(S)
        BY <1>1
  <1> QED BY ONLY <1>2, <1>3, SeqOfMore

LEMMA PropertyType ==
    ASSUME NEW t \in PropertyTypes
    PROVE  /\ t \in Seq(Words) /\ Len(t) = 2 /\ t[1] = "T" /\ t[2] \in Plain /\ t = <<t[1], t[2]>>
           /\ t # QString /\ t # QByteArray /\ t # NoType
  <1>1. PICK n \in Plain \ {"QString", "QByteArray"} : t = <<"T", n>>
        BY DEF PropertyTypes, Of
  <1>2. t \in Seq(Words) /\ Len(t) = 2
    <2>1. "T" \in Words /\ n \in Words
          BY DEF Words
    <2> QED BY <1>1, <2>1, TwoWords
  <1>3. t[1] = "T" /\ t[2] = n /\ t = <<t[1], t[2]>>
        BY <1>1
  <1>4. <<"T", n>> # <<"T", "QString">> /\ <<"T", n>> # <<"T", "QByteArray">> /\ <<"T", n>> # <<"", "">>
    <2>1. n # "QString" /\ n # "QByteArray"
          OBVIOUS
    <2> QED BY <2>1
  <1> QED BY <1>1, <1>2, <1>3, <1>4 DEF QString, QByteArray, NoType

LEMMA OwnTypes ==
    /\ QString \notin Lists \cup Scalars /\ QByteArray \notin Lists \cup Scalars
    /\ NoType \notin Lists \cup Scalars
    /\ ~Writable(QByteArray) /\ ~Writable(NoType)
    /\ QString # QByteArray /\ QString # NoType /\ QByteArray # NoType
  <1>1. \A t \in Lists \cup Scalars : t \in PropertyTypes
        BY ValuesAssumption DEF PropertyTypes
  <1>2. /\ QString \notin Lists \cup Scalars /\ QByteArray \notin Lists \cup Scalars
        /\ NoType \notin Lists \cup Scalars
        BY <1>1, PropertyType
  <1>3. QByteArray[2] \notin Converted /\ NoType[2] \notin Converted
        BY ValuesAssumption DEF QByteArray, NoType
  <1>4. ~Writable(QByteArray) /\ ~Writable(NoType)
        BY <1>2, <1>3 DEF Writable
  <1>5. QString # QByteArray /\ QString # NoType /\ QByteArray # NoType
        BY DEF QString, QByteArray, NoType
  <1> QED BY <1>2, <1>4, <1>5

LEMMA Texts ==
    ASSUME NEW t \in PropertyTypes, NEW d
    PROVE  /\ ToText(V(t, d)) = IF t \in Lists THEN ListToText(d)
                                ELSE IF Writable(t) THEN V(QString, d) ELSE Null
           /\ ToText(V(QString, d)) = V(QString, d)
           /\ ToText(V(QByteArray, d)) = V(QString, <<"bytes">>)
           /\ ToText(Null) = Null
  BY PropertyType, OwnTypes DEF ToText, V, Null

LEMMA Conversions ==
    ASSUME NEW t \in PropertyTypes, NEW d
    PROVE  /\ Convert(V(t, d), t) = V(t, d)
           /\ Convert(V(QString, d), t) = IF t \in Lists THEN TextToList(t, d)
                                          ELSE IF Writable(t) THEN V(t, d) ELSE Null
           /\ Convert(V(QByteArray, d), t) = Null
           /\ Convert(Null, t) = Null
           /\ V(t, d) # Null
  BY PropertyType, OwnTypes DEF Convert, V, Null

\* What write makes of what it may be given.
LEMMA Writes ==
    ASSUME NEW t \in PropertyTypes, NEW d
    PROVE  /\ Write(t, V(t, d)) = d
           /\ Write(t, V(QString, d)) = IF t \in Lists THEN TextToList(t, d).data
                                        ELSE IF Writable(t) THEN d ELSE Default[t]
           /\ Write(t, V(QByteArray, d)) = Default[t]
           /\ Write(t, Null) = Default[t]
  <1>1. TextToList(t, d) # Null
        BY PropertyType DEF TextToList, V, Null
  <1>2. V(t, d).data = d
        BY DEF V
  <1> QED BY <1>1, <1>2, Conversions DEF Write

LEMMA ColumnsOf ==
    ASSUME NEW t \in PropertyTypes, NEW d
    PROVE  /\ Column(V(t, d)) = IF t \in Scalars THEN V(t, d)
                                ELSE IF t \in Lists THEN ListToText(d)
                                ELSE IF Writable(t) THEN V(QString, d) ELSE V(QString, <<"">>)
           /\ Column(V(QString, d)) = V(QString, d)
           /\ Column(V(QByteArray, d)) = V(QByteArray, d)
           /\ Column(Null) = Null
  <1>1. V(t, d).type = t /\ V(QString, d).type = QString /\ V(QByteArray, d).type = QByteArray
        BY DEF V
  <1>2. ListToText(d) # Null /\ V(QString, d) # Null /\ V(t, d) # Null
        BY OwnTypes, PropertyType DEF ListToText, V, Null
  <1> QED BY <1>1, <1>2, Texts, PropertyType DEF Column

LEMMA ListReturns ==
    ASSUME NEW t \in Lists, NEW d \in Seq(Numbers)
    PROVE  ListToText(d).type = QString /\ TextToList(t, ListToText(d).data).data = Reprinted(d)
  <1>1. PICK x : x = IF d = <<>> THEN <<"">> ELSE [i \in DOMAIN d |-> Printed[d[i]]]
        OBVIOUS
  <1>2. ListToText(d) = V(QString, x)
        BY <1>1 DEF ListToText
  <1>3. TextToList(t, x).data = [i \in DOMAIN x |-> IF x[i] = "" THEN "0" ELSE x[i]]
        BY DEF TextToList, V
  <1>4. [i \in DOMAIN x |-> IF x[i] = "" THEN "0" ELSE x[i]] = Reprinted(d)
    <2>1. CASE d = <<>>
      <3>1. DOMAIN x = {1} /\ x[1] = ""
            BY <1>1, <2>1, OneWord
      <3>2. [i \in DOMAIN x |-> IF x[i] = "" THEN "0" ELSE x[i]] = [i \in {1} |-> "0"]
            BY <3>1
      <3>3. [i \in {1} |-> "0"] = <<"0">>
            BY OneWord
      <3> QED BY <2>1, <3>2, <3>3 DEF Reprinted
    <2>2. CASE d # <<>>
      <3>1. x = [i \in DOMAIN d |-> Printed[d[i]]]
            BY <1>1, <2>2
      <3>2. \A i \in DOMAIN x : x[i] # ""
        <4> SUFFICES ASSUME NEW i \in DOMAIN d PROVE Printed[d[i]] # ""
            BY <3>1
        <4>1. d[i] \in Numbers
              OBVIOUS
        <4> QED BY <4>1, ValuesAssumption
      <3>3. [i \in DOMAIN x |-> IF x[i] = "" THEN "0" ELSE x[i]] = [i \in DOMAIN d |-> Printed[d[i]]]
            BY <3>1, <3>2
      <3> QED BY <2>2, <3>3 DEF Reprinted
    <2> QED BY <2>1, <2>2
  <1>5. V(QString, x).type = QString /\ V(QString, x).data = x
        BY DEF V
  <1> QED BY <1>2, <1>3, <1>4, <1>5

\* One QDataStream undoes one.
LEMMA StreamReturns ==
    ASSUME NEW t \in Seq(Words), Len(t) = 2, NEW d \in Seq(Words)
    PROVE  /\ Stream(V(t, d)).type = QByteArray /\ Unstream(Stream(V(t, d))) = V(t, d)
           /\ Stream(V(t, d)).data \in Seq(Words)
  <1> DEFINE x == t \o d
  <1>1. Stream(V(t, d)) = V(QByteArray, x)
        BY DEF Stream, V
  <1>2. /\ x \in Seq(Words) /\ Len(x) = 2 + Len(d) /\ Len(d) \in Nat
        /\ \A i \in 1..2 + Len(d) : x[i] = IF i <= 2 THEN t[i] ELSE d[i - 2]
    <2>1. /\ x \in Seq(Words) /\ Len(x) = Len(t) + Len(d)
          /\ \A i \in 1..Len(t) + Len(d) : x[i] = IF i <= Len(t) THEN t[i] ELSE d[i - Len(t)]
          BY ConcatProperties
    <2>2. PICK n : n = Len(t)
          OBVIOUS
    <2>3. n = 2 /\ Len(d) \in Nat
          BY <2>2
    <2> QED BY <2>1, <2>2, <2>3
  <1> HIDE DEF x
  <1>3. SubSeq(x, 1, 2) = t
    <2>1. PICK y : y = SubSeq(x, 1, 2)
          OBVIOUS
    <2>2. \A i \in 1..2 : x[i] \in Words /\ x[i] = t[i]
          BY <1>2
    <2>3. y \in Seq(Words) /\ Len(y) = 2 /\ \A i \in 1..2 : y[i] = x[i]
          BY <2>1, <2>2, SubSeqProperties
    <2> QED BY <2>1, <2>2, <2>3, SeqEqual
  <1>4. SubSeq(x, 3, Len(x)) = d
    <2>1. PICK y : y = SubSeq(x, 3, 2 + Len(d))
          OBVIOUS
    <2>2. \A i \in 3..2 + Len(d) : x[i] \in Words /\ x[i] = d[i - 2]
          BY <1>2
    <2>3. y \in Seq(Words) /\ Len(y) = Len(d) /\ \A i \in 1..Len(d) : y[i] = x[i + 2]
      <3>1. 3 \in Int /\ 2 + Len(d) \in Int /\ \A i \in 3..2 + Len(d) : x[i] \in Words
            BY <1>2, <2>2
      <3>2. /\ SubSeq(x, 3, 2 + Len(d)) \in Seq(Words)
            /\ Len(SubSeq(x, 3, 2 + Len(d))) = IF 3 <= 2 + Len(d) THEN 2 + Len(d) - 3 + 1 ELSE 0
            /\ \A i \in 1..2 + Len(d) - 3 + 1 : SubSeq(x, 3, 2 + Len(d))[i] = x[3 + i - 1]
            BY <3>1, SubSeqProperties
      <3> QED BY <1>2, <2>1, <3>2
    <2>4. \A i \in 1..Len(d) : y[i] = d[i]
      <3> SUFFICES ASSUME NEW i \in 1..Len(d) PROVE y[i] = d[i]
          OBVIOUS
      <3>1. i + 2 \in 3..2 + Len(d) /\ i + 2 - 2 = i
            BY <1>2
      <3> QED BY <2>2, <2>3, <3>1
    <2> QED BY <1>2, <2>1, <2>3, <2>4, SeqEqual
  <1>5. V(QByteArray, x).type = QByteArray /\ V(QByteArray, x).data = x
        BY DEF V
  <1>6. Len(x) > 1
        BY <1>2
  <1> QED BY <1>1, <1>2, <1>3, <1>4, <1>5, <1>6 DEF Unstream

LEMMA QByteArrayWords == QByteArray \in Seq(Words) /\ Len(QByteArray) = 2
  <1>1. "T" \in Words /\ "QByteArray" \in Words
        BY DEF Words
  <1> QED BY <1>1, TwoWords DEF QByteArray

\* What a property's column holds, by how its type is declared.
LEMMA ColumnCases ==
    ASSUME NEW D, NEW h \in {"class", "pair"}, NEW t \in PropertyTypes, NEW d
    PROVE  /\ t \notin D["raw"] /\ t \notin D["string"] => ColumnAt(D, h, t, d) = Column(V(t, d))
           /\ t \notin D["raw"] /\ t \in D["string"] => ColumnAt(D, h, t, d) = ToText(V(t, d))
           /\ t \in D["raw"] /\ t \notin D["string"] /\ h = "pair" =>
                 ColumnAt(D, h, t, d) = Column(Stream(V(t, d)))
           /\ t \in D["raw"] /\ t \notin D["string"] /\ h = "class" =>
                 ColumnAt(D, h, t, d) = Column(Stream(Stream(V(t, d))))
           /\ t \in D["raw"] => \E x : ColumnAt(D, h, t, d) = V(QByteArray, x)
  <1>1. PICK v : v = V(t, d)
        OBVIOUS
  <1>2. PICK r : r = ReadAt(D, h, t, v)
        OBVIOUS
  <1>3. ColumnAt(D, h, t, d) = Column(EncodeAt(D, t, r))
        BY <1>1, <1>2 DEF ColumnAt
  <1>4. "class" # "pair"
        OBVIOUS
  <1>5. CASE t \notin D["raw"] /\ t \notin D["string"]
    <2>1. r = v /\ EncodeAt(D, t, r) = v
          BY <1>2, <1>5 DEF ReadAt, EncodeAt
    <2> QED BY <1>1, <1>3, <1>5, <2>1
  <1>6. CASE t \notin D["raw"] /\ t \in D["string"]
    <2>1. r = v \/ r = ToText(v)
          BY <1>2, <1>6 DEF ReadAt, EncodeAt
    <2>2. ToText(v) = Null \/ \E x : ToText(v) = V(QString, x)
          BY <1>1, Texts DEF ListToText
    <2>3. ToText(ToText(v)) = ToText(v)
          BY <2>2, Texts
    <2>4. EncodeAt(D, t, r) = ToText(v)
          BY <1>6, <2>1, <2>3 DEF EncodeAt
    <2>5. Column(ToText(v)) = ToText(v)
          BY <2>2, ColumnsOf
    <2> QED BY <1>1, <1>3, <1>6, <2>4, <2>5
  <1>7. CASE t \in D["raw"]
    <2>1. PICK s : EncodeAt(D, t, r) = Stream(s)
          BY <1>7 DEF EncodeAt
    <2>2. Stream(s) = V(QByteArray, s.type \o s.data)
          BY DEF Stream
    <2>3. \E x : ColumnAt(D, h, t, d) = V(QByteArray, x)
          BY <1>3, <2>1, <2>2, ColumnsOf
    <2>4. t \notin D["string"] /\ h = "pair" => EncodeAt(D, t, r) = Stream(v)
          BY <1>2, <1>7 DEF ReadAt, EncodeAt
    <2>5. t \notin D["string"] /\ h = "class" => EncodeAt(D, t, r) = Stream(Stream(v))
          BY <1>2, <1>4, <1>7 DEF ReadAt, EncodeAt
    <2> QED BY <1>1, <1>3, <1>7, <2>3, <2>4, <2>5
  <1> QED BY <1>5, <1>6, <1>7

\* A property whose type is not ignored comes back from its column as
\* SurvivesAt says.
LEMMA TripSurvives ==
    ASSUME NEW D, NEW h \in {"class", "pair"}, NEW t \in PropertyTypes, t \notin D["ignored"],
           NEW d \in Seq(STRING), t \in Lists => d \in Seq(Numbers)
    PROVE  Write(t, DecodeAt(D, t, ColumnAt(D, h, t, d))) = SurvivesAt(D, h, t, d)
  <1>1. PICK c : c = ColumnAt(D, h, t, d)
        OBVIOUS
  <1>2. t \in Lists => ~(t \in Scalars)
        BY ValuesAssumption
  <1>3. t \in Lists => \E x : ListToText(d) = V(QString, x) /\ TextToList(t, x).data = Reprinted(d)
    <2>1. PICK x : ListToText(d) = V(QString, x)
          BY DEF ListToText
    <2>2. ListToText(d).data = x
          BY <2>1 DEF V
    <2> QED BY <2>1, <2>2, ListReturns
  <1>4. t \in Scalars => Writable(t)
        BY DEF Writable
  <1>5. CASE t \notin D["raw"] /\ t \notin D["string"]
    <2>1. c = Column(V(t, d)) /\ DecodeAt(D, t, c) = c
          BY <1>1, <1>5, ColumnCases DEF DecodeAt
    <2>2. Write(t, c) = IF t \in Lists THEN Reprinted(d) ELSE IF Writable(t) THEN d ELSE Default[t]
      <3>1. CASE t \in Lists
        <4>1. PICK x : ListToText(d) = V(QString, x) /\ TextToList(t, x).data = Reprinted(d)
              BY <1>3, <3>1
        <4>2. c = V(QString, x)
              BY <1>2, <2>1, <3>1, <4>1, ColumnsOf
        <4> QED BY <3>1, <4>1, <4>2, Writes
      <3>2. CASE t \notin Lists /\ Writable(t)
        <4>1. c = V(t, d) \/ c = V(QString, d)
              BY <2>1, <3>2, ColumnsOf
        <4> QED BY <3>2, <4>1, Writes
      <3>3. CASE t \notin Lists /\ ~Writable(t)
        <4>1. c = V(QString, <<"">>)
              BY <1>4, <2>1, <3>3, ColumnsOf
        <4> QED BY <3>3, <4>1, Writes
      <3> QED BY <3>1, <3>2, <3>3
    <2> QED BY <1>1, <1>5, <2>1, <2>2 DEF SurvivesAt
  <1>6. CASE t \notin D["raw"] /\ t \in D["string"]
    <2>1. c = ToText(V(t, d)) /\ DecodeAt(D, t, c) = Convert(c, t)
          BY <1>1, <1>6, ColumnCases DEF DecodeAt
    <2>2. CASE t \in Lists
      <3>1. PICK x : ListToText(d) = V(QString, x) /\ TextToList(t, x).data = Reprinted(d)
            BY <1>3, <2>2
      <3>2. c = V(QString, x)
            BY <2>1, <2>2, <3>1, Texts
      <3>3. Convert(c, t) = TextToList(t, x)
            BY <2>2, <3>2, Conversions
      <3>4. TextToList(t, x) = V(t, TextToList(t, x).data)
            BY DEF TextToList, V
      <3>5. Write(t, Convert(c, t)) = Reprinted(d)
            BY <3>1, <3>3, <3>4, Writes
      <3> QED BY <1>1, <1>6, <2>1, <2>2, <3>5 DEF SurvivesAt
    <2>3. CASE t \notin Lists /\ Writable(t)
      <3>1. Convert(c, t) = V(t, d)
            BY <2>1, <2>3, Texts, Conversions
      <3>2. Write(t, Convert(c, t)) = d
            BY <3>1, Writes
      <3> QED BY <1>1, <1>6, <2>1, <2>3, <3>2 DEF SurvivesAt
    <2>4. CASE t \notin Lists /\ ~Writable(t)
      <3>1. Convert(c, t) = Null
            BY <2>1, <2>4, Texts, Conversions
      <3>2. Write(t, Convert(c, t)) = Default[t]
            BY <3>1, Writes
      <3> QED BY <1>1, <1>6, <2>1, <2>4, <3>2 DEF SurvivesAt
    <2> QED BY <2>2, <2>3, <2>4
  <1>7. CASE t \in D["raw"] /\ t \notin D["string"]
    <2>1. DecodeAt(D, t, c) = Unstream(c)
          BY <1>7 DEF DecodeAt
    <2>2. \A s : Column(Stream(s)) = Stream(s)
      <3> SUFFICES ASSUME NEW s PROVE Column(Stream(s)) = Stream(s)
          OBVIOUS
      <3>1. Stream(s) = V(QByteArray, s.type \o s.data)
            BY DEF Stream
      <3> QED BY <3>1, ColumnsOf
    <2>3. t \in Seq(Words) /\ Len(t) = 2 /\ d \in Seq(Words)
          BY PropertyType, DataAreWords
    <2>4. CASE h = "pair"
      <3>1. c = Stream(V(t, d))
            BY <1>1, <1>7, <2>2, <2>4, ColumnCases
      <3>2. Unstream(c) = V(t, d)
            BY <2>3, <3>1, StreamReturns
      <3>3. Write(t, V(t, d)) = d
            BY Writes
      <3> QED BY <1>1, <1>7, <2>1, <2>4, <3>2, <3>3 DEF SurvivesAt
    <2>5. CASE h = "class"
      <3>1. c = Stream(Stream(V(t, d)))
            BY <1>1, <1>7, <2>2, <2>5, ColumnCases
      <3>2. PICK y : y = t \o d
            OBVIOUS
      <3>3. Stream(V(t, d)) = V(QByteArray, y)
            BY <3>2 DEF Stream, V
      <3>4. y \in Seq(Words)
        <4>1. Stream(V(t, d)).data \in Seq(Words)
              BY <2>3, StreamReturns
        <4> QED BY <3>3, <4>1 DEF V
      <3>5. Unstream(c) = V(QByteArray, y)
            BY <3>1, <3>3, <3>4, QByteArrayWords, StreamReturns
      <3>6. Write(t, V(QByteArray, y)) = Default[t]
            BY Writes
      <3> QED BY <1>1, <1>7, <2>1, <2>5, <3>5, <3>6 DEF SurvivesAt
    <2> QED BY <2>4, <2>5
  <1>8. CASE t \in D["raw"] /\ t \in D["string"]
    <2>1. PICK x : c = V(QByteArray, x)
          BY <1>1, <1>8, ColumnCases
    <2>2. DecodeAt(D, t, c) = Unstream(Convert(c, t))
          BY <1>8 DEF DecodeAt
    <2>3. Convert(c, t) = Null
          BY <2>1, Conversions
    <2>4. Unstream(Null) = Null
      <3>1. Null.type # QByteArray
            BY OwnTypes DEF Null, V
      <3> QED BY <3>1 DEF Unstream
    <2>5. Write(t, Null) = Default[t]
          BY Writes
    <2> QED BY <1>1, <1>8, <2>2, <2>3, <2>4, <2>5 DEF SurvivesAt
  <1> QED BY <1>5, <1>6, <1>7, <1>8

\* What is printed is printed the same again.
LEMMA ReprintedOnce ==
    ASSUME NEW d \in Seq(Numbers)
    PROVE  Reprinted(d) \in Seq(Numbers) /\ Reprinted(Reprinted(d)) = Reprinted(d)
  <1>1. CASE d = <<>>
    <2>1. Reprinted(d) = <<"0">> /\ "0" \in Numbers /\ Printed["0"] = "0"
          BY <1>1, ValuesAssumption DEF Reprinted
    <2>2. <<"0">> \in Seq(Numbers) /\ <<"0">> # <<>>
          BY <2>1
    <2>3. Reprinted(<<"0">>) = [i \in {1} |-> "0"]
      <3>1. PICK z : z = <<"0">>
            OBVIOUS
      <3>2. DOMAIN z = {1} /\ z[1] = "0"
            BY <3>1, OneWord
      <3>3. z # <<>>
            BY <2>2, <3>1
      <3>4. Reprinted(z) = [i \in {1} |-> Printed[z[i]]]
            BY <3>2, <3>3 DEF Reprinted
      <3>5. [i \in {1} |-> Printed[z[i]]] = [i \in {1} |-> "0"]
            BY <2>1, <3>2
      <3> QED BY <3>1, <3>4, <3>5
    <2> QED BY <2>1, <2>2, <2>3, OneWord
  <1>2. CASE d # <<>>
    <2>1. PICK r : r = [i \in DOMAIN d |-> Printed[d[i]]]
          OBVIOUS
    <2>2. Reprinted(d) = r
          BY <1>2, <2>1 DEF Reprinted
    <2>3. \A i \in DOMAIN d : r[i] \in Numbers /\ Printed[r[i]] = r[i]
      <3> SUFFICES ASSUME NEW i \in DOMAIN d PROVE r[i] \in Numbers /\ Printed[r[i]] = r[i]
          OBVIOUS
      <3>1. d[i] \in Numbers
            OBVIOUS
      <3> QED BY <2>1, <3>1, ValuesAssumption
    <2>4. r \in Seq(Numbers) /\ r # <<>> /\ DOMAIN r = DOMAIN d
          BY <1>2, <2>1, <2>3
    <2>5. Reprinted(r) = [i \in DOMAIN r |-> Printed[r[i]]]
          BY <2>4 DEF Reprinted
    <2>6. [i \in DOMAIN r |-> Printed[r[i]]] = r
          BY <2>1, <2>3, <2>4
    <2> QED BY <2>2, <2>4, <2>5, <2>6
  <1> QED BY <1>1, <1>2

\* What came back once comes back as it is.
LEMMA SurvivesOnce ==
    ASSUME NEW D, NEW h, NEW p \in DOMAIN Properties, NEW o, Fits(o),
           NEW t, t = Properties[p], NEW e, e = SurvivesAt(D, h, t, o[p])
    PROVE  /\ SurvivesAt(D, h, t, e) = e
           /\ e \in Seq(STRING) /\ (t \in Lists => e \in Seq(Numbers))
  <1>1. o[p] \in Seq(STRING) /\ (t \in Lists => o[p] \in Seq(Numbers))
        BY DEF Fits
  <1>2. Default[t] \in Seq(STRING) /\ (t \in Lists => Default[t] \in Seq(Numbers))
    <2>1. PICK f : f = [q \in DOMAIN Properties |-> Default[Properties[q]]]
          OBVIOUS
    <2>2. Fits(f)
          BY <2>1, ValuesAssumption
    <2>3. f[p] = Default[t]
          BY <2>1
    <2> QED BY <2>2, <2>3 DEF Fits
  <1>3. ASSUME NEW d \in Seq(Numbers)
        PROVE  d \in Seq(STRING)
    <2>1. PICK S : S = STRING
          OBVIOUS
    <2>2. Numbers \subseteq S
          BY <2>1, ValuesAssumption
    <2>3. d \in Seq(S)
          BY <2>2, SeqOfMore
    <2> QED BY <2>1, <2>3
  <1>4. PICK lost : lost <=> \/ t \in D["ignored"]
                             \/ t \in D["raw"] /\ (h = "class" \/ t \in D["string"])
                             \/ t \notin D["raw"] /\ ~Writable(t) /\ t \notin Lists
    <2>1. \E x \in BOOLEAN : x <=> \/ t \in D["ignored"]
                                   \/ t \in D["raw"] /\ (h = "class" \/ t \in D["string"])
                                   \/ t \notin D["raw"] /\ ~Writable(t) /\ t \notin Lists
          BY Zenon
    <2> QED BY <2>1
  <1>5. \A d : SurvivesAt(D, h, t, d) =
              IF lost THEN Default[t] ELSE IF t \in D["raw"] \/ t \notin Lists THEN d ELSE Reprinted(d)
        BY <1>4 DEF SurvivesAt
  <1>6. CASE lost
        BY <1>2, <1>5, <1>6
  <1>7. CASE ~lost /\ (t \in D["raw"] \/ t \notin Lists)
        BY <1>1, <1>5, <1>7
  <1>8. CASE ~lost /\ t \notin D["raw"] /\ t \in Lists
    <2>1. e = Reprinted(o[p]) /\ SurvivesAt(D, h, t, e) = Reprinted(e)
          BY <1>5, <1>8
    <2>2. Reprinted(o[p]) \in Seq(Numbers) /\ Reprinted(Reprinted(o[p])) = Reprinted(o[p])
          BY <1>1, <1>8, ReprintedOnce
    <2> QED BY <1>3, <2>1, <2>2
  <1> QED BY <1>6, <1>7, <1>8

\* Whatever is registered, a property is a column unless its type is ignored.
LEMMA PlainColumn ==
    ASSUME RegistryInv, NEW t \in PropertyTypes
    PROVE  Layout(t) = "column" <=> t \notin declared["ignored"]
  <1>1. t[1] = "T" /\ t[2] \in Plain /\ t = <<t[1], t[2]>>
        BY PropertyType
  <1>2. t \in Type
    <2>1. <<t[1], t[2]>> \in Of({"T"}, Gadgets \cup Plain)
          BY <1>1, InOf
    <2> QED BY <1>1, <2>1 DEF Type
  <1>3. t[2] \notin Class
        BY <1>1, RegistryAssumption
  <1>4. Known(t[2]) = {}
        BY <1>3 DEF RegistryInv, RegistryTypeOK, Known
  <1>5. pointerMap[t] = {}
        BY <1>2, <1>4 DEF RegistryInv, PointersFollow
  <1>6. ~isSequentialContainer(t)
        BY <1>1, <1>2 DEF RegistryInv, ListsFollow, ListsHold, Sequential, isSequentialContainer
  <1>7. ~isAssociativeContainer(t) /\ t \notin pairTypes
        BY <1>1 DEF RegistryInv, RegistryTypeOK, ListsFollow, isAssociativeContainer
  <1>8. ~isPointer(t) /\ ~isGadget(t)
        BY <1>1, <1>3, <1>5 DEF isPointer, isGadget, FlaggedGadget, Class
  <1>9. ~isTypeForTable(t)
        BY <1>6, <1>7, <1>8 DEF isTypeForTable
  <1> QED BY <1>9 DEF Layout, isIgnored

\* A row holds what the declarations of its time make of the object, what came
\* back under them is what survives, and an object that came back is its own
\* survivor.
RowFollows ==
    object # <<>> =>
        /\ Fits(object)
        /\ \A p \in DOMAIN Properties : Properties[p] \notin declaredAt["ignored"] =>
              row[p] = ColumnAt(declaredAt, holder, Properties[p], object[p])

BackFollows ==
    back # <<>> /\ steady =>
        /\ object # <<>> /\ Fits(back)
        /\ \A p \in DOMAIN Properties :
              back[p] = SurvivesAt(declaredAt, holder, Properties[p], object[p])

AgainFollows ==
    again /\ object # <<>> =>
        \A p \in DOMAIN Properties :
            object[p] = SurvivesAt(declaredAt, holder, Properties[p], object[p])

ValueInv == holder \in {"class", "pair"} /\ RowFollows /\ BackFollows /\ AgainFollows

LEMMA Types == \A p \in DOMAIN Properties : Properties[p] \in PropertyTypes
  BY ValuesAssumption DEF PropertyTypes

\* The row a store writes.
LEMMA StoredRow ==
    ASSUME RegistryInv, NEW h, NEW o, Store(h, o), Fits(o)
    PROVE  (back = <<>>)' /\ RowFollows'
  <1>1. PICK D : D = declared
        OBVIOUS
  <1>2. /\ holder' = h /\ object' = o /\ declaredAt' = D /\ back' = <<>>
        /\ row' = [p \in Columns |->
                     LET t == Properties[p] IN Column(Encode(t, Read(h, t, V(t, o[p]))))]
        BY <1>1 DEF Store
  <1>3. ASSUME NEW p \in DOMAIN Properties, Properties[p] \notin D["ignored"]
        PROVE  row'[p] = ColumnAt(D, h, Properties[p], o[p])
    <2>1. p \in Columns
          BY <1>1, <1>3, PlainColumn, Types DEF Columns
    <2>2. PICK t : t = Properties[p]
          OBVIOUS
    <2>3. row'[p] = Column(Encode(t, Read(h, t, V(t, o[p]))))
          BY <1>2, <2>1, <2>2
    <2>4. \A v : Encode(t, v) = EncodeAt(D, t, v)
          BY <1>1 DEF Encode, EncodeAt
    <2>5. \A v : Read(h, t, v) = ReadAt(D, h, t, v)
          BY <2>4 DEF Read, ReadAt
    <2> QED BY <2>2, <2>3, <2>4, <2>5 DEF ColumnAt
  <1>4. (DOMAIN Properties)' = DOMAIN Properties /\ Fits(object') /\ Fits(object)' = Fits(object')
        BY <1>2 DEF Fits
  <1> QED BY <1>2, <1>3, <1>4 DEF RowFollows

\* What a fetch makes of the row.
LEMMA FetchedBack ==
    ASSUME RegistryInv, ValueInv, Fetch
    PROVE  BackFollows'
  <1> SUFFICES ASSUME steady'
               PROVE  /\ object # <<>> /\ Fits(back')
                      /\ \A p \in DOMAIN Properties :
                            back'[p] = SurvivesAt(declaredAt, holder, Properties[p], object[p])
      BY DEF BackFollows, Fetch, Fits, SurvivesAt
  <1>1. PICK D : D = declaredAt
        OBVIOUS
  <1>2. /\ declared = D /\ object # <<>>
        /\ back' = [p \in DOMAIN Properties |->
                      LET t == Properties[p]
                      IN  IF p \in Columns THEN Write(t, Decode(t, row[p])) ELSE Default[t]]
        BY <1>1 DEF Fetch
  <1>3. ASSUME NEW p \in DOMAIN Properties
        PROVE  /\ back'[p] = SurvivesAt(D, holder, Properties[p], object[p])
               /\ back'[p] \in Seq(STRING) /\ (Properties[p] \in Lists => back'[p] \in Seq(Numbers))
    <2>1. PICK t : t = Properties[p]
          OBVIOUS
    <2>2. back'[p] = IF p \in Columns THEN Write(t, Decode(t, row[p])) ELSE Default[t]
          BY <1>2, <2>1
    <2>3. p \in Columns <=> t \notin D["ignored"]
          BY <1>2, <2>1, PlainColumn, Types DEF Columns
    <2>4. Fits(object) /\ t \in PropertyTypes
          BY <1>2, <2>1, Types DEF ValueInv, RowFollows
    <2>5. back'[p] = SurvivesAt(D, holder, t, object[p])
      <3>1. CASE t \in D["ignored"]
            BY <2>2, <2>3, <3>1 DEF SurvivesAt
      <3>2. CASE t \notin D["ignored"]
        <4>1. row[p] = ColumnAt(D, holder, t, object[p])
              BY <1>1, <1>2, <2>1, <3>2 DEF ValueInv, RowFollows
        <4>2. Decode(t, row[p]) = DecodeAt(D, t, row[p])
              BY <1>2 DEF Decode, DecodeAt
        <4>3. object[p] \in Seq(STRING) /\ (t \in Lists => object[p] \in Seq(Numbers))
              BY <2>1, <2>4 DEF Fits
        <4>4. holder \in {"class", "pair"}
              BY DEF ValueInv
        <4>5. Write(t, DecodeAt(D, t, row[p])) = SurvivesAt(D, holder, t, object[p])
              BY <2>4, <3>2, <4>1, <4>3, <4>4, TripSurvives
        <4> QED BY <2>2, <2>3, <3>2, <4>2, <4>5
      <3> QED BY <3>1, <3>2
    <2>6. back'[p] \in Seq(STRING) /\ (t \in Lists => back'[p] \in Seq(Numbers))
      <3>1. PICK e : e = SurvivesAt(D, holder, t, object[p])
            OBVIOUS
      <3>2. e \in Seq(STRING) /\ (t \in Lists => e \in Seq(Numbers))
        <4>1. p \in DOMAIN Properties /\ Fits(object) /\ t = Properties[p]
              BY <2>1, <2>4
        <4> QED BY ONLY <3>1, <4>1, SurvivesOnce
      <3> QED BY <2>5, <3>1, <3>2
    <2> QED BY <2>1, <2>5, <2>6
  <1>4. PICK b : b = back'
        OBVIOUS
  <1>5. b \in [DOMAIN Properties -> Seq(STRING)]
        BY <1>2, <1>3, <1>4
  <1>6. Fits(b)
        BY <1>3, <1>4, <1>5 DEF Fits
  <1> QED BY <1>1, <1>2, <1>3, <1>4, <1>6

LEMMA ValueStep ==
    ASSUME RegistryInv, ValueInv, [Next]_vars
    PROVE  ValueInv'
  <1>1. CASE UNCHANGED <<holder, object, row, declaredAt, back, steady, again>>
        BY <1>1 DEF ValueInv, RowFollows, BackFollows, AgainFollows, Fits, ColumnAt, ReadAt, EncodeAt,
                    SurvivesAt
  <1>2. CASE StoreNew
    <2>1. PICK h \in {"class", "pair"}, o \in Samples : Store(h, o)
          BY <1>2 DEF StoreNew
    <2>2. Fits(o)
          BY ValuesAssumption
    <2>3. (back = <<>>)' /\ RowFollows'
          BY <2>1, <2>2, StoredRow
    <2>4. holder' \in {"class", "pair"} /\ ~again'
          BY <1>2, <2>1 DEF Store, StoreNew
    <2> QED BY <2>3, <2>4 DEF ValueInv, BackFollows, AgainFollows
  <1>3. CASE StoreBack
    <2>1. back # <<>> /\ steady /\ declaredAt = declared /\ Store(holder, back)
          BY <1>3 DEF StoreBack
    <2>2. /\ Fits(back) /\ Fits(object)
          /\ \A p \in DOMAIN Properties :
                back[p] = SurvivesAt(declaredAt, holder, Properties[p], object[p])
          BY <2>1 DEF ValueInv, BackFollows, RowFollows
    <2>3. (back = <<>>)' /\ RowFollows'
          BY <2>1, <2>2, StoredRow
    <2>4. holder' = holder /\ declaredAt' = declaredAt /\ object' = back
          BY <2>1 DEF Store
    <2>5. \A p \in DOMAIN Properties :
             back[p] = SurvivesAt(declaredAt, holder, Properties[p], back[p])
      <3> SUFFICES ASSUME NEW p \in DOMAIN Properties
                   PROVE  back[p] = SurvivesAt(declaredAt, holder, Properties[p], back[p])
          OBVIOUS
      <3>1. PICK t : t = Properties[p]
            OBVIOUS
      <3>2. PICK e : e = SurvivesAt(declaredAt, holder, t, object[p])
            OBVIOUS
      <3>3. Fits(object)
            BY <2>2
      <3>4. SurvivesAt(declaredAt, holder, t, e) = e
            BY ONLY <3>1, <3>2, <3>3, SurvivesOnce
      <3>5. back[p] = e
            BY <2>2, <3>1, <3>2
      <3> QED BY ONLY <3>1, <3>4, <3>5
    <2>6. AgainFollows'
          BY <2>4, <2>5 DEF AgainFollows, SurvivesAt
    <2> QED BY <2>3, <2>4, <2>6 DEF ValueInv, BackFollows
  <1>4. CASE Fetch
    <2>1. UNCHANGED <<holder, object, row, declaredAt, again>>
          BY <1>4 DEF Fetch
    <2>2. BackFollows'
          BY <1>4, FetchedBack
    <2> QED BY <2>1, <2>2 DEF ValueInv, RowFollows, AgainFollows, Fits, ColumnAt, ReadAt, EncodeAt, SurvivesAt
  <1> QED BY <1>1, <1>2, <1>3, <1>4 DEF Next, vars

LEMMA ValueInit == Init => ValueInv
  BY DEF Init, ValueInv, RowFollows, BackFollows, AgainFollows

\* What a column keeps comes back from it, for all types,
\* declarations, objects and numbers, in a class and in a pair: what Impl::read,
\* meta_insert and the driver do to a value, meta_select and Impl::write undo.
THEOREM ValuesReturn == Spec => []ValueReturns
  <1>1. ValueInv => ValueReturns
    <2> SUFFICES ASSUME ValueInv, back # <<>>, steady, NEW p \in DOMAIN Properties, NEW t, t = Properties[p]
                 PROVE  /\ t \in declaredAt["ignored"] => back[p] = Default[t]
                        /\ Keeps(t) /\ (t \notin Lists \/ t \in declaredAt["raw"]) => back[p] = object[p]
                        /\ Keeps(t) /\ t \in Lists /\ t \notin declaredAt["raw"] /\ object[p] # <<>> =>
                              back[p] = [i \in DOMAIN object[p] |-> Printed[object[p][i]]]
        BY DEF ValueReturns
    <2>1. back[p] = SurvivesAt(declaredAt, holder, t, object[p]) /\ holder \in {"class", "pair"}
          BY DEF ValueInv, BackFollows
    <2>2. CASE t \in declaredAt["ignored"]
          BY <2>1, <2>2 DEF SurvivesAt, Keeps
    <2>3. CASE t \notin declaredAt["ignored"] /\ t \in declaredAt["raw"]
          BY <2>1, <2>3 DEF SurvivesAt, Keeps
    <2>4. CASE t \notin declaredAt["ignored"] /\ t \notin declaredAt["raw"]
          BY <2>1, <2>4 DEF SurvivesAt, Keeps, Reprinted
    <2> QED BY <2>2, <2>3, <2>4
  <1>2. Spec => []ValueInv
    <2>1. Init => RegistryInv /\ RemovalsErrOneWay /\ ValueInv
          BY InitHolds, ValueInit
    <2>2. (RegistryInv /\ RemovalsErrOneWay /\ ValueInv) /\ [Next]_vars
             => (RegistryInv /\ RemovalsErrOneWay /\ ValueInv)'
          BY StepHolds, ValueStep
    <2> QED BY <2>1, <2>2, PTL DEF Spec
  <1> QED BY <1>1, <1>2, PTL

\* An object that was read back and stored again comes back unchanged, for all
\* types, declarations, objects and numbers: insert and select lose nothing they
\* have not lost on the first trip.
THEOREM TripsAreStable == Spec => []TripIsStable
  <1>1. ValueInv => TripIsStable
    <2> SUFFICES ASSUME ValueInv, again, back # <<>>, steady PROVE back = object
        BY DEF TripIsStable
    <2>1. Fits(back) /\ Fits(object) /\ \A p \in DOMAIN Properties : back[p] = object[p]
          BY DEF ValueInv, BackFollows, RowFollows, AgainFollows
    <2> QED BY <2>1 DEF Fits
  <1>2. Init => RegistryInv /\ RemovalsErrOneWay /\ ValueInv
        BY InitHolds, ValueInit
  <1>3. (RegistryInv /\ RemovalsErrOneWay /\ ValueInv) /\ [Next]_vars
           => (RegistryInv /\ RemovalsErrOneWay /\ ValueInv)'
        BY StepHolds, ValueStep
  <1> QED BY <1>1, <1>2, <1>3, PTL DEF Spec

=============================================================================
