---------------------------- MODULE PropertyValues ----------------------------
(***************************************************************************)
(* What a plain property goes through on its way into a column and back:   *)
(* Impl::read, the bindings of meta_insert, the QSQLITE driver, meta_select*)
(* and Impl::write, or ORM_QVariantPair's constructor functions when the   *)
(* value is in a map or a pair.  How a type is treated is asked of the     *)
(* registries at each step, and the program may change them in between.    *)
(*                                                                         *)
(* A QVariant is its type and its data, a sequence of words: the items of  *)
(* a list of numbers, the pieces of a text that is split at ';'.           *)
(***************************************************************************)
EXTENDS TypeRegistry, Sequences

CONSTANTS
    Properties, \* the type of each property
    Samples,    \* the objects the program stores: the data of each property
    Default,    \* Default[t]: the data of a value nobody set
    Scalars,    \* types the driver stores as they are
    Lists,      \* containers of numbers, registerPrimitiveTypeContainer
    Printed,    \* a number as QString::number writes it
    MaxTrips    \* bound: objects stored

Numbers == DOMAIN Printed

\* The data properties may have: texts, in a list of numbers the numbers.
Fits(o) ==
    /\ o \in [DOMAIN Properties -> Seq(STRING)]
    /\ \A p \in DOMAIN Properties : Properties[p] \in Lists => o[p] \in Seq(Numbers)

\* Texts and bytes, which a column holds as they are, are not among the
\* properties.  A number, once printed, is printed the same again.
ASSUME ValuesAssumption ==
    /\ Converted \cap {"QString", "QByteArray", ""} = {}
    /\ Scalars \cup Lists \subseteq Of({"T"}, Plain \ {"QString", "QByteArray"})
    /\ Scalars \cap Lists = {}
    /\ \A p \in DOMAIN Properties : Properties[p] \in Of({"T"}, Plain \ {"QString", "QByteArray"})
    /\ \A o \in Samples : Fits(o)
    /\ Fits([p \in DOMAIN Properties |-> Default[Properties[p]]])
    /\ Numbers \subseteq STRING /\ "0" \in Numbers /\ Printed["0"] = "0"
    /\ Printed \in [Numbers -> Numbers \ {""}]
    /\ \A n \in Numbers : Printed[Printed[n]] = Printed[n]
    /\ MaxTrips \in Nat

VARIABLES
    holder,     \* what has the properties: an object of a class, or a pair
    object,     \* their data
    row,        \* the columns, <<>> if there is no row
    declaredAt, \* history: the declarations when the row was written
    back,       \* what select made of the row, <<>> if nothing
    steady,     \* history: under the declarations it was written with
    again,      \* history: the object is one that came back
    trips       \* objects stored so far

vars == <<registryVars, holder, object, row, declaredAt, back, steady, again, trips>>

-----------------------------------------------------------------------------
(* QVariants.                                                              *)

QString    == <<"T", "QString">>
QByteArray == <<"T", "QByteArray">>

V(t, d) == [type |-> t, data |-> d]
Null == V(NoType, <<>>)

Writable(t) == t[2] \in Converted \/ t \in Scalars

\* Mutant: every number is followed by a ';'.
ListToTextTrailing(d) == V(QString, Append([i \in DOMAIN d |-> Printed[d[i]]], ""))

\* primitiveToString: the numbers joined by ';'.  No number is one empty piece.
ListToText(d) == V(QString, IF d = <<>> THEN <<"">> ELSE [i \in DOMAIN d |-> Printed[d[i]]])

\* stringToPrimitive: each piece as a number, an empty one as 0.
TextToList(t, d) == V(t, [i \in DOMAIN d |-> IF d[i] = "" THEN "0" ELSE d[i]])

\* variantConvert: a variant that cannot be converted is cleared.
ToText(v) ==
    IF v.type \in Lists THEN ListToText(v.data)
    ELSE IF v.type = QString \/ Writable(v.type) THEN V(QString, v.data)
    ELSE IF v.type = QByteArray THEN V(QString, <<"bytes">>)
    ELSE Null

Convert(v, t) ==
    IF v.type = t THEN v
    ELSE IF v.type = QString /\ t \in Lists THEN TextToList(t, v.data)
    ELSE IF v.type = QString /\ Writable(t) THEN V(t, v.data)
    ELSE Null

\* QDataStream: the type goes in front of the data.
Stream(v) == V(QByteArray, v.type \o v.data)
Unstream(v) ==
    IF v.type = QByteArray /\ Len(v.data) > 1
    THEN V(SubSeq(v.data, 1, 2), SubSeq(v.data, 3, Len(v.data))) ELSE Null

-----------------------------------------------------------------------------
(* There and back.                                                         *)

\* What read does to the value of a class's property, and meta_insert again.
Encode(t, v) ==
    LET s == IF t \in declared["string"] THEN ToText(v) ELSE v
    IN  IF t \in declared["raw"] THEN Stream(s) ELSE s

\* Mutant: a pair's value is treated as a class's.
ReadAlike(h, t, v) == Encode(t, v)

\* read: a pair's value is not touched.
Read(h, t, v) == IF h = "pair" THEN v ELSE Encode(t, v)

\* The driver: numbers, texts and bytes as such, anything else as toString().
Column(v) ==
    IF v = Null \/ v.type \in Scalars \cup {QString, QByteArray} THEN v
    ELSE IF ToText(v) = Null THEN V(QString, <<"">>) ELSE ToText(v)

\* meta_select.
Decode(t, c) ==
    LET s == IF t \in declared["string"] THEN Convert(c, t) ELSE c
    IN  IF t \in declared["raw"] THEN Unstream(s) ELSE s

\* write to a property of a fresh value, or the conversion of a pair: what
\* cannot be converted leaves the default.
Write(t, v) == IF Convert(v, t) = Null THEN Default[t] ELSE Convert(v, t).data

Columns == {p \in DOMAIN Properties : Layout(Properties[p]) = "column"}

\* create and insert, with an ORM that was constructed.
Store(h, o) ==
    /\ trips < MaxTrips /\ ~once
    /\ holder' = h /\ object' = o
    /\ row' = [p \in Columns |->
                 LET t == Properties[p] IN Column(Encode(t, Read(h, t, V(t, o[p]))))]
    /\ declaredAt' = declared
    /\ back' = <<>>
    /\ trips' = trips + 1
    /\ UNCHANGED <<registryVars, steady>>

StoreNew ==
    /\ \E h \in {"class", "pair"}, o \in Samples : Store(h, o)
    /\ again' = FALSE

StoreBack ==
    /\ back # <<>> /\ steady /\ declaredAt = declared
    /\ Store(holder, back)
    /\ again' = TRUE

\* select; a property without a column keeps its default.
Fetch ==
    /\ object # <<>> /\ back = <<>>
    /\ back' = [p \in DOMAIN Properties |->
                  LET t == Properties[p]
                  IN  IF p \in Columns THEN Write(t, Decode(t, row[p])) ELSE Default[t]]
    /\ steady' = (declared = declaredAt)
    /\ UNCHANGED <<registryVars, holder, object, row, declaredAt, again, trips>>

Init ==
    /\ RegistryInit
    /\ holder = "class" /\ object = <<>> /\ row = <<>> /\ declaredAt = declared
    /\ back = <<>> /\ steady = FALSE /\ again = FALSE /\ trips = 0

Next ==
    \/ RegistryNext /\ UNCHANGED <<holder, object, row, declaredAt, back, steady, again, trips>>
    \/ StoreNew \/ StoreBack \/ Fetch

Spec == Init /\ [][Next]_vars

-----------------------------------------------------------------------------
(* Properties.                                                             *)

\* The types whose values a column keeps, as they were declared when the row was
\* written: what can be turned into text, and bytes of a map or a pair.
Keeps(t) ==
    /\ t \notin declaredAt["ignored"]
    /\ IF t \in declaredAt["raw"] THEN holder = "pair" /\ t \notin declaredAt["string"]
                                  ELSE Writable(t) \/ t \in Lists

\* While the declarations stay as they were, a property of such a type comes
\* back as it was, each number of a list as QString::number writes it, and one
\* of an ignored type keeps its default: in a class and in a pair, whatever is
\* declared and in which order, by the constructor or by the program.  It says
\* nothing of raw types in classes, which RawReturns is about, and of empty lists:
\* no number is written as the empty text, and that is read as one zero
\* (orm.h:690), although README.md:183 says that lists are supported.
ValueReturns ==
    back # <<>> /\ steady =>
        \A p \in DOMAIN Properties :
            LET t == Properties[p]
                asText == t \in Lists /\ t \notin declaredAt["raw"]
            IN  /\ t \in declaredAt["ignored"] => back[p] = Default[t]
                /\ Keeps(t) /\ ~asText => back[p] = object[p]
                /\ Keeps(t) /\ asText /\ object[p] # <<>> =>
                      back[p] = [i \in DOMAIN object[p] |-> Printed[object[p][i]]]

\* README.md:182 says that a type with stream operators is supported once it is
\* added to the raw types.  In a class, Impl::read and meta_insert both serialise
\* the value, and meta_select undoes one of the two.
RawReturns ==
    back # <<>> /\ steady =>
        \A p \in DOMAIN Properties :
            Properties[p] \in declaredAt["raw"] \ (declaredAt["ignored"] \cup declaredAt["string"])
                => back[p] = object[p]

\* An object that came back once comes back unchanged the second time: whatever
\* is lost is lost on the first trip.
TripIsStable == again /\ back # <<>> /\ steady => back = object

=============================================================================
