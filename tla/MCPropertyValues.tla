---------------------------- MODULE MCPropertyValues --------------------------
(* Types for TLC: a gadget and a QObject class to register, a raw type of    *)
(* Qt's, two types of the program's, with and without converters, and lists  *)
(* of numbers.                                                               *)
EXTENDS PropertyValues

T(n) == <<"T", n>>
PlainTypes == {"double", "Color", "Money", "Blob", "QList<double>"}

BuiltinTypes ==
    [k \in Kinds |->
        CASE k = "primitive" -> {T("double"), T("QList<double>")}
          [] k = "raw" -> {T("Color")}
          [] OTHER -> {}]

\* A member's type may be any of these; a class of the program's can be declared, too.
Declared == {T("Money"), T("Blob")}

OneOfEach ==
    [p \in {"price", "blob", "color", "size", "sizes"} |->
        CASE p = "price" -> T("Money") [] p = "blob" -> T("Blob") [] p = "color" -> T("Color")
          [] p = "size" -> T("double") [] p = "sizes" -> T("QList<double>")]

\* A value each, the defaults, and lists of no number and of two.
Filled ==
    [p \in DOMAIN OneOfEach |->
        CASE p = "price" -> <<"12">> [] p = "blob" -> <<"x">> [] p = "color" -> <<"red">>
          [] p = "size" -> <<"0.1234567">> [] p = "sizes" -> <<"0.1234567", "2">>]

Empty ==
    [p \in DOMAIN OneOfEach |->
        CASE p = "price" -> <<"0">> [] p = "blob" -> <<>> [] p = "color" -> <<"black">>
          [] p = "size" -> <<"0">> [] p = "sizes" -> <<>>]

Objects2 == {Filled, Empty}
Defaults == [t \in {OneOfEach[p] : p \in DOMAIN OneOfEach} |->
                Empty[CHOOSE p \in DOMAIN OneOfEach : OneOfEach[p] = t]]

NumberLists == {T("QList<double>")}
Native == {T("double")}
SixDigits ==
    [n \in {"0", "2", "0.1234567", "0.123457"} |-> IF n = "0.1234567" THEN "0.123457" ELSE n]

=============================================================================
