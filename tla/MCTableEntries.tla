---------------------------- MODULE MCTableEntries ----------------------------
(* Classes for TLC, after test/test2.h.  Car is one table for all its owners, *)
(* which have rowids; Mom has no rowid, Dad a table name of his own, both a   *)
(* Hat.                                                                       *)
EXTENDS TableEntries

M(type, name) == [type |-> type, name |-> name, shown |-> TRUE]
Hidden(type, name) == [type |-> type, name |-> name, shown |-> FALSE]

Types == {"Ur", "Mom", "Dad", "QList<Dad>", "Car*", "Hat", "QMap<QString,Hat>"}
FamilyOf ==
    [t \in Types |->
        CASE t = "QList<Dad>" -> "Dad" [] t = "Car*" -> "Car"
          [] t = "QMap<QString,Hat>" -> "Hats" [] OTHER -> t]

Rowid == M("long long", "orm_rowid")
Name  == M("QString", "name")

Family ==
    [Ur   |-> <<Rowid, M("Mom", "mom"), M("QList<Dad>", "dads")>>,
     Mom  |-> <<Name, M("Hat", "hat")>>,
     Dad  |-> <<Rowid, M("Hat", "hat"), M("Car*", "car")>>,
     Car  |-> <<Rowid, M("QMap<QString,Hat>", "hats"), Hidden("QString", "plate")>>,
     Hats |-> <<Name, M("Hat", "value"), Rowid>>,
     Hat  |-> <<Name>>]

FamilyNamed ==
    [Ur |-> <<"ur">>, Mom |-> <<"mom">>, Dad |-> <<"step", "dad">>, Car |-> <<"Cars">>,
     Hats |-> <<"q", "map", "qstring", "hat_">>, Hat |-> <<"hat">>]
FamilyNorm == [p \in {"", "mom", "dads", "hat", "car", "hats", "value"} |-> <<p>>]

\* What the theorems assume of the classes holds of these.
ASSUME FamilyFits ==
    Members = Family => MembersDiffer /\ NamesTell /\ OwnersAgree /\ HiddenLast

\* Brother with last_combo declared STORED false.
BrotherOf == [t \in {"Brother"} |-> t]
Brother ==
    [Brother |-> <<Rowid, Name, Hidden("int", "last_combo"), M("int", "total_punches")>>]
BrotherNamed == [c \in {"Brother"} |-> <<c>>]
BrotherNorm == [p \in {""} |-> <<p>>]

=============================================================================
