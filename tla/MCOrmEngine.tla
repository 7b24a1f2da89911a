----------------------------- MODULE MCOrmEngine -----------------------------
(* Instances of OrmEngine for TLC: cut-down versions of the classes of      *)
(* test/test2.h.                                                            *)
EXTENDS OrmEngine

\* Ur { Dad dad { Car* car }; QList<Brother> bros }, with a rowid in Brother
\* and without
FamilyUp    == <<0, 1, 2, 1>>
FamilyKind  == <<"one", "one", "ptr", "many">>
FamilyKeyed == <<TRUE, TRUE, TRUE, TRUE>>
KeylessBros == <<TRUE, TRUE, TRUE, FALSE>>

\* Ur { QList<Brother> bros }
PairUp       == <<0, 1>>
PairKind     == <<"one", "many">>
PairKeyed    == <<TRUE, TRUE>>

\* A gadget is inserted as a copy, its gadget members and the elements of its
\* lists with it; what a pointer leads to, the car, is written to itself.  Of a
\* QObject the program sees the rowid of the object, too.
Gadget == [e \in 1..4 |-> e = 3]
Object == [e \in 1..4 |-> e \in {1, 3}]
PairGadget == [e \in 1..2 |-> FALSE]
PairObject == [e \in 1..2 |-> e = 1]

New(e, up, val) == [e |-> e, up |-> up, id |-> 0, val |-> val, tok |-> 0]

\* One with a car, one with two brothers.
Phil  == <<New(1, 0, "x"), New(2, 1, "x"), New(3, 2, "y")>>
Abdul == <<New(1, 0, "y"), New(2, 1, "y"), New(4, 1, "x"), New(4, 1, "y")>>
Family == {Phil, Abdul}
Brothers == {Abdul}

Twins == <<New(1, 0, "x"), New(2, 1, "x"), New(2, 1, "y")>>
Alone == <<New(1, 0, "y"), New(2, 1, "y")>>
Pairs == {Twins, Alone}
Unlike == {<<New(1, 0, "x")>>, Alone}

Symmetry == Permutations(Clients)

=============================================================================
