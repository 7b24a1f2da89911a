-------------------------- MODULE TableEntriesProofs --------------------------
(***************************************************************************)
(* EntriesInPlace, TextIsItsOwn and ColumnsAreProperties for all classes   *)
(* that meet what they take: an entry or a statement from a cache is the   *)
(* one its place needs.  Entries are trees, and what is at hand is a       *)
(* subtree of what was derived; instead of induction on trees the          *)
(* invariant names a set S of entries that is closed under properties and  *)
(* holds every entry that is complete.                                     *)
(***************************************************************************)
EXTENDS TableEntries, SequenceTheorems, FiniteSetTheorems, TLAPS

-----------------------------------------------------------------------------
(* Sequences.                                                              *)

IsList(s) == s \in Seq(Range(s))

\* A list is a sequence over its own elements.
LEMMA ListShape ==
    ASSUME NEW s, IsList(s)
    PROVE  /\ Len(s) \in Nat /\ DOMAIN s = 1..Len(s)
           /\ s # <<>> <=> Len(s) > 0
  <1> DEFINE S == Range(s)
  <1>1. s \in Seq(S)
        BY DEF IsList
  <1> HIDE DEF S
  <1> QED BY <1>1, LenProperties, EmptySeq

\* Every sequence is a list.
LEMMA SeqIsList ==
    ASSUME NEW S, NEW s \in Seq(S)
    PROVE  IsList(s)
  BY SeqOfRange DEF IsList

\* Append makes a list one longer.
LEMMA AppendToList ==
    ASSUME NEW s, IsList(s), NEW x
    PROVE  /\ IsList(Append(s, x)) /\ Len(Append(s, x)) = Len(s) + 1
           /\ Append(s, x) # <<>>
           /\ \A i \in 1..Len(s) : Append(s, x)[i] = s[i]
           /\ Append(s, x)[Len(s) + 1] = x
  <1> DEFINE S == Range(s) \cup {x}
  <1>1. s \in Seq(S)
    <2> DEFINE R == Range(s)
    <2>1. s \in Seq(R) /\ R \subseteq S
          BY DEF IsList
    <2> HIDE DEF R, S
    <2> QED BY <2>1, SeqMonotonic
  <1>2. x \in S
        OBVIOUS
  <1> HIDE DEF S
  <1>3. /\ Append(s, x) \in Seq(S) /\ Len(Append(s, x)) = Len(s) + 1
        /\ Append(s, x) # <<>>
        /\ \A i \in 1..Len(s) : Append(s, x)[i] = s[i]
        /\ Append(s, x)[Len(s) + 1] = x
        BY <1>1, <1>2, AppendProperties
  <1> QED BY <1>3, SeqIsList

\* A list without its last element.
LEMMA FrontOfList ==
    ASSUME NEW s, IsList(s), s # <<>>
    PROVE  /\ IsList(Front(s)) /\ Len(Front(s)) = Len(s) - 1
           /\ \A i \in 1..(Len(s) - 1) : Front(s)[i] = s[i]
  <1> DEFINE S == Range(s)
  <1>1. s \in Seq(S)
        BY DEF IsList
  <1> HIDE DEF S
  <1>2. Len(s) \in Nat /\ Len(s) > 0
        BY ListShape
  <1>3. Len(s) - 1 \in Int /\ \A i \in 1..(Len(s) - 1) : s[i] \in S
        BY <1>1, <1>2, ElementOfSeq
  <1>4. /\ SubSeq(s, 1, Len(s) - 1) \in Seq(S)
        /\ Len(SubSeq(s, 1, Len(s) - 1)) = IF 1 <= Len(s) - 1 THEN (Len(s) - 1) - 1 + 1 ELSE 0
        /\ \A i \in 1..((Len(s) - 1) - 1 + 1) : SubSeq(s, 1, Len(s) - 1)[i] = s[1 + i - 1]
        BY <1>3, SubSeqProperties
  <1>5. /\ Front(s) \in Seq(S) /\ Len(Front(s)) = Len(s) - 1
        /\ \A i \in 1..(Len(s) - 1) : Front(s)[i] = s[i]
    <2> DEFINE f == SubSeq(s, 1, Len(s) - 1)
               n == Len(s)
    <2>1. Front(s) = f
          BY DEF Front
    <2>2. /\ f \in Seq(S) /\ Len(f) = IF 1 <= n - 1 THEN (n - 1) - 1 + 1 ELSE 0
          /\ \A i \in 1..((n - 1) - 1 + 1) : f[i] = s[1 + i - 1]
          BY <1>4
    <2>3. n \in Nat /\ n > 0
          BY <1>2
    <2> HIDE DEF f, n
    <2>4. Len(f) = n - 1
          BY <2>2, <2>3
    <2>5. \A i \in 1..(n - 1) : f[i] = s[i]
      <3> SUFFICES ASSUME NEW i \in 1..(n - 1) PROVE f[i] = s[i]
          OBVIOUS
      <3>1. i \in 1..((n - 1) - 1 + 1) /\ 1 + i - 1 = i
            BY <2>3
      <3> QED BY <2>2, <3>1
    <2> QED BY <2>1, <2>2, <2>4, <2>5 DEF n
  <1>6. IsList(Front(s))
        BY <1>5, SeqIsList
  <1> QED BY <1>5, <1>6

-----------------------------------------------------------------------------
(* The class at a table.                                                   *)

\* T is a table of class c.
NamedFor(T, c) ==
    IF c \in NoParent THEN T = Named[c] ELSE \E p \in Names : EndsIn(T, Code(c, p))

ClassAt(T) == CHOOSE c \in Classes : NamedFor(T, c)
Tablename == Seq(Words) \ {<<>>}

\* The words a table's name ends in.
LEMMA CodeIsName ==
    ASSUME NEW c \in Classes, NEW p \in Names
    PROVE  Code(c, p) \in Seq(Words) /\ Code(c, p) # <<>>
  <1>1. Named[c] \in Seq(Words) /\ Named[c] # <<>> /\ Norm[p] \in Seq(Words)
        BY MembersAssumption
  <1> QED BY <1>1, ConcatProperties, ConcatEqualIffEmpty DEF Code

\* Behind whatever it is put, a sequence is what the whole ends in.
LEMMA ConcatEndsIn ==
    ASSUME NEW W, NEW s \in Seq(W), NEW t \in Seq(W)
    PROVE  EndsIn(s \o t, t)
  <1>1. /\ Len(s \o t) = Len(s) + Len(t)
        /\ \A i \in 1..(Len(s) + Len(t)) :
             (s \o t)[i] = IF i <= Len(s) THEN s[i] ELSE t[i - Len(s)]
        BY ConcatProperties
  <1>2. Len(s) \in Nat /\ Len(t) \in Nat /\ DOMAIN t = 1..Len(t)
        BY LenProperties
  <1>3. \A i \in DOMAIN t : (s \o t)[Len(s \o t) - Len(t) + i] = t[i]
    <2> SUFFICES ASSUME NEW i \in DOMAIN t PROVE (s \o t)[Len(s \o t) - Len(t) + i] = t[i]
        OBVIOUS
    <2>1. Len(s \o t) - Len(t) + i = Len(s) + i /\ Len(s) + i \in 1..(Len(s) + Len(t))
          BY <1>1, <1>2
    <2>2. ~(Len(s) + i <= Len(s)) /\ (Len(s) + i) - Len(s) = i
          BY <1>2
    <2> QED BY <1>1, <2>1, <2>2
  <1> QED BY <1>1, <1>2, <1>3 DEF EndsIn

\* Of two sequences that one ends in, the longer one ends in the shorter one.
LEMMA EndsInEnd ==
    ASSUME NEW W, NEW s \in Seq(W), NEW t \in Seq(W), NEW u \in Seq(W),
           EndsIn(s, t), EndsIn(s, u), Len(t) <= Len(u)
    PROVE  EndsIn(u, t)
  <1>1. /\ Len(s) \in Nat /\ Len(t) \in Nat /\ Len(u) \in Nat
        /\ DOMAIN t = 1..Len(t) /\ DOMAIN u = 1..Len(u)
        BY LenProperties
  <1>2. \A i \in DOMAIN t : u[Len(u) - Len(t) + i] = t[i]
    <2> SUFFICES ASSUME NEW i \in DOMAIN t PROVE u[Len(u) - Len(t) + i] = t[i]
        OBVIOUS
    <2>1. PICK j : j = Len(u) - Len(t) + i
          OBVIOUS
    <2>2. j \in DOMAIN u /\ Len(s) - Len(u) + j = Len(s) - Len(t) + i
          BY <1>1, <2>1
    <2>3. s[Len(s) - Len(u) + j] = u[j] /\ s[Len(s) - Len(t) + i] = t[i]
          BY <2>2 DEF EndsIn
    <2> QED BY <2>1, <2>2, <2>3
  <1> QED BY <1>2 DEF EndsIn

\* Two codes one name ends in are one.
LEMMA OneCode ==
    ASSUME NamesTell, NEW T \in Seq(Words), NEW c \in Classes \ NoParent,
           NEW d \in Classes \ NoParent, NEW p \in Names, NEW q \in Names,
           EndsIn(T, Code(c, p)), EndsIn(T, Code(d, q))
    PROVE  c = d /\ Norm[p] = Norm[q]
  <1>1. PICK s, t : s = Code(c, p) /\ t = Code(d, q)
        OBVIOUS
  <1>2. s \in Seq(Words) /\ t \in Seq(Words)
        BY <1>1, CodeIsName
  <1>3. Len(s) \in Nat /\ Len(t) \in Nat
        BY <1>2, LenProperties
  <1>4. EndsIn(T, s) /\ EndsIn(T, t)
        BY <1>1
  <1>5. EndsIn(s, t) \/ EndsIn(t, s)
    <2>1. CASE Len(s) <= Len(t)
          BY <1>2, <1>4, <2>1, EndsInEnd
    <2>2. CASE Len(t) <= Len(s)
          BY <1>2, <1>4, <2>2, EndsInEnd
    <2> QED BY <1>3, <2>1, <2>2
  <1> QED BY <1>1, <1>5 DEF NamesTell

\* A table is named for one class.
LEMMA OneClass ==
    ASSUME NamesTell, NEW T \in Seq(Words), NEW c \in Classes, NamedFor(T, c)
    PROVE  ClassAt(T) = c
  <1>1. PICK d : d = ClassAt(T)
        OBVIOUS
  <1>2. d \in Classes /\ NamedFor(T, d)
        BY <1>1 DEF ClassAt
  <1>3. CASE c \in NoParent /\ d \in NoParent
        BY <1>1, <1>2, <1>3 DEF NamesTell, NamedFor
  <1>4. CASE c \in NoParent /\ d \notin NoParent
    <2>1. PICK p \in Names : EndsIn(T, Code(d, p))
          BY <1>2, <1>4 DEF NamedFor
    <2>2. T = Named[c]
          BY <1>4 DEF NamedFor
    <2> QED BY <1>2, <1>4, <2>1, <2>2 DEF NamesTell
  <1>5. CASE c \notin NoParent /\ d \in NoParent
    <2>1. PICK p \in Names : EndsIn(T, Code(c, p))
          BY <1>5 DEF NamedFor
    <2>2. T = Named[d]
          BY <1>2, <1>5 DEF NamedFor
    <2> QED BY <1>5, <2>1, <2>2 DEF NamesTell
  <1>6. CASE c \notin NoParent /\ d \notin NoParent
    <2>1. PICK p \in Names : EndsIn(T, Code(c, p))
          BY <1>6 DEF NamedFor
    <2>2. PICK q \in Names : EndsIn(T, Code(d, q))
          BY <1>2, <1>6 DEF NamedFor
    <2> QED BY <1>1, <1>2, <1>6, <2>1, <2>2, OneCode
  <1> QED BY <1>3, <1>4, <1>5, <1>6

\* A table name tells which class it is of, with its parent's name or without
\* (ORM_CLASSINFO_TABLE_NAME_NO_PARENT).
LEMMA TablesNameTheirClass ==
    ASSUME NamesTell, NEW t \in DOMAIN ClassOf, NEW T \in Seq(Words), NEW name \in Names
    PROVE  /\ TableName(t, T, name) \in Tablename
           /\ ClassAt(TableName(t, T, name)) = ClassOf[t]
  <1>1. PICK c, U : c = ClassOf[t] /\ U = TableName(t, T, name)
        OBVIOUS
  <1>2. c \in Classes
        BY <1>1 DEF Classes
  <1>3. U \in Tablename /\ NamedFor(U, c)
    <2>1. CASE c \in NoParent
      <3>1. U = Named[c]
            BY <1>1, <2>1 DEF TableName
      <3> QED BY <1>2, <2>1, <3>1, MembersAssumption DEF NamedFor, Tablename
    <2>2. CASE c \notin NoParent
      <3>1. PICK s : s = Code(c, name)
            OBVIOUS
      <3>2. s \in Seq(Words) /\ s # <<>>
            BY <1>2, <3>1, CodeIsName
      <3>3. U = T \o s
            BY <1>1, <2>2, <3>1 DEF TableName
      <3>4. U \in Seq(Words) /\ U # <<>>
            BY <3>2, <3>3, ConcatProperties, ConcatEqualIffEmpty
      <3>5. EndsIn(U, s)
            BY <3>2, <3>3, ConcatEndsIn
      <3> QED BY <2>2, <3>1, <3>4, <3>5 DEF NamedFor, Tablename
    <2> QED BY <2>1, <2>2
  <1>4. ClassAt(U) = c
        BY <1>2, <1>3, OneClass DEF Tablename
  <1> QED BY <1>1, <1>3, <1>4

\* The properties of a class.
LEMMA MembersOf ==
    ASSUME NEW t \in DOMAIN ClassOf
    PROVE  /\ IsList(Members[ClassOf[t]])
           /\ Len(Members[ClassOf[t]]) \in Nat
           /\ DOMAIN Members[ClassOf[t]] = 1..Len(Members[ClassOf[t]])
           /\ \A i \in DOMAIN Members[ClassOf[t]] :
                /\ Members[ClassOf[t]][i].shown \in BOOLEAN
                /\ IsTable(Members[ClassOf[t]][i]) => Members[ClassOf[t]][i].name \in Names
  <1> DEFINE c == ClassOf[t]
  <1>1. c \in Classes
        BY DEF Classes
  <1> HIDE DEF c
  <1>2. IsList(Members[c]) /\ \A m \in Range(Members[c]) : m.shown \in BOOLEAN
        BY <1>1, MembersAssumption DEF IsList
  <1>3. \A i \in DOMAIN Members[c] : Members[c][i] \in Range(Members[c])
        BY DEF Range
  <1>4. \A m \in Range(Members[c]) : IsTable(m) => m.name \in Names
    <2> DEFINE names(k) == {m.name : m \in {n \in Range(Members[k]) : IsTable(n)}}
    <2>1. \A m \in Range(Members[c]) : IsTable(m) => m.name \in names(c)
          OBVIOUS
    <2>2. names(c) \in {names(k) : k \in Classes}
          BY <1>1
    <2>3. UNION {names(k) : k \in Classes} \subseteq Names
          BY DEF Names
    <2> HIDE DEF names
    <2>4. names(c) \subseteq UNION {names(k) : k \in Classes}
          BY <2>2
    <2> QED BY <2>1, <2>3, <2>4
  <1> QED BY <1>2, <1>3, <1>4, ListShape DEF c

-----------------------------------------------------------------------------
(* The invariant.                                                          *)

\* e is right as far as its first k properties, its tables are in S.
Good(e, k, S) ==
    /\ e = [type |-> e.type, name |-> e.name, index |-> e.index, table |-> e.table, props |-> e.props]
    /\ e.type \in DOMAIN ClassOf
    /\ InPlace(e)
    /\ DOMAIN e.props = {i \in 1..k : Own(e)[i].shown}
    /\ \A i \in DOMAIN e.props :
         IF IsField(e.props[i]) THEN e.props[i] = New(Own(e)[i].type, Own(e)[i].name, i, <<>>)
                                ELSE e.props[i] \in S

\* The table of e is one of its class.
Tabled(e) == e.table \in Tablename /\ ClassAt(e.table) = ClassOf[e.type]

Closed(S) == \A e \in S : Good(e, Len(Own(e)), S) /\ Tabled(e)

\* A frame of queryDataRecursive, and one below another.
Stands(f, S) ==
    /\ f = [me |-> f.me, parent |-> f.parent, next |-> f.next]
    /\ Tabled(f.me)
    /\ f.next \in 1..(Len(Own(f.me)) + 1)
    /\ Good(f.me, f.next - 1, S)

Hangs(f, g) ==
    /\ f.parent = g.me.table
    /\ g.next <= Len(Own(g.me))
    /\ f.me.index = g.next
    /\ LET m == Own(g.me)[g.next]
       IN  /\ m.shown /\ m.type = f.me.type /\ m.name = f.me.name
           /\ f.me.table = TableName(m.type, g.me.table, m.name)

\* The entry of a class the program hands over.
RootEntry(e) == e.type \in Roots /\ e.table = TableName(e.type, <<>>, "")

Stacked(s, S) ==
    /\ IsList(s)
    /\ \A n \in 1..Len(s) :
         /\ Stands(s[n], S)
         /\ n = 1 => s[n].parent = <<>> /\ RootEntry(s[n].me)
         /\ n > 1 => Hangs(s[n], s[n - 1])

\* What is cached for the members of one class in one table.
Stored(t, T, e) ==
    /\ e.type = t
    /\ T = <<>> => RootEntry(e)
    /\ T # <<>> =>
         /\ e.index \in DOMAIN Members[ClassAt(T)]
         /\ LET m == Members[ClassAt(T)][e.index]
            IN  m.shown /\ m.type = t /\ m.name = e.name /\ e.table = TableName(t, T, e.name)

\* An entry is visited as a root or as a member of another.
Below(e, parent) ==
    \/ parent = NoEntry /\ RootEntry(e)
    \/ parent # NoEntry /\ \E i \in Tables(parent) : e = parent.props[i]
Visits(S) == {v \in [e : S, parent : S \cup {NoEntry}, open : BOOLEAN] : Below(v.e, v.parent)}

\* A statement was written for an entry with this table.
WrittenFor(text, o, table, S) ==
    \E v \in Visits(S) : v.e.table = table /\ text = Text(o, v.e, v.parent)
TextsKnown(S) == \A o \in Ops : \A T \in DOMAIN texts[o] : WrittenFor(texts[o][T], o, T, S)
SentKnown(S) ==
    sent.op # "none" =>
        /\ \E v \in Visits(S) : v.e = sent.e /\ v.parent = sent.parent
        /\ WrittenFor(sent.text, sent.op, sent.e.table, S)

EntriesInv(S) ==
    /\ buffered \in BOOLEAN
    /\ Closed(S)
    /\ \A k \in DOMAIN types : types[k] \in S
    /\ \A t, T : <<t, T>> \in DOMAIN types => Stored(t, T, types[<<t, T>>])
    /\ Stacked(stack, S)
    /\ todo \in Seq(Visits(S))
    /\ DOMAIN texts = Ops /\ (stack # <<>> \/ todo # <<>> => op \in Ops)
    /\ TextsKnown(S) /\ SentKnown(S)

\* The properties an entry has are properties of its class.
LEMMA OwnProperties ==
    ASSUME NEW e, NEW S, Good(e, Len(Own(e)), S)
    PROVE  /\ DOMAIN Own(e) = 1..Len(Own(e)) /\ Len(Own(e)) \in Nat
           /\ IsWhole(e)
           /\ \A i \in DOMAIN e.props : i \in DOMAIN Own(e) /\ Own(e)[i].shown
  <1>1. e.type \in DOMAIN ClassOf /\ DOMAIN e.props = {i \in 1..Len(Own(e)) : Own(e)[i].shown}
        BY DEF Good
  <1>2. DOMAIN Own(e) = 1..Len(Own(e)) /\ Len(Own(e)) \in Nat
        BY <1>1, MembersOf DEF Own
  <1> QED BY <1>1, <1>2 DEF IsWhole

\* What is in the set, on the stack and still to be visited is in place.
LEMMA InvIsEnough ==
    ASSUME NEW S, EntriesInv(S)
    PROVE  EntriesInPlace
  <1>1. \A e \in S : InPlace(e) /\ IsWhole(e)
    <2> SUFFICES ASSUME NEW e \in S PROVE InPlace(e) /\ IsWhole(e)
        OBVIOUS
    <2>1. Good(e, Len(Own(e)), S)
          BY DEF EntriesInv, Closed
    <2> QED BY <2>1, OwnProperties DEF Good
  <1>2. \A n \in DOMAIN stack : InPlace(stack[n].me)
        BY ListShape DEF EntriesInv, Stacked, Stands, Good
  <1>3. \A n \in DOMAIN todo : todo[n].e \in S
    <2> DEFINE V == Visits(S)
    <2>1. todo \in Seq(V)
          BY DEF EntriesInv
    <2> HIDE DEF V
    <2>2. DOMAIN todo = 1..Len(todo) /\ \A n \in 1..Len(todo) : todo[n] \in V
          BY <2>1, LenProperties, ElementOfSeq
    <2> QED BY <2>2 DEF V, Visits
  <1> QED BY <1>1, <1>2, <1>3 DEF EntriesInPlace, EntriesInv

\* At the start there is no entry.
LEMMA InitEntries == Init => EntriesInv({})
  <1> SUFFICES ASSUME Init PROVE EntriesInv({})
      OBVIOUS
  <1>1. /\ buffered \in BOOLEAN /\ types = <<>> /\ stack = <<>> /\ todo = <<>>
        /\ texts = [o \in Ops |-> <<>>] /\ sent.op = "none"
        BY DEF Init
  <1>2. Closed({})
        BY DEF Closed
  <1>3. Stacked(stack, {})
    <2>1. stack \in Seq({})
          BY <1>1
    <2>2. Len(stack) = 0 /\ IsList(stack)
          BY <1>1, <2>1, EmptySeq, SeqIsList
    <2>3. 1..Len(stack) = {}
          BY <2>2
    <2> QED BY <2>2, <2>3 DEF Stacked
  <1>4. DOMAIN types = {}
        BY <1>1
  <1>5. todo \in Seq(Visits({}))
        BY <1>1
  <1>6. DOMAIN texts = Ops /\ TextsKnown({}) /\ SentKnown({})
        BY <1>1 DEF TextsKnown, SentKnown
  <1> QED BY <1>1, <1>2, <1>3, <1>4, <1>5, <1>6 DEF EntriesInv

\* What an entry is does not depend on the state.
LEMMA EntriesAreConstant ==
    ASSUME NEW S, NEW s
    PROVE  /\ Closed(S)' <=> Closed(S)
           /\ Stacked(s, S)' <=> Stacked(s, S)
  <1>1. \A e, k : Good(e, k, S)' <=> Good(e, k, S)
        BY DEF Good, InPlace, Own, IsField, New, TableName, Code
  <1>2. Closed(S)' <=> Closed(S)
        BY <1>1 DEF Closed, Tabled, Own
  <1>3. \A f : Stands(f, S)' <=> Stands(f, S)
        BY <1>1 DEF Stands, Tabled, Own
  <1>4. \A f, g : Hangs(f, g)' <=> Hangs(f, g)
        BY DEF Hangs, Own, TableName, Code
  <1>5. Stacked(s, S)' <=> Stacked(s, S)
        BY <1>3, <1>4 DEF Stacked, RootEntry, TableName, Code, IsList
  <1> QED BY <1>2, <1>5

\* An entry that is complete may be added to the set.
LEMMA MoreEntries ==
    ASSUME NEW S, NEW e, Closed(S), Good(e, Len(Own(e)), S), Tabled(e)
    PROVE  /\ Closed(S \cup {e})
           /\ \A s : Stacked(s, S) => Stacked(s, S \cup {e})
           /\ Seq(Visits(S)) \subseteq Seq(Visits(S \cup {e}))
           /\ TextsKnown(S) => TextsKnown(S \cup {e})
           /\ SentKnown(S) => SentKnown(S \cup {e})
  <1>1. \A x, k : Good(x, k, S) => Good(x, k, S \cup {e})
        BY DEF Good
  <1>2. Closed(S \cup {e})
        BY <1>1 DEF Closed
  <1>3. \A s : Stacked(s, S) => Stacked(s, S \cup {e})
        BY <1>1 DEF Stacked, Stands
  <1>4. Seq(Visits(S)) \subseteq Seq(Visits(S \cup {e}))
    <2> DEFINE V == Visits(S)
               W == Visits(S \cup {e})
    <2>1. V \subseteq W
          BY DEF Visits
    <2> HIDE DEF V, W
    <2>2. Seq(V) \subseteq Seq(W)
          BY <2>1, SeqMonotonic
    <2> QED BY <2>2 DEF V, W
  <1>5. Visits(S) \subseteq Visits(S \cup {e})
        BY DEF Visits
  <1>6. /\ TextsKnown(S) => TextsKnown(S \cup {e})
        /\ SentKnown(S) => SentKnown(S \cup {e})
        BY <1>5 DEF TextsKnown, SentKnown, WrittenFor
  <1> QED BY <1>2, <1>3, <1>4, <1>6

-----------------------------------------------------------------------------
(* Stacks.                                                                 *)

\* The innermost frame is right.
LEMMA TopStands ==
    ASSUME NEW S, Stacked(stack, S), stack # <<>>
    PROVE  Stands(Top, S) /\ Len(stack) \in Nat \ {0}
  BY ListShape DEF Stacked, Top

\* So are those around it.
LEMMA FrontStacked ==
    ASSUME NEW s, NEW S, Stacked(s, S), s # <<>>
    PROVE  /\ Stacked(Front(s), S) /\ Len(Front(s)) = Len(s) - 1
           /\ \A i \in 1..(Len(s) - 1) : Front(s)[i] = s[i]
  <1>1. /\ IsList(Front(s)) /\ Len(Front(s)) = Len(s) - 1 /\ Len(s) \in Nat
        /\ \A i \in 1..(Len(s) - 1) : Front(s)[i] = s[i]
        BY FrontOfList, ListShape DEF Stacked
  <1>2. ASSUME NEW n \in 1..(Len(s) - 1)
        PROVE  /\ Stands(Front(s)[n], S)
               /\ n = 1 => Front(s)[n].parent = <<>> /\ RootEntry(Front(s)[n].me)
               /\ n > 1 => Hangs(Front(s)[n], Front(s)[n - 1])
    <2>1. n \in 1..Len(s) /\ Front(s)[n] = s[n] /\ (n > 1 => Front(s)[n - 1] = s[n - 1])
          BY <1>1
    <2> QED BY <2>1 DEF Stacked
  <1> QED BY <1>1, <1>2 DEF Stacked

\* A frame that hangs below the innermost one may be pushed.
LEMMA PushStacked ==
    ASSUME NEW s, NEW S, Stacked(s, S), NEW f, Stands(f, S),
           s = <<>> => f.parent = <<>> /\ RootEntry(f.me),
           s # <<>> => Hangs(f, s[Len(s)])
    PROVE  Stacked(Append(s, f), S)
  <1> DEFINE r == Append(s, f)
  <1>1. /\ IsList(r) /\ Len(r) = Len(s) + 1 /\ Len(s) \in Nat
        /\ s # <<>> <=> Len(s) > 0
        /\ \A i \in 1..Len(s) : r[i] = s[i]
        /\ r[Len(s) + 1] = f
        BY AppendToList, ListShape DEF Stacked
  <1> HIDE DEF r
  <1>2. ASSUME NEW n \in 1..Len(r)
        PROVE  /\ Stands(r[n], S)
               /\ n = 1 => r[n].parent = <<>> /\ RootEntry(r[n].me)
               /\ n > 1 => Hangs(r[n], r[n - 1])
    <2>1. CASE n \in 1..Len(s)
      <3>1. r[n] = s[n] /\ (n > 1 => r[n - 1] = s[n - 1])
            BY <1>1, <2>1
      <3> QED BY <2>1, <3>1 DEF Stacked
    <2>2. CASE n = Len(s) + 1
      <3>1. r[n] = f /\ (n > 1 => r[n - 1] = s[Len(s)] /\ s # <<>>) /\ (n = 1 => s = <<>>)
            BY <1>1, <2>2
      <3> QED BY <3>1
    <2> QED BY <1>1, <2>1, <2>2
  <1>3. Stacked(r, S)
        BY <1>1, <1>2 DEF Stacked
  <1> QED BY <1>3 DEF r

\* The top frame may change if it keeps its place.
SamePlace(g, f) ==
    /\ g.parent = f.parent /\ g.me.type = f.me.type /\ g.me.name = f.me.name
    /\ g.me.index = f.me.index /\ g.me.table = f.me.table

\* The innermost frame may be replaced by one in the same place.
LEMMA ReplaceStacked ==
    ASSUME NEW s, NEW S, Stacked(s, S), s # <<>>, NEW g, Stands(g, S),
           SamePlace(g, s[Len(s)])
    PROVE  Stacked(Append(Front(s), g), S)
  <1>1. /\ Stacked(Front(s), S) /\ Len(Front(s)) = Len(s) - 1 /\ Len(s) \in Nat \ {0}
        /\ \A i \in 1..(Len(s) - 1) : Front(s)[i] = s[i]
    <2>1. IsList(s)
          BY DEF Stacked
    <2>2. Len(s) \in Nat \ {0}
          BY <2>1, ListShape
    <2> QED BY <2>2, FrontStacked
  <1> DEFINE n == Len(s)
  <1>2. /\ n = 1 => s[n].parent = <<>> /\ RootEntry(s[n].me)
        /\ n > 1 => Hangs(s[n], s[n - 1])
        BY <1>1 DEF Stacked
  <1>3. Front(s) = <<>> <=> n = 1
        BY <1>1, ListShape DEF Stacked
  <1>4. Front(s) = <<>> => g.parent = <<>> /\ RootEntry(g.me)
        BY <1>2, <1>3 DEF SamePlace, RootEntry
  <1>5. Front(s) # <<>> => Hangs(g, Front(s)[Len(Front(s))])
    <2> SUFFICES ASSUME Front(s) # <<>> PROVE Hangs(g, Front(s)[Len(Front(s))])
        OBVIOUS
    <2>1. n > 1 /\ Front(s)[Len(Front(s))] = s[n - 1]
          BY <1>1, <1>3
    <2> QED BY <1>2, <2>1 DEF Hangs, SamePlace
  <1> QED BY <1>1, <1>4, <1>5, PushStacked

-----------------------------------------------------------------------------
(* Properties.                                                             *)

\* An entry that can be a property of the one f is at.
Fits(e, f, S) ==
    /\ f.next <= Len(Own(f.me))
    /\ LET m == Own(f.me)[f.next]
       IN  m.shown /\ e.type = m.type /\ e.name = m.name /\ e.index = f.next
    /\ IsField(e) => e = New(e.type, e.name, f.next, <<>>)
    /\ ~IsField(e) => e \in S /\ e.table = TableName(e.type, f.me.table, e.name)

\* The next frame, if the entry is right one property further.
LEMMA NextStands ==
    ASSUME NEW S, NEW f, Stands(f, S), f.next <= Len(Own(f.me)), NEW props,
           Good([f.me EXCEPT !.props = props], f.next, S)
    PROVE  LET g == [me |-> [f.me EXCEPT !.props = props], parent |-> f.parent, next |-> f.next + 1]
           IN  Stands(g, S) /\ SamePlace(g, f)
  <1> DEFINE g == [me |-> [f.me EXCEPT !.props = props], parent |-> f.parent, next |-> f.next + 1]
             e == [f.me EXCEPT !.props = props]
  <1>1. /\ f = [me |-> f.me, parent |-> f.parent, next |-> f.next]
        /\ f.me = [type |-> f.me.type, name |-> f.me.name, index |-> f.me.index,
                   table |-> f.me.table, props |-> f.me.props]
        BY DEF Stands, Good
  <1>2. g = [me |-> e, parent |-> f.parent, next |-> f.next + 1]
        OBVIOUS
  <1>3. e = [type |-> f.me.type, name |-> f.me.name, index |-> f.me.index,
             table |-> f.me.table, props |-> props]
        BY <1>1
  <1> HIDE DEF g, e
  <1>4. g.me = e /\ g.parent = f.parent /\ g.next = f.next + 1
        BY <1>2
  <1>5. /\ e.type = f.me.type /\ e.name = f.me.name /\ e.index = f.me.index
        /\ e.table = f.me.table
        BY <1>3
  <1>6. SamePlace(g, f)
        BY <1>4, <1>5 DEF SamePlace
  <1>7. Own(e) = Own(f.me)
        BY <1>5 DEF Own
  <1>8. Len(Own(f.me)) \in Nat /\ f.next \in 1..(Len(Own(f.me)) + 1)
        BY MembersOf DEF Stands, Good, Own
  <1>9. g.next - 1 = f.next /\ g.next \in 1..(Len(Own(e)) + 1)
        BY <1>4, <1>7, <1>8
  <1>10. Good(e, f.next, S)
        BY DEF e
  <1>t. Tabled(e)
        BY <1>5 DEF Stands, Tabled
  <1>11. Stands(g, S)
        BY <1>2, <1>4, <1>t, <1>9, <1>10 DEF Stands
  <1> QED BY <1>6, <1>11 DEF g

\* A hidden property needs no entry.
LEMMA SkipStands ==
    ASSUME NEW S, NEW f, Stands(f, S), f.next <= Len(Own(f.me)), ~Own(f.me)[f.next].shown
    PROVE  LET g == [me |-> [f.me EXCEPT !.props = f.me.props], parent |-> f.parent,
                     next |-> f.next + 1]
           IN  Stands(g, S) /\ SamePlace(g, f)
  <1>1. [f.me EXCEPT !.props = f.me.props] = f.me
        BY DEF Stands, Good
  <1>2. \A i \in 1..f.next : i \in 1..(f.next - 1) \/ i = f.next
        BY MembersOf DEF Stands, Good, Own
  <1>d. {i \in 1..(f.next - 1) : Own(f.me)[i].shown} = {i \in 1..f.next : Own(f.me)[i].shown}
    <2>1. f.next \in Nat /\ \A i \in 1..(f.next - 1) : i \in 1..f.next
          BY MembersOf DEF Stands, Good, Own
    <2> QED BY <1>2, <2>1
  <1>3. Good(f.me, f.next, S)
        BY <1>d DEF Stands, Good
  <1>4. Good([f.me EXCEPT !.props = f.me.props], f.next, S)
        BY <1>1, <1>3
  <1> QED BY <1>4, NextStands

\* An entry that fits makes the entry around it right one property further.
LEMMA TookStands ==
    ASSUME NEW S, NEW f, Stands(f, S), NEW e, Fits(e, f, S)
    PROVE  LET g == [me |-> [f.me EXCEPT !.props = Put(f.me.props, Slot(f, e), e)],
                     parent |-> f.parent, next |-> f.next + 1]
           IN  Stands(g, S) /\ SamePlace(g, f)
  <1> DEFINE s == Slot(f, e)
             props == Put(f.me.props, s, e)
             me == [f.me EXCEPT !.props = props]
             own == Own(f.me)
  <1>0. /\ f.me = [type |-> f.me.type, name |-> f.me.name, index |-> f.me.index,
                   table |-> f.me.table, props |-> f.me.props]
        /\ f.me.type \in DOMAIN ClassOf
        BY DEF Stands, Good
  <1>1. me = [type |-> f.me.type, name |-> f.me.name, index |-> f.me.index,
              table |-> f.me.table, props |-> props]
        BY <1>0
  <1> HIDE DEF me
  <1>2. me.type = f.me.type /\ me.props = props /\ Own(me) = own /\ me.table = f.me.table
        BY <1>1 DEF Own
  <1>3. /\ DOMAIN props = DOMAIN f.me.props \cup {s}
        /\ props[s] = e /\ \A i \in DOMAIN f.me.props \ {s} : props[i] = f.me.props[i]
        BY DEF Put
  <1>4. Len(own) \in Nat /\ DOMAIN own = 1..Len(own) /\ f.next \in 1..Len(own)
        BY <1>0, MembersOf DEF Stands, Own, Fits
  <1>5. s = f.next /\ own[s].shown /\ own[s].type = e.type /\ own[s].name = e.name /\ e.index = s
        BY <1>4 DEF Slot, Fits
  <1> HIDE DEF s, props, own
  <1>6. InPlace(me)
    <2>1. ASSUME NEW i \in DOMAIN me.props, NEW p, p = me.props[i]
          PROVE  /\ p.index = i /\ p.type = own[i].type /\ p.name = own[i].name
                 /\ ~IsField(p) => p.table = TableName(own[i].type, f.me.table, own[i].name)
      <3>1. CASE i = s
        <4>1. p = e
              BY <1>2, <1>3, <2>1, <3>1
        <4>2. ~IsField(p) => p.table = TableName(p.type, f.me.table, p.name)
              BY <4>1 DEF Fits
        <4> QED BY <1>5, <3>1, <4>1, <4>2
      <3>2. CASE i # s
        <4>1. i \in DOMAIN f.me.props /\ p = f.me.props[i]
              BY <1>2, <1>3, <2>1, <3>2
        <4>2. InPlace(f.me)
              BY DEF Stands, Good
        <4> QED BY <4>1, <4>2 DEF InPlace, own
      <3> QED BY <3>1, <3>2
    <2> QED BY <1>2, <2>1 DEF InPlace
  <1>7. DOMAIN me.props = {i \in 1..f.next : own[i].shown}
    <2>1. DOMAIN f.me.props = {i \in 1..(f.next - 1) : own[i].shown} /\ f.next \in Nat \ {0}
          BY <1>4 DEF Stands, Good, own
    <2>2. \A i \in 1..f.next : i \in 1..(f.next - 1) \/ i = f.next
          BY <2>1
    <2>3. f.next \in 1..f.next /\ \A i \in 1..(f.next - 1) : i \in 1..f.next
          BY <2>1
    <2> QED BY <1>2, <1>3, <1>5, <2>1, <2>2, <2>3
  <1>9. ASSUME NEW i \in DOMAIN me.props
        PROVE  IF IsField(me.props[i])
               THEN me.props[i] = New(Own(me)[i].type, Own(me)[i].name, i, <<>>)
               ELSE me.props[i] \in S
    <2>1. CASE i = s
      <3>1. me.props[i] = e
            BY <1>2, <1>3, <2>1
      <3>2. ASSUME IsField(e) PROVE e = New(own[i].type, own[i].name, i, <<>>)
            BY <1>5, <2>1, <3>2 DEF Fits
      <3> QED BY <1>2, <3>1, <3>2 DEF Fits
    <2>2. CASE i # s
      <3>1. i \in DOMAIN f.me.props /\ me.props[i] = f.me.props[i]
            BY <1>2, <1>3, <2>2
      <3> QED BY <1>2, <3>1 DEF Stands, Good, own
    <2> QED BY <2>1, <2>2
  <1>10. Good(me, f.next, S)
        BY <1>0, <1>1, <1>2, <1>6, <1>7, <1>9 DEF Good
  <1>11. f.next <= Len(Own(f.me))
        BY DEF Fits
  <1>12. Good([f.me EXCEPT !.props = props], f.next, S)
        BY <1>10 DEF me
  <1> QED BY <1>11, <1>12, NextStands DEF props, s

-----------------------------------------------------------------------------
(* Steps.                                                                  *)

\* Statements stay written, and what was sent stays known.
LEMMA KnownStays ==
    ASSUME NEW S, UNCHANGED <<texts, sent>>
    PROVE  /\ TextsKnown(S) => TextsKnown(S)'
           /\ SentKnown(S) => SentKnown(S)'
  <1>1. Visits(S)' = Visits(S)
        BY DEF Visits, Below, RootEntry, TableName, Code, Tables, IsField, NoEntry
  <1>2. \A text, o, T : WrittenFor(text, o, T, S)' <=> WrittenFor(text, o, T, S)
        BY <1>1 DEF WrittenFor, Text, Keyed, FindsRowid, IsField, NoText, Indexed, Iterated,
                    Inserted, InTurn, Nth, Fields, Tables
  <1>3. TextsKnown(S) => TextsKnown(S)'
        BY <1>2 DEF TextsKnown
  <1>4. SentKnown(S) => SentKnown(S)'
        BY <1>1, <1>2 DEF SentKnown
  <1> QED BY <1>3, <1>4

\* A step that leaves the cache of entries alone.
LEMMA CacheStays ==
    ASSUME NEW S, EntriesInv(S), UNCHANGED <<buffered, types>>,
           Stacked(stack', S), todo' \in Seq(Visits(S)),
           stack' # <<>> \/ todo' # <<>> => op' \in Ops,
           (DOMAIN texts = Ops)', TextsKnown(S)', SentKnown(S)'
    PROVE  EntriesInv(S)'
  <1>1. PICK s : s = stack'
        OBVIOUS
  <1>2. Closed(S)' /\ Stacked(s, S)'
        BY <1>1, EntriesAreConstant DEF EntriesInv
  <1>3. Closed(S)' /\ Stacked(stack, S)'
        BY <1>1, <1>2
  <1>4. (\A k \in DOMAIN types : types[k] \in S)'
        BY DEF EntriesInv
  <1>5. (\A t, T : <<t, T>> \in DOMAIN types => Stored(t, T, types[<<t, T>>]))'
    <2>1. \A t, T, e : Stored(t, T, e)' <=> Stored(t, T, e)
          BY DEF Stored, TableName, Code, RootEntry
    <2>2. \A t, T : <<t, T>> \in DOMAIN types => Stored(t, T, types[<<t, T>>])
          BY DEF EntriesInv
    <2> QED BY <2>1, <2>2
  <1>6. (todo \in Seq(Visits(S)))' /\ (buffered \in BOOLEAN)'
        BY DEF EntriesInv, Visits
  <1>7. (stack # <<>> \/ todo # <<>> => op \in Ops)'
        OBVIOUS
  <1> QED BY <1>3, <1>4, <1>5, <1>6, <1>7 DEF EntriesInv

\* A step of the derivation that leaves types and todo alone.
LEMMA StackSteps ==
    ASSUME NEW S, EntriesInv(S), UNCHANGED <<buffered, types, texts, todo, sent>>, op' \in Ops,
           Stacked(stack', S)
    PROVE  EntriesInv(S)'
  <1>1. todo' \in Seq(Visits(S))
        BY DEF EntriesInv
  <1> QED BY <1>1, KnownStays, CacheStays DEF EntriesInv

\* The entry of a property that is derived or not a table.
LEMMA NewStands ==
    ASSUME NamesTell, NEW S, NEW t \in DOMAIN ClassOf, NEW name \in Names, NEW index,
           NEW T \in Seq(Words)
    PROVE  Stands(Frame(New(t, name, index, TableName(t, T, name)), T), S)
  <1> DEFINE table == TableName(t, T, name)
             e == New(t, name, index, table)
  <1>1. table \in Tablename /\ ClassAt(table) = ClassOf[t]
        BY TablesNameTheirClass
  <1> HIDE DEF table
  <1>2. /\ e = [type |-> e.type, name |-> e.name, index |-> e.index,
                table |-> e.table, props |-> e.props]
        /\ e.type = t /\ e.table = table /\ e.props = <<>>
        BY DEF New
  <1> HIDE DEF e
  <1>3. DOMAIN e.props = {}
        BY <1>2
  <1>4. Len(Own(e)) \in Nat
        BY <1>2, MembersOf DEF Own
  <1>d. 1..0 = {}
        OBVIOUS
  <1>5. Good(e, 0, S)
        BY <1>2, <1>3, <1>d DEF Good, InPlace
  <1>6. /\ Frame(e, T) = [me |-> Frame(e, T).me, parent |-> Frame(e, T).parent,
                          next |-> Frame(e, T).next]
        /\ Frame(e, T).me = e /\ Frame(e, T).next = 1
        BY DEF Frame
  <1>t. Tabled(e)
        BY <1>1, <1>2 DEF Tabled
  <1>7. Stands(Frame(e, T), S)
        BY <1>2, <1>4, <1>5, <1>6, <1>t DEF Stands
  <1> QED BY <1>7 DEF e, table

\* queryData starts with the entry of the root.
LEMMA CallStep ==
    ASSUME NamesTell, NEW S, EntriesInv(S), NEW o \in Ops, NEW t \in Roots, Call(o, t)
    PROVE  EntriesInv(S)'
  <1>1. CASE Cached(t, <<>>)
    <2>1. UNCHANGED <<buffered, types, texts, stack, sent>> /\ stack = <<>> /\ op' \in Ops
          BY <1>1 DEF Call
    <2>2. PICK e : e = types[CacheKey(t, <<>>)]
          OBVIOUS
    <2>3. e \in S /\ todo' = <<Visit(e, NoEntry)>> /\ Stored(t, <<>>, e)
          BY <1>1, <2>2 DEF Call, Cached, CacheKey, EntriesInv
    <2>4. Visit(e, NoEntry) \in Visits(S)
          BY <2>3 DEF Visit, Visits, Below, Stored
    <2>5. todo' \in Seq(Visits(S))
          BY <2>3, <2>4
    <2>6. Stacked(stack', S)
          BY <2>1 DEF EntriesInv
    <2> QED BY <2>1, <2>5, <2>6, KnownStays, CacheStays DEF EntriesInv
  <1>2. CASE ~Cached(t, <<>>)
    <2>1. /\ UNCHANGED <<buffered, types, texts, todo, sent>> /\ stack = <<>> /\ op' \in Ops
          /\ stack' = <<Frame(New(t, "", 0, TableName(t, <<>>, "")), <<>>)>>
          BY <1>2 DEF Call
    <2>2. PICK f : f = Frame(New(t, "", 0, TableName(t, <<>>, "")), <<>>)
          OBVIOUS
    <2>n. "" \in Names
          BY DEF Names
    <2>s. <<>> \in Seq(Words)
          BY EmptySeq
    <2>3. t \in DOMAIN ClassOf /\ "" \in Names /\ <<>> \in Seq(Words)
          BY <2>n, <2>s, MembersAssumption
    <2>4. Stands(f, S)
          BY <2>2, <2>3, NewStands
    <2>5. f.parent = <<>> /\ f.next = 1 /\ RootEntry(f.me)
          BY <2>2 DEF Frame, New, RootEntry
    <2>6. stack' = <<f>> /\ IsList(<<f>>) /\ Len(<<f>>) = 1 /\ <<f>>[1] = f
      <3>1. <<f>> \in Seq({f})
            OBVIOUS
      <3> QED BY <2>1, <2>2, <3>1, SeqIsList
    <2>7. Stacked(<<f>>, S)
      <3>1. ASSUME NEW n \in 1..Len(<<f>>) PROVE n = 1 /\ <<f>>[n] = f
            BY <2>6
      <3> QED BY <2>4, <2>5, <2>6, <3>1 DEF Stacked
    <2> QED BY <2>1, <2>6, <2>7, StackSteps
  <1> QED BY <1>1, <1>2

\* The derivation of the innermost entry goes on.
LEMMA AtProperty ==
    ASSUME NEW S, EntriesInv(S), Unfinished
    PROVE  /\ Stacked(stack, S) /\ stack # <<>> /\ Stands(Top, S) /\ stack[Len(stack)] = Top
           /\ Top.next \in DOMAIN Own(Top.me) /\ Top.next <= Len(Own(Top.me))
           /\ IsTable(Property) => Property.name \in Names
           /\ Top.me.table \in Tablename
           /\ ClassAt(Top.me.table) = ClassOf[Top.me.type]
           /\ op \in Ops
  <1>1. Stacked(stack, S) /\ stack # <<>> /\ Stands(Top, S) /\ Top.next <= Len(Own(Top.me))
        BY TopStands DEF EntriesInv, Unfinished
  <1>2. Top.me.type \in DOMAIN ClassOf
        BY <1>1 DEF Stands, Good
  <1>3. /\ Top.next \in DOMAIN Own(Top.me)
        /\ IsTable(Property) => Property.name \in Names
        BY <1>1, <1>2, MembersOf DEF Stands, Own, Property
  <1> QED BY <1>1, <1>3 DEF Stands, Tabled, Top, EntriesInv

\* A property without an entry is passed.
LEMMA SkipStep ==
    ASSUME NEW S, EntriesInv(S), SkipProperty
    PROVE  EntriesInv(S)'
  <1>1. /\ Unfinished /\ ~Property.shown
        /\ UNCHANGED <<buffered, types, texts, op, todo, sent>>
        /\ stack' = Went(Front(stack), Top, Top.me.props)
        BY DEF SkipProperty
  <1>2. PICK f : f = Top
        OBVIOUS
  <1>3. /\ Stacked(stack, S) /\ stack # <<>> /\ Stands(f, S) /\ stack[Len(stack)] = f
        /\ f.next <= Len(Own(f.me)) /\ ~Own(f.me)[f.next].shown
        BY <1>1, <1>2, AtProperty DEF Property
  <1>4. PICK g : g = [me |-> [f.me EXCEPT !.props = f.me.props], parent |-> f.parent,
                      next |-> f.next + 1]
        OBVIOUS
  <1>5. Stands(g, S) /\ SamePlace(g, f)
        BY <1>3, <1>4, SkipStands
  <1>6. stack' = Append(Front(stack), g)
        BY <1>1, <1>2, <1>4 DEF Went
  <1>7. Stacked(stack', S)
        BY <1>3, <1>5, <1>6, ReplaceStacked
  <1>8. op' \in Ops
        BY <1>1, AtProperty
  <1> QED BY <1>1, <1>7, <1>8, StackSteps

\* The innermost entry gets a property that fits.
LEMMA FittingStep ==
    ASSUME NEW S, EntriesInv(S), Unfinished,
           UNCHANGED <<buffered, types, texts, op, todo, sent>>,
           NEW e, Fits(e, Top, S), stack' = Took(Front(stack), Top, e)
    PROVE  EntriesInv(S)'
  <1>2. PICK f : f = Top
        OBVIOUS
  <1>3. Stacked(stack, S) /\ stack # <<>> /\ Stands(f, S) /\ stack[Len(stack)] = f
        BY <1>2, AtProperty
  <1>4. PICK g : g = [me |-> [f.me EXCEPT !.props = Put(f.me.props, Slot(f, e), e)],
                      parent |-> f.parent, next |-> f.next + 1]
        OBVIOUS
  <1>5. Stands(g, S) /\ SamePlace(g, f)
        BY <1>2, <1>3, <1>4, TookStands
  <1>6. stack' = Append(Front(stack), g)
        BY <1>2, <1>4 DEF Took, Went
  <1>7. Stacked(stack', S)
        BY <1>3, <1>5, <1>6, ReplaceStacked
  <1>8. op' \in Ops
        BY AtProperty
  <1> QED BY <1>7, <1>8, StackSteps

\* The entry of a field fits.
LEMMA FieldStep ==
    ASSUME NEW S, EntriesInv(S), TakeField
    PROVE  EntriesInv(S)'
  <1>1. /\ Unfinished /\ Property.shown /\ ~IsTable(Property)
        /\ UNCHANGED <<buffered, types, texts, op, todo, sent>>
        /\ stack' = Took(Front(stack), Top, New(Property.type, Property.name, Top.next, <<>>))
        BY DEF TakeField
  <1>2. PICK e : e = New(Property.type, Property.name, Top.next, <<>>)
        OBVIOUS
  <1>3. e.type = Property.type /\ e.name = Property.name /\ e.index = Top.next
        BY <1>2 DEF New
  <1>4. Fits(e, Top, S)
        BY <1>1, <1>2, <1>3, AtProperty DEF Fits, IsField, IsTable, Property
  <1> QED BY <1>1, <1>2, <1>4, FittingStep

\* So does one from the cache: its key and its table determine the place.
LEMMA CachedStep ==
    ASSUME MembersDiffer, NEW S, EntriesInv(S), TakeCached
    PROVE  EntriesInv(S)'
  <1>1. /\ Unfinished /\ Property.shown /\ IsTable(Property)
        /\ UNCHANGED <<buffered, types, texts, op, todo, sent>>
        /\ Cached(Property.type, Top.me.table)
        /\ stack' = Took(Front(stack), Top, types[CacheKey(Property.type, Top.me.table)])
        BY DEF TakeCached
  <1>2. PICK e : e = types[CacheKey(Property.type, Top.me.table)]
        OBVIOUS
  <1>3. buffered /\ <<Property.type, Top.me.table>> \in DOMAIN types
        BY <1>1 DEF Cached, CacheKey
  <1>4. e \in S /\ Stored(Property.type, Top.me.table, e)
        BY <1>2, <1>3 DEF EntriesInv, CacheKey
  <1>5. PICK c, i, j : c = ClassOf[Top.me.type] /\ i = e.index /\ j = Top.next
        OBVIOUS
  <1>6. /\ Top.me.table # <<>> /\ ClassAt(Top.me.table) = c /\ c \in Classes
        /\ Own(Top.me) = Members[c] /\ Property = Members[c][j] /\ j \in DOMAIN Members[c]
        /\ Top.next <= Len(Own(Top.me))
        BY <1>1, <1>5, AtProperty DEF Own, Tablename, Property, Stands, Good, Classes
  <1>7. /\ i \in DOMAIN Members[c] /\ Members[c][i].shown /\ Members[c][i].type = Property.type
        /\ Members[c][i].name = e.name /\ e.type = Property.type
        /\ e.table = TableName(Property.type, Top.me.table, e.name)
        BY <1>4, <1>5, <1>6 DEF Stored
  <1>8. i = j
        BY <1>1, <1>6, <1>7 DEF MembersDiffer, IsTable
  <1>9. Fits(e, Top, S)
        BY <1>1, <1>4, <1>5, <1>6, <1>7, <1>8 DEF Fits, IsField, IsTable
  <1> QED BY <1>1, <1>2, <1>9, FittingStep

\* The derivation of a nested class starts in place.
LEMMA DescendStep ==
    ASSUME NamesTell, NEW S, EntriesInv(S), Descend
    PROVE  EntriesInv(S)'
  <1>1. PICK m, T, i : m = Property /\ T = Top.me.table /\ i = Top.next
        OBVIOUS
  <1> DEFINE f == Frame(New(m.type, m.name, i, TableName(m.type, T, m.name)), T)
  <1>2. /\ Unfinished /\ m.shown /\ m.type \in DOMAIN ClassOf
        /\ UNCHANGED <<buffered, types, texts, op, todo, sent>>
        /\ stack' = Append(stack, f)
        BY <1>1 DEF Descend, IsTable
  <1>3. /\ Stacked(stack, S) /\ stack # <<>> /\ stack[Len(stack)] = Top
        /\ Top.next <= Len(Own(Top.me)) /\ m.name \in Names /\ T \in Seq(Words)
        BY <1>1, <1>2, AtProperty DEF Tablename, IsTable
  <1>4. Stands(f, S)
        BY <1>2, <1>3, NewStands
  <1>5. Hangs(f, Top)
        BY <1>1, <1>2, <1>3 DEF Hangs, Frame, New, Property
  <1> HIDE DEF f
  <1>6. Stacked(stack', S)
        BY <1>2, <1>3, <1>4, <1>5, PushStacked
  <1>7. op' \in Ops
        BY <1>2, AtProperty
  <1> QED BY <1>2, <1>6, <1>7, StackSteps

\* An entry is complete, and is what the one around it has at this place.
LEMMA AtEnd ==
    ASSUME NEW S, EntriesInv(S), stack # <<>>, ~Unfinished
    PROVE  /\ Good(Top.me, Len(Own(Top.me)), S) /\ Tabled(Top.me)
           /\ Front(stack) = <<>> <=> Len(stack) = 1
           /\ Front(stack) = <<>> => Top.parent = <<>> /\ RootEntry(Top.me)
           /\ op \in Ops
           /\ Front(stack) # <<>> =>
                LET f == Last(Front(stack))
                IN  /\ Stacked(Front(stack), S) /\ Stands(f, S) /\ Hangs(Top, f)
                    /\ f = Front(stack)[Len(Front(stack))]
  <1>1. Stacked(stack, S) /\ Stands(Top, S) /\ Len(stack) \in Nat \ {0}
        BY TopStands DEF EntriesInv
  <1>2. Good(Top.me, Len(Own(Top.me)), S)
    <2>1. Top.next > Len(Own(Top.me)) /\ Len(Own(Top.me)) \in Nat
          BY <1>1, MembersOf DEF Unfinished, Stands, Good, Own
    <2>2. Top.next - 1 = Len(Own(Top.me))
          BY <1>1, <2>1 DEF Stands
    <2>3. Good(Top.me, Top.next - 1, S)
          BY <1>1 DEF Stands
    <2> QED BY <2>2, <2>3
  <1>3. /\ Stacked(Front(stack), S) /\ Len(Front(stack)) = Len(stack) - 1
        /\ \A i \in 1..(Len(stack) - 1) : Front(stack)[i] = stack[i]
        BY <1>1, FrontStacked
  <1>4. Front(stack) = <<>> <=> Len(stack) = 1
    <2>1. Front(stack) # <<>> <=> Len(Front(stack)) > 0
          BY <1>3, ListShape DEF Stacked
    <2> QED BY <1>1, <1>3, <2>1
  <1>p. op \in Ops
        BY DEF EntriesInv
  <1>5. Front(stack) = <<>> => Top.parent = <<>> /\ RootEntry(Top.me)
    <2> SUFFICES ASSUME Len(stack) = 1 PROVE stack[1].parent = <<>> /\ RootEntry(stack[1].me)
        BY <1>4 DEF Top
    <2>1. 1 \in 1..Len(stack)
          OBVIOUS
    <2> QED BY <1>1, <2>1 DEF Stacked
  <1>6. ASSUME Front(stack) # <<>>
        PROVE  LET f == Last(Front(stack))
               IN  /\ Stands(f, S) /\ Hangs(Top, f)
                   /\ f = Front(stack)[Len(Front(stack))]
    <2> DEFINE n == Len(stack)
    <2>1. n > 1 /\ n \in 1..n /\ n - 1 \in 1..n
          BY <1>1, <1>4, <1>6
    <2>2. Stands(stack[n - 1], S) /\ Hangs(stack[n], stack[n - 1])
          BY <1>1, <2>1 DEF Stacked
    <2>3. Last(Front(stack)) = stack[n - 1] /\ Last(Front(stack)) = Front(stack)[Len(Front(stack))]
          BY <1>3, <2>1 DEF Last
    <2> QED BY <2>2, <2>3 DEF Top
  <1> QED BY <1>1, <1>2, <1>3, <1>4, <1>5, <1>6, <1>p DEF Stands

\* An entry that is complete goes to the cache, to its owner or to the caller.
LEMMA CompleteStep ==
    ASSUME NEW S, EntriesInv(S), Complete
    PROVE  \E R : EntriesInv(R)'
  <1>1. PICK e, T, f : e = Top.me /\ T = Top.parent /\ f = Last(Front(stack))
        OBVIOUS
  <1>2. /\ stack # <<>> /\ ~Unfinished /\ UNCHANGED <<buffered, texts, op, sent>>
        /\ types' = IF buffered THEN Put(types, <<e.type, T>>, e) ELSE types
        BY <1>1 DEF Complete, CacheKey
  <1> DEFINE R == S \cup {e}
  <1>3. Good(e, Len(Own(e)), S) /\ Tabled(e)
        BY <1>1, <1>2, AtEnd
  <1>4. /\ Closed(R)
        /\ \A s : Stacked(s, S) => Stacked(s, R)
        /\ Seq(Visits(S)) \subseteq Seq(Visits(R))
        /\ TextsKnown(R) /\ SentKnown(R)
        BY <1>3, MoreEntries DEF EntriesInv
  <1>5. /\ Front(stack) = <<>> => T = <<>> /\ RootEntry(e)
        /\ op \in Ops
        /\ Front(stack) # <<>> =>
             /\ Stacked(Front(stack), S) /\ Stands(f, S) /\ f = Front(stack)[Len(Front(stack))]
             /\ T = f.me.table /\ f.next <= Len(Own(f.me)) /\ e.index = f.next
             /\ Own(f.me)[f.next].shown /\ Own(f.me)[f.next].type = e.type
             /\ Own(f.me)[f.next].name = e.name
             /\ e.table = TableName(e.type, T, e.name)
        BY <1>1, <1>2, AtEnd DEF Hangs
  <1>6. ASSUME Front(stack) # <<>>
        PROVE  /\ e.index \in DOMAIN Own(f.me) /\ Own(f.me) = Members[ClassAt(T)]
               /\ T # <<>> /\ ClassAt(T) = ClassOf[f.me.type]
    <2>1. Stands(f, S) /\ T = f.me.table /\ f.next <= Len(Own(f.me)) /\ e.index = f.next
          BY <1>5, <1>6
    <2>2. T # <<>> /\ ClassAt(T) = ClassOf[f.me.type]
          BY <2>1 DEF Stands, Tabled, Tablename
    <2> QED BY <2>1, <2>2, MembersOf DEF Stands, Good, Own
  <1>7. buffered => Stored(e.type, T, e)
    <2>1. CASE Front(stack) = <<>>
          BY <1>5, <2>1 DEF Stored
    <2>2. CASE Front(stack) # <<>>
          BY <1>5, <1>6, <2>2 DEF Stored
    <2> QED BY <2>1, <2>2
  <1>8. /\ \A k \in DOMAIN types' : types'[k] \in R
        /\ \A t, U : <<t, U>> \in DOMAIN types' => Stored(t, U, types'[<<t, U>>])
    <2>1. CASE ~buffered
          BY <1>2, <2>1 DEF EntriesInv
    <2>2. CASE buffered
      <3>1. /\ DOMAIN types' = DOMAIN types \cup {<<e.type, T>>}
            /\ \A k \in DOMAIN types' : types'[k] = IF k = <<e.type, T>> THEN e ELSE types[k]
            BY <1>2, <2>2 DEF Put
      <3>s. Stored(e.type, T, e)
            BY <1>7, <2>2
      <3>2. \A k \in DOMAIN types' : types'[k] \in R
            BY <3>1 DEF EntriesInv
      <3>3. ASSUME NEW t, NEW U, <<t, U>> \in DOMAIN types'
            PROVE  Stored(t, U, types'[<<t, U>>])
        <4>1. CASE t = e.type /\ U = T
              BY <3>s, <3>1, <3>3, <4>1
        <4>2. CASE ~(t = e.type /\ U = T)
          <5>1. <<t, U>> # <<e.type, T>>
                BY <4>2
          <5>2. <<t, U>> \in DOMAIN types /\ types'[<<t, U>>] = types[<<t, U>>]
                BY <3>1, <3>3, <5>1
          <5> QED BY <5>2 DEF EntriesInv
        <4> QED BY <4>1, <4>2
      <3> QED BY <3>2, <3>3
    <2> QED BY <2>1, <2>2
  <1>9. Stacked(stack', R) /\ todo' \in Seq(Visits(R))
    <2>1. CASE Front(stack) = <<>>
      <3>1. stack' = <<>> /\ todo' = <<Visit(e, NoEntry)>>
            BY <1>1, <1>2, <2>1 DEF Complete
      <3>2. Visit(e, NoEntry) \in Visits(R)
            BY <1>5, <2>1 DEF Visit, Visits, Below
      <3>3. IsList(<<>>) /\ Len(<<>>) = 0
        <4>1. <<>> \in Seq({})
              OBVIOUS
        <4> QED BY <4>1, SeqIsList
      <3>4. 1..Len(<<>>) = {}
            BY <3>3
      <3>5. Stacked(<<>>, R)
            BY <3>3, <3>4 DEF Stacked
      <3> QED BY <3>1, <3>2, <3>5
    <2>2. CASE Front(stack) # <<>>
      <3>1. stack' = Took(Front(Front(stack)), f, e) /\ UNCHANGED todo
            BY <1>1, <1>2, <2>2 DEF Complete
      <3>2. Stacked(Front(stack), R) /\ Stands(f, R)
        <4>1. Stacked(Front(stack), R)
              BY <1>4, <1>5, <2>2
        <4>2. Len(Front(stack)) \in 1..Len(Front(stack))
              BY <1>5, <2>2, ListShape DEF Stacked
        <4> QED BY <1>5, <2>2, <4>1, <4>2 DEF Stacked
      <3>3. Fits(e, f, R)
        <4>1. ~IsField(e)
              BY <1>3 DEF Good, IsField
        <4> QED BY <1>5, <1>6, <2>2, <4>1 DEF Fits
      <3>4. PICK g : g = [me |-> [f.me EXCEPT !.props = Put(f.me.props, Slot(f, e), e)],
                          parent |-> f.parent, next |-> f.next + 1]
            OBVIOUS
      <3>5. Stands(g, R) /\ SamePlace(g, f)
            BY <3>2, <3>3, <3>4, TookStands
      <3>6. stack' = Append(Front(Front(stack)), g)
            BY <3>1, <3>4 DEF Took, Went
      <3>7. Stacked(stack', R)
            BY <1>5, <2>2, <3>2, <3>5, <3>6, ReplaceStacked
      <3> QED BY <1>4, <3>1, <3>7 DEF EntriesInv
    <2> QED BY <2>1, <2>2
  <1> HIDE DEF R
  <1>10. PICK s : s = stack'
        OBVIOUS
  <1>11. Closed(R)' /\ Stacked(s, R)'
        BY <1>4, <1>9, <1>10, EntriesAreConstant
  <1>12. Closed(R)' /\ Stacked(stack, R)'
        BY <1>10, <1>11
  <1>13. (\A k \in DOMAIN types : types[k] \in R)'
        BY <1>8
  <1>14. (\A t, U : <<t, U>> \in DOMAIN types => Stored(t, U, types[<<t, U>>]))'
    <2>1. \A t, U, x : Stored(t, U, x)' <=> Stored(t, U, x)
          BY DEF Stored, TableName, Code, RootEntry
    <2> QED BY <1>8, <2>1
  <1>15. (todo \in Seq(Visits(R)))' /\ (buffered \in BOOLEAN)'
        BY <1>2, <1>9 DEF EntriesInv, Visits
  <1>16. (DOMAIN texts = Ops /\ (stack # <<>> \/ todo # <<>> => op \in Ops))'
        BY <1>2, <1>5 DEF EntriesInv
  <1>17. TextsKnown(R)' /\ SentKnown(R)'
        BY <1>2, <1>4, KnownStays
  <1>18. EntriesInv(R)'
        BY <1>12, <1>13, <1>14, <1>15, <1>16, <1>17 DEF EntriesInv
  <1> QED BY <1>18

\* A step of the traversal that sends nothing.
LEMMA TodoSteps ==
    ASSUME NEW S, EntriesInv(S), UNCHANGED <<buffered, types, texts, op, stack, sent>>,
           todo' \in Seq(Visits(S)), todo' # <<>> => op \in Ops
    PROVE  EntriesInv(S)'
  <1>1. Stacked(stack', S)
        BY DEF EntriesInv
  <1>2. stack' # <<>> \/ todo' # <<>> => op' \in Ops
        BY DEF EntriesInv
  <1> QED BY <1>1, <1>2, KnownStays, CacheStays DEF EntriesInv

\* The properties of an entry to be visited are visited in turn.
LEMMA ExpandStep ==
    ASSUME NEW S, EntriesInv(S), Expand
    PROVE  EntriesInv(S)'
  <1> DEFINE V == Visits(S)
  <1>1. todo \in Seq(V) /\ todo # <<>>
        BY DEF EntriesInv, Expand
  <1>2. PICK v : v = Head(todo)
        OBVIOUS
  <1> DEFINE self == <<[v EXCEPT !.open = FALSE]>>
  <1>s. PICK some \in Visited(v.e) : \E order \in Ascending(some) :
          LET members == [k \in DOMAIN order |-> Visit(v.e.props[order[k]], v.e)]
          IN  todo' = (IF op \in {"delete", "drop"} THEN members \o self ELSE self \o members)
                      \o Tail(todo)
        BY <1>2 DEF Expand
  <1>o. PICK order \in Ascending(some) :
          LET members == [k \in DOMAIN order |-> Visit(v.e.props[order[k]], v.e)]
          IN  todo' = (IF op \in {"delete", "drop"} THEN members \o self ELSE self \o members)
                      \o Tail(todo)
        BY <1>s
  <1>m. PICK members : members = [k \in DOMAIN order |-> Visit(v.e.props[order[k]], v.e)]
        OBVIOUS
  <1>3. todo' = (IF op \in {"delete", "drop"} THEN members \o self ELSE self \o members)
                \o Tail(todo)
        BY <1>o, <1>m
  <1>4. v \in V /\ Tail(todo) \in Seq(V)
    <2> HIDE DEF V
    <2> QED BY <1>1, <1>2, HeadTailProperties
  <1>5. v.e \in S /\ v = [e |-> v.e, parent |-> v.parent, open |-> v.open]
          /\ v.parent \in S \cup {NoEntry}
        BY <1>4 DEF Visits
  <1>6. self \in Seq(V)
    <2>1. [v EXCEPT !.open = FALSE] \in V
      <3>1. v \in [e : S, parent : S \cup {NoEntry}, open : BOOLEAN] /\ Below(v.e, v.parent)
            BY <1>4 DEF Visits
      <3>2. PICK w : w = [v EXCEPT !.open = FALSE]
            OBVIOUS
      <3>3. /\ w \in [e : S, parent : S \cup {NoEntry}, open : BOOLEAN]
            /\ w.e = v.e /\ w.parent = v.parent
            BY <3>1, <3>2
      <3> QED BY <3>1, <3>2, <3>3 DEF Visits
    <2> HIDE DEF V
    <2> QED BY <2>1
  <1>7. Good(v.e, Len(Own(v.e)), S)
        BY <1>5 DEF EntriesInv, Closed
  <1>8. some \subseteq Tables(v.e)
        BY DEF Visited
  <1>9. IsFiniteSet(some) /\ Cardinality(some) \in Nat
    <2>1. some \subseteq 1..Len(Own(v.e)) /\ Len(Own(v.e)) \in Nat
          BY <1>7, <1>8, MembersOf DEF Tables, Good, Own
    <2>2. PICK all : all = 1..Len(Own(v.e))
          OBVIOUS
    <2>3. IsFiniteSet(all) /\ some \in SUBSET all
          BY <2>1, <2>2, FS_Interval
    <2>4. IsFiniteSet(some)
          BY <2>3, FS_Subset
    <2> QED BY <2>4, FS_CardinalityType
  <1>10. members \in Seq(V)
    <2> DEFINE n == Cardinality(some)
    <2>1. order \in [1..n -> some]
          BY DEF Ascending
    <2>2. \A k \in 1..n : Visit(v.e.props[order[k]], v.e) \in V
      <3> SUFFICES ASSUME NEW k \in 1..n PROVE Visit(v.e.props[order[k]], v.e) \in V
          OBVIOUS
      <3>1. order[k] \in Tables(v.e)
            BY <1>8, <2>1
      <3>2. v.e.props[order[k]] \in S
            BY <1>7, <3>1 DEF Good, Tables
      <3>3. v.e # NoEntry
        <4>1. v.e.table # <<>>
              BY <1>5 DEF EntriesInv, Closed, Tabled, Tablename
        <4>2. NoEntry.table = <<>>
              BY DEF NoEntry
        <4> QED BY <4>1, <4>2
      <3>4. Below(v.e.props[order[k]], v.e)
            BY <3>1, <3>3 DEF Below
      <3> QED BY <1>5, <3>2, <3>4 DEF Visit, Visits
    <2>3. members \in [1..n -> V]
          BY <1>m, <2>1, <2>2
    <2> HIDE DEF V, n
    <2>4. n \in Nat
          BY <1>9 DEF n
    <2> QED BY <2>3, <2>4
  <1> HIDE DEF V, self
  <1>11. members \o self \in Seq(V) /\ self \o members \in Seq(V)
        BY <1>6, <1>10, ConcatProperties
  <1>12. todo' \in Seq(V)
        BY <1>3, <1>4, <1>11, ConcatProperties
  <1>13. UNCHANGED <<buffered, types, texts, op, stack, sent>> /\ op \in Ops
        BY <1>1 DEF Expand, EntriesInv
  <1> QED BY <1>12, <1>13, TodoSteps DEF V

\* A statement is sent for an entry to be visited, and was written for one in
\* its table.
LEMMA SendStep ==
    ASSUME NEW S, EntriesInv(S), Send
    PROVE  EntriesInv(S)'
  <1> DEFINE V == Visits(S)
  <1>1. /\ todo \in Seq(V) /\ todo # <<>> /\ todo' = Tail(todo)
        /\ UNCHANGED <<buffered, types, op, stack>> /\ op \in Ops
        /\ DOMAIN texts = Ops /\ TextsKnown(S)
        BY DEF EntriesInv, Send
  <1>2. PICK v, T : v = Head(todo) /\ T = v.e.table
        OBVIOUS
  <1>3. PICK text : text = IF T \in DOMAIN texts[op] THEN texts[op][T] ELSE Text(op, v.e, v.parent)
        OBVIOUS
  <1>4. /\ sent' = [text |-> text, op |-> op, e |-> v.e, parent |-> v.parent]
        /\ texts' = IF buffered THEN [texts EXCEPT ![op] = Put(@, T, text)] ELSE texts
        BY <1>2, <1>3 DEF Send
  <1>5. v \in V /\ todo' \in Seq(V)
    <2> HIDE DEF V
    <2> QED BY <1>1, <1>2, HeadTailProperties
  <1>6. WrittenFor(text, op, T, S)
    <2>1. CASE T \in DOMAIN texts[op]
          BY <1>1, <1>3, <2>1 DEF TextsKnown
    <2>2. CASE T \notin DOMAIN texts[op]
          BY <1>2, <1>3, <1>5, <2>2 DEF WrittenFor
    <2> QED BY <2>1, <2>2
  <1>7. DOMAIN texts' = Ops
        BY <1>1, <1>4
  <1>8. \A o \in Ops : \A U \in DOMAIN texts'[o] : WrittenFor(texts'[o][U], o, U, S)
    <2> SUFFICES ASSUME NEW o \in Ops, NEW U \in DOMAIN texts'[o]
                 PROVE  WrittenFor(texts'[o][U], o, U, S)
        OBVIOUS
    <2>1. CASE U \in DOMAIN texts[o] /\ texts'[o][U] = texts[o][U]
          BY <1>1, <2>1 DEF TextsKnown
    <2>2. CASE o = op /\ U = T /\ texts'[o][U] = text
          BY <1>6, <2>2
    <2>3. \/ U \in DOMAIN texts[o] /\ texts'[o][U] = texts[o][U]
          \/ o = op /\ U = T /\ texts'[o][U] = text
      <3>1. CASE ~buffered \/ o # op
            BY <1>1, <1>4, <3>1
      <3>2. CASE buffered /\ o = op
        <4>1. texts'[o] = Put(texts[o], T, text)
              BY <1>1, <1>4, <3>2
        <4>2. U \in DOMAIN texts[o] \cup {T} /\ texts'[o][U] = IF U = T THEN text ELSE texts[o][U]
              BY <4>1 DEF Put
        <4> QED BY <3>2, <4>2
      <3> QED BY <3>1, <3>2
    <2> QED BY <2>1, <2>2, <2>3
  <1>9. sent'.op # "none" =>
          /\ \E w \in V : w.e = sent'.e /\ w.parent = sent'.parent
          /\ WrittenFor(sent'.text, sent'.op, sent'.e.table, S)
    <2>1. sent'.text = text /\ sent'.op = op /\ sent'.e = v.e /\ sent'.parent = v.parent
          BY <1>4
    <2> QED BY <1>2, <1>5, <1>6, <2>1
  <1>v. Visits(S)' = Visits(S)
        BY DEF Visits, Below, RootEntry, TableName, Code, Tables, IsField, NoEntry
  <1>w. \A x, o, U : WrittenFor(x, o, U, S)' <=> WrittenFor(x, o, U, S)
        BY <1>v DEF WrittenFor, Text, Keyed, FindsRowid, IsField, NoText, Indexed, Iterated,
                    Inserted, InTurn, Nth, Fields, Tables
  <1> HIDE DEF V
  <1>10. TextsKnown(S)'
        BY <1>8, <1>w DEF TextsKnown
  <1>11. SentKnown(S)'
        BY <1>9, <1>v, <1>w DEF SentKnown, V
  <1>12. Stacked(stack', S)
        BY <1>1 DEF EntriesInv
  <1>13. stack' # <<>> \/ todo' # <<>> => op' \in Ops
        BY <1>1
  <1>14. (DOMAIN texts = Ops)'
        BY <1>7
  <1> QED BY <1>1, <1>5, <1>10, <1>11, <1>12, <1>13, <1>14, CacheStays DEF V

-----------------------------------------------------------------------------
(* Statements.                                                             *)

\* Every index of a finite set has its turn.
LEMMA NthIsIn ==
    ASSUME NEW s, IsFiniteSet(s), s \subseteq Nat
    PROVE  /\ Cardinality(s) \in Nat
           /\ \A k \in 1..Cardinality(s) :
                Nth(s, k) \in s /\ Cardinality({j \in s : j <= Nth(s, k)}) = k
  <1> DEFINE upTo(i) == {j \in s : j <= i}
             rank == [i \in s |-> Cardinality(upTo(i))]
             N == Cardinality(s)
  <1>1. N \in Nat
        BY FS_CardinalityType
  <1>2. \A i \in s : upTo(i) \in SUBSET s /\ i \in upTo(i)
        OBVIOUS
  <1>3. \A i \in s : IsFiniteSet(upTo(i)) /\ Cardinality(upTo(i)) \in Nat
        BY <1>2, FS_Subset, FS_CardinalityType
  <1>4. \A i \in s : rank[i] \in 1..N
    <2> SUFFICES ASSUME NEW i \in s PROVE rank[i] \in 1..N
        OBVIOUS
    <2>1. Cardinality(upTo(i)) <= N
          BY <1>2, FS_Subset
    <2>2. Cardinality(upTo(i)) # 0
          BY <1>2, <1>3, FS_EmptySet
    <2> QED BY <1>1, <1>3, <2>1, <2>2
  <1>5. \A i, j \in s : i < j => rank[i] < rank[j]
    <2> SUFFICES ASSUME NEW i \in s, NEW j \in s, i < j PROVE rank[i] < rank[j]
        OBVIOUS
    <2>0. \A k \in s : k \in Nat
          OBVIOUS
    <2>1. upTo(i) \in SUBSET upTo(j) /\ j \notin upTo(i) /\ j \in upTo(j)
      <3>1. \A k \in s : k <= i => k <= j
            BY <2>0
      <3>2. ~(j <= i) /\ j <= j
            BY <2>0
      <3> QED BY <3>1, <3>2
    <2>2. Cardinality(upTo(i)) <= Cardinality(upTo(j))
          BY <1>3, <2>1, FS_Subset
    <2>3. Cardinality(upTo(i)) # Cardinality(upTo(j))
          BY <1>3, <2>1, FS_Subset
    <2> HIDE DEF upTo
    <2> QED BY <1>3, <2>2, <2>3
  <1>6. rank \in Injection(s, 1..N)
    <2>1. rank \in [s -> 1..N]
          BY <1>4
    <2>2. ASSUME NEW i \in s, NEW j \in s, rank[i] = rank[j] PROVE i = j
      <3> HIDE DEF rank
      <3>1. rank[i] \in Nat /\ rank[j] \in Nat /\ i \in Nat /\ j \in Nat
            BY <1>1, <1>4
      <3> QED BY <1>5, <2>2, <3>1
    <2> HIDE DEF rank
    <2> QED BY <2>1, <2>2 DEF Injection, IsInjective
  <1>7. IsFiniteSet(1..N) /\ Cardinality(1..N) = N
        BY <1>1, FS_Interval
  <1>8. rank \in Surjection(s, 1..N)
        BY <1>6, <1>7, FS_Injection
  <1>9. \A k \in 1..N : \E i \in s : rank[i] = k
        BY <1>8 DEF Surjection
  <1>10. \A k \in 1..N : \E i \in s : Cardinality({j \in s : j <= i}) = k
         BY <1>9
  <1>11. \A k \in 1..N : Nth(s, k) \in s /\ Cardinality({j \in s : j <= Nth(s, k)}) = k
    <2> SUFFICES ASSUME NEW k \in 1..N
                 PROVE  Nth(s, k) \in s /\ Cardinality({j \in s : j <= Nth(s, k)}) = k
        OBVIOUS
    <2>1. Nth(s, k) = CHOOSE i \in s : Cardinality({j \in s : j <= i}) = k
          BY DEF Nth
    <2> QED BY <1>10, <2>1
  <1> QED BY <1>1, <1>11

\* What is taken in turn depends on what is at these indices only.
LEMMA SameInTurn ==
    ASSUME NEW s, IsFiniteSet(s), s \subseteq Nat, NEW f, NEW g, \A i \in s : f[i] = g[i]
    PROVE  InTurn(f, s) = InTurn(g, s)
  <1>1. \A k \in 1..Cardinality(s) : f[Nth(s, k)] = g[Nth(s, k)]
        BY NthIsIn
  <1> QED BY <1>1 DEF InTurn

\* The stored properties of class c and its fields, by index.
StoredOf(c) == {i \in 1..Len(Members[c]) : Members[c][i].shown}
FieldsOf(c) == {i \in StoredOf(c) : ~IsTable(Members[c][i])}

\* The columns of an entry are a matter of its class.
LEMMA EntryFields ==
    ASSUME NEW e, NEW S, Good(e, Len(Own(e)), S), NEW c, c = ClassOf[e.type]
    PROVE  /\ c \in Classes /\ Len(Members[c]) \in Nat /\ DOMAIN Members[c] = 1..Len(Members[c])
           /\ DOMAIN e.props = StoredOf(c)
           /\ Tables(e) = {i \in StoredOf(c) : IsTable(Members[c][i])}
           /\ Fields(e) = FieldsOf(c)
           /\ \A i \in Fields(e) : e.props[i] = New(Members[c][i].type, Members[c][i].name, i, <<>>)
  <1>1. e.type \in DOMAIN ClassOf /\ Own(e) = Members[c] /\ c \in Classes
        BY DEF Good, Own, Classes
  <1>2. Len(Members[c]) \in Nat /\ DOMAIN Members[c] = 1..Len(Members[c])
        BY <1>1, MembersOf
  <1>3. DOMAIN e.props = StoredOf(c)
        BY <1>1 DEF Good, StoredOf
  <1>4. \A i \in DOMAIN e.props : e.props[i].type = Members[c][i].type
        BY <1>1 DEF Good, InPlace
  <1>5. \A i \in DOMAIN e.props : IsField(e.props[i]) <=> ~IsTable(Members[c][i])
        BY <1>4 DEF IsField, IsTable
  <1>6. Tables(e) = {i \in StoredOf(c) : IsTable(Members[c][i])}
        BY <1>3, <1>5 DEF Tables
  <1>7. Fields(e) = FieldsOf(c)
        BY <1>3, <1>5 DEF Fields, FieldsOf
  <1>8. ASSUME NEW i \in Fields(e)
        PROVE  e.props[i] = New(Members[c][i].type, Members[c][i].name, i, <<>>)
        BY <1>1 DEF Good, Fields
  <1> QED BY <1>1, <1>2, <1>3, <1>6, <1>7, <1>8

\* So is whether it has a rowid, and whether the loop to count() finds it.
LEMMA EntryKeyed ==
    ASSUME NEW e, NEW S, Good(e, Len(Own(e)), S), NEW c, c = ClassOf[e.type]
    PROVE  /\ Keyed(e) <=> \E i \in FieldsOf(c) : Members[c][i].name = "orm_rowid"
           /\ FindsRowid(e) <=> RowidFound(c)
  <1>1. Fields(e) = FieldsOf(c) /\ DOMAIN e.props = StoredOf(c) /\ DOMAIN Members[c] = 1..Len(Members[c])
        BY EntryFields
  <1>2. ASSUME NEW i \in Fields(e) PROVE e.props[i].name = Members[c][i].name
    <2>1. e.props[i] = New(Members[c][i].type, Members[c][i].name, i, <<>>)
          BY EntryFields
    <2> QED BY <2>1 DEF New
  <1>3. Keyed(e) <=> \E i \in FieldsOf(c) : Members[c][i].name = "orm_rowid"
        BY <1>1, <1>2 DEF Keyed, Fields
  <1>4. PICK n : n = Cardinality(StoredOf(c))
        OBVIOUS
  <1>5. FindsRowid(e) <=> \E i \in FieldsOf(c) : i <= n /\ Members[c][i].name = "orm_rowid"
    <2>1. FindsRowid(e) <=> \E i \in Fields(e) : i <= n /\ e.props[i].name = "orm_rowid"
          BY <1>1, <1>4 DEF FindsRowid, Fields
    <2> QED BY <1>1, <1>2, <2>1
  <1>6. StoredOf(c) = {j \in DOMAIN Members[c] : Members[c][j].shown}
        BY <1>1 DEF StoredOf
  <1>7. RowidFound(c) <=> \E i \in DOMAIN Members[c] : IsRowid(Members[c][i]) /\ i <= n
        BY <1>4, <1>6 DEF RowidFound
  <1>8. \A i : i \in DOMAIN Members[c] /\ IsRowid(Members[c][i]) <=>
               i \in FieldsOf(c) /\ Members[c][i].name = "orm_rowid"
        BY <1>1 DEF FieldsOf, StoredOf, IsRowid
  <1>9. FindsRowid(e) <=> RowidFound(c)
        BY ONLY <1>5, <1>7, <1>8
  <1> QED BY <1>3, <1>9

\* The columns create and select name.
LEMMA IndexedColumns ==
    ASSUME NEW e, NEW S, Good(e, Len(Own(e)), S), NEW f, NEW R, Good(f, Len(Own(f)), R),
           ClassOf[e.type] = ClassOf[f.type]
    PROVE  Indexed(e) = Indexed(f)
  <1>1. PICK c : c = ClassOf[e.type]
        OBVIOUS
  <1>2. PICK D : D = StoredOf(c)
        OBVIOUS
  <1>3. PICK s : s = {i \in D : IsTable(Members[c][i])}
        OBVIOUS
  <1>4. /\ DOMAIN e.props = D /\ DOMAIN f.props = D /\ Tables(e) = s /\ Tables(f) = s
        /\ Len(Members[c]) \in Nat
        BY <1>1, <1>2, <1>3, EntryFields
  <1>5. ASSUME NEW i \in D, i \notin s
        PROVE  e.props[i] = f.props[i]
    <2>1. i \in Fields(e) /\ i \in Fields(f)
          BY <1>4, <1>5 DEF Fields, Tables
    <2> QED BY <1>1, <2>1, EntryFields
  <1>6. IsFiniteSet(D)
    <2>1. PICK all : all = 1..Len(Members[c])
          OBVIOUS
    <2>2. IsFiniteSet(all)
          BY <1>4, <2>1, FS_Interval
    <2>3. D \in SUBSET all
          BY <1>2, <2>1 DEF StoredOf
    <2> QED BY <2>2, <2>3, FS_Subset
  <1>7. PICK n : n = Cardinality(D)
        OBVIOUS
  <1>8. PICK all : all = 1..n
        OBVIOUS
  <1>9. IsFiniteSet(all \ s) /\ all \ s \subseteq Nat
    <2>1. n \in Nat
          BY <1>6, <1>7, FS_CardinalityType
    <2>2. IsFiniteSet(1..n)
          BY <2>1, FS_Interval
    <2>3. all \subseteq Nat /\ all \ s \in SUBSET all
          BY <1>8, <2>1
    <2> QED BY <1>8, <2>2, <2>3, FS_Subset
  <1>10. PICK g, h : /\ g = [i \in all |-> IF i \in D THEN e.props[i] ELSE NoEntry]
                     /\ h = [i \in all |-> IF i \in D THEN f.props[i] ELSE NoEntry]
         OBVIOUS
  <1>11. \A i \in all \ s : g[i] = h[i]
         BY <1>5, <1>10
  <1>12. InTurn(g, all \ s) = InTurn(h, all \ s)
         BY <1>9, <1>11, SameInTurn
  <1> QED BY <1>4, <1>7, <1>8, <1>10, <1>12 DEF Indexed

\* The columns insert and update name.
LEMMA FieldColumns ==
    ASSUME NEW e, NEW S, Good(e, Len(Own(e)), S), NEW f, NEW R, Good(f, Len(Own(f)), R),
           ClassOf[e.type] = ClassOf[f.type]
    PROVE  /\ Iterated(e) = Iterated(f)
           /\ InTurn(e.props, Inserted(e)) = InTurn(f.props, Inserted(f))
  <1>1. PICK s : s = FieldsOf(ClassOf[e.type])
        OBVIOUS
  <1>2. /\ Fields(e) = s /\ Fields(f) = s
        /\ \A i \in s : e.props[i] = f.props[i]
        BY <1>1, EntryFields
  <1>3. IsFiniteSet(s) /\ s \subseteq Nat
    <2>1. PICK n : n = Len(Members[ClassOf[e.type]])
          OBVIOUS
    <2>2. n \in Nat
          BY <2>1, EntryFields
    <2>3. PICK all : all = 1..n
          OBVIOUS
    <2>4. IsFiniteSet(all)
          BY <2>2, <2>3, FS_Interval
    <2>5. s \in SUBSET all /\ all \subseteq Nat
          BY <1>1, <2>1, <2>2, <2>3 DEF FieldsOf, StoredOf
    <2> QED BY <2>4, <2>5, FS_Subset
  <1>4. PICK r : r = {i \in s : e.props[i].name # "orm_rowid" \/ ClassOf[e.type] \in Pairs}
        OBVIOUS
  <1>5. Inserted(e) = r /\ Inserted(f) = r
        BY <1>2, <1>4 DEF Inserted
  <1>6. IsFiniteSet(r) /\ r \subseteq Nat /\ \A i \in r : e.props[i] = f.props[i]
    <2>1. r \in SUBSET s
          BY <1>4
    <2> QED BY <1>2, <1>3, <2>1, FS_Subset
  <1>7. InTurn(e.props, s) = InTurn(f.props, s) /\ InTurn(e.props, r) = InTurn(f.props, r)
        BY <1>2, <1>3, <1>6, SameInTurn
  <1> QED BY <1>2, <1>5, <1>7 DEF Iterated

\* Two statements that differ in REFERENCES only.
AlikeButRefs(x, y) == y = [x EXCEPT !.refs = y.refs]

\* A statement depends on the table and on whether there is a rowid to link to,
\* and in REFERENCES on the table of the parent.
LEMMA SameText ==
    ASSUME NEW o, NEW e, NEW S, Good(e, Len(Own(e)), S), NEW f, Good(f, Len(Own(f)), S),
           ClassOf[e.type] = ClassOf[f.type], e.table = f.table,
           NEW p, NEW q, FindsRowid(p) <=> FindsRowid(q)
    PROVE  /\ AlikeButRefs(Text(o, e, p), Text(o, f, q))
           /\ p.table = q.table => Text(o, f, q) = Text(o, e, p)
  <1>1. Keyed(e) <=> Keyed(f)
    <2>1. PICK c : c = ClassOf[e.type] /\ c = ClassOf[f.type]
          OBVIOUS
    <2> QED BY <2>1, EntryKeyed
  <1>2. PICK ce, cf :
          /\ ce = CASE o \in {"create", "select"} -> Indexed(e)
                    [] o = "insert" -> InTurn(e.props, Inserted(e))
                    [] o = "update" -> Iterated(e)
                    [] OTHER -> <<>>
          /\ cf = CASE o \in {"create", "select"} -> Indexed(f)
                    [] o = "insert" -> InTurn(f.props, Inserted(f))
                    [] o = "update" -> Iterated(f)
                    [] OTHER -> <<>>
        OBVIOUS
  <1>3. ce = cf
    <2>1. Indexed(e) = Indexed(f)
          BY IndexedColumns
    <2>2. Iterated(e) = Iterated(f) /\ InTurn(e.props, Inserted(e)) = InTurn(f.props, Inserted(f))
          BY FieldColumns
    <2> QED BY ONLY <1>2, <2>1, <2>2
  <1>4. PICK L : L = (o # "drop" /\ FindsRowid(p)) /\ L = (o # "drop" /\ FindsRowid(q))
        OBVIOUS
  <1>5. PICK re, rf : /\ re = (IF o = "create" /\ FindsRowid(p) THEN p.table ELSE <<>>)
                      /\ rf = (IF o = "create" /\ FindsRowid(q) THEN q.table ELSE <<>>)
        OBVIOUS
  <1>6. PICK none : none <=> o = "update" /\ ~Keyed(e)
        OBVIOUS
  <1>7. Text(o, e, p) = IF none THEN NoText
                        ELSE [table |-> e.table, cols |-> ce, linked |-> L, refs |-> re]
        BY <1>2, <1>4, <1>5, <1>6 DEF Text
  <1>8. Text(o, f, q) = IF none THEN NoText
                        ELSE [table |-> e.table, cols |-> ce, linked |-> L, refs |-> rf]
        BY <1>1, <1>2, <1>3, <1>4, <1>5, <1>6 DEF Text
  <1>9. p.table = q.table => re = rf
        BY <1>5
  <1>10. AlikeButRefs(Text(o, e, p), Text(o, f, q))
    <2>1. CASE none
          BY ONLY <1>7, <1>8, <2>1 DEF NoText, AlikeButRefs
    <2>2. CASE ~none
          BY ONLY <1>7, <1>8, <2>2 DEF AlikeButRefs
    <2> QED BY <2>1, <2>2
  <1>11. p.table = q.table => Text(o, f, q) = Text(o, e, p)
        BY <1>7, <1>8, <1>9
  <1> QED BY <1>10, <1>11

\* One name put behind two names' owners.
LEMMA SameOwnersName ==
    ASSUME NamesTell, NEW c \in Classes \ NoParent, NEW P \in Seq(Words), NEW Q \in Seq(Words),
           NEW p \in Names, NEW q \in Names, P \o Code(c, p) = Q \o Code(c, q)
    PROVE  P = Q
  <1>1. PICK s, t, T : s = Code(c, p) /\ t = Code(c, q) /\ T = P \o s
        OBVIOUS
  <1>2. s \in Seq(Words) /\ t \in Seq(Words) /\ T = Q \o t
        BY <1>1, CodeIsName
  <1>3. T \in Seq(Words) /\ EndsIn(T, s)
        BY <1>1, <1>2, ConcatEndsIn, ConcatProperties
  <1>4. EndsIn(T, t)
        BY <1>2, ConcatEndsIn
  <1>e. EndsIn(T, Code(c, p)) /\ EndsIn(T, Code(c, q))
        BY <1>1, <1>3, <1>4
  <1>5. Norm[p] = Norm[q]
        BY ONLY NamesTell, <1>3, <1>e, OneCode
  <1>6. s = t
        BY <1>1, <1>5 DEF Code
  <1> QED BY <1>1, <1>2, <1>6, ConcatSimplifications

\* The table of an entry tells whether the ones it is visited below have rowids
\* to be found, and their table if it is part of the name.
LEMMA SameOwners ==
    ASSUME NamesTell, OwnersAgree, NEW S, Closed(S), NEW v \in Visits(S), NEW w \in Visits(S),
           v.e.table = w.e.table
    PROVE  /\ FindsRowid(v.parent) <=> FindsRowid(w.parent)
           /\ ClassOf[v.e.type] \notin NoParent => v.parent.table = w.parent.table
  <1> DEFINE class(x) == ClassOf[x.e.type]
  <1>1. ASSUME NEW x \in Visits(S)
        PROVE  /\ x.e \in S /\ Tabled(x.e) /\ x.e.type \in DOMAIN ClassOf /\ class(x) \in Classes
               /\ Below(x.e, x.parent)
    <2>1. x.e \in S /\ Below(x.e, x.parent)
          BY DEF Visits
    <2> QED BY <2>1 DEF Closed, Good, Classes
  <1>2. class(v) = class(w)
        BY <1>1 DEF Tabled
  <1>3. ASSUME NEW x \in Visits(S), x.parent = NoEntry
        PROVE  /\ ~FindsRowid(x.parent) /\ class(x) \in {ClassOf[t] : t \in Roots}
               /\ class(x) \notin NoParent => x.e.table = <<>> \o Code(class(x), "")
    <2>1. RootEntry(x.e)
          BY <1>1, <1>3 DEF Below
    <2>2. DOMAIN NoEntry.props = {}
          BY DEF NoEntry
    <2> QED BY <1>3, <2>1, <2>2 DEF RootEntry, TableName, FindsRowid
  <1>4. ASSUME NEW x \in Visits(S), x.parent # NoEntry
        PROVE  /\ Good(x.parent, Len(Own(x.parent)), S) /\ Tabled(x.parent)
               /\ FindsRowid(x.parent) <=> RowidFound(ClassOf[x.parent.type])
               /\ ClassOf[x.parent.type] \in Owners(class(x))
               /\ x.e.name \in Names
               /\ class(x) \notin NoParent => x.e.table = x.parent.table \o Code(class(x), x.e.name)
    <2>1. PICK p : p = x.parent
          OBVIOUS
    <2>2. p \in S
          BY <1>4, <2>1 DEF Visits
    <2>3. Good(p, Len(Own(p)), S) /\ Tabled(p)
          BY <2>2 DEF Closed
    <2>4. PICK i \in Tables(p) : x.e = p.props[i]
          BY <1>1, <1>4, <2>1 DEF Below
    <2>5. PICK c : c = ClassOf[p.type]
          OBVIOUS
    <2>6. i \in DOMAIN p.props /\ ~IsField(p.props[i])
          BY <2>4 DEF Tables
    <2>7. p.type \in DOMAIN ClassOf /\ Own(p) = Members[c]
          BY <2>3, <2>5 DEF Good, Own
    <2>8. i \in DOMAIN Members[c] /\ Members[c][i].shown
          BY <2>3, <2>6, <2>7, OwnProperties
    <2>9. x.e.type = Members[c][i].type /\ x.e.name = Members[c][i].name
          BY <2>3, <2>4, <2>6, <2>7 DEF Good, InPlace
    <2>10. Members[c][i] \in Range(Members[c]) /\ IsTable(Members[c][i])
          BY <1>1, <2>8, <2>9 DEF Range, IsTable
    <2>11. c \in Owners(class(x))
          BY <1>1, <2>5, <2>7, <2>8, <2>9, <2>10 DEF Owners, Classes
    <2>12. x.e.name \in Names
          BY <2>5, <2>7, <2>8, <2>9, <2>10, MembersOf
    <2>t. x.e.table = TableName(x.e.type, p.table, x.e.name)
          BY <2>3, <2>4, <2>6, <2>7, <2>9 DEF Good, InPlace
    <2>13. class(x) \notin NoParent => x.e.table = p.table \o Code(class(x), x.e.name)
          BY <2>t DEF TableName
    <2>14. FindsRowid(p) <=> RowidFound(c)
          BY <2>3, <2>5, EntryKeyed
    <2> QED BY <2>1, <2>3, <2>5, <2>11, <2>12, <2>13, <2>14
  <1> HIDE DEF class
  <1>5. ASSUME class(v) \in NoParent
        PROVE  FindsRowid(v.parent) <=> FindsRowid(w.parent)
    <2>1. CASE v.parent = NoEntry /\ w.parent = NoEntry
          BY <1>3, <2>1
    <2>2. CASE v.parent = NoEntry /\ w.parent # NoEntry
          BY <1>2, <1>3, <1>4, <1>5, <2>2 DEF OwnersAgree
    <2>3. CASE v.parent # NoEntry /\ w.parent = NoEntry
          BY <1>2, <1>3, <1>4, <1>5, <2>3 DEF OwnersAgree
    <2>4. CASE v.parent # NoEntry /\ w.parent # NoEntry
      <3>1. PICK k, d, b : /\ k = class(v) /\ k = class(w)
                           /\ d = ClassOf[v.parent.type] /\ b = ClassOf[w.parent.type]
            BY <1>2
      <3>2. k \in NoParent /\ d \in Owners(k) /\ b \in Owners(k)
            BY <1>4, <1>5, <2>4, <3>1
      <3>3. RowidFound(b) <=> RowidFound(d)
            BY ONLY OwnersAgree, <3>2 DEF OwnersAgree
      <3>4. /\ (FindsRowid(v.parent) <=> RowidFound(d))
            /\ (FindsRowid(w.parent) <=> RowidFound(b))
            BY <1>4, <2>4, <3>1
      <3> QED BY ONLY <3>3, <3>4
    <2> QED BY <2>1, <2>2, <2>3, <2>4
  <1>6. ASSUME class(v) \notin NoParent
        PROVE  /\ v.parent.table = w.parent.table
               /\ FindsRowid(v.parent) <=> FindsRowid(w.parent)
    <2>1. ASSUME NEW x \in Visits(S), class(x) \notin NoParent
          PROVE  /\ x.parent.table \in Seq(Words) /\ (x.parent.table = <<>> <=> x.parent = NoEntry)
                 /\ \E p \in Names : x.e.table = x.parent.table \o Code(class(x), p)
      <3>1. CASE x.parent = NoEntry
        <4>n. NoEntry.table = <<>>
              BY DEF NoEntry
        <4>1. x.parent.table = <<>>
              BY <3>1, <4>n
        <4>2. x.e.table = <<>> \o Code(class(x), "")
              BY <1>3, <2>1, <3>1
        <4>3. <<>> \in Seq(Words) /\ "" \in Names
              BY DEF Names
        <4> QED BY <3>1, <4>1, <4>2, <4>3
      <3>2. CASE x.parent # NoEntry
        <4>1. x.parent.table \in Tablename
              BY <1>4, <3>2 DEF Tabled
        <4>2. x.e.table = x.parent.table \o Code(class(x), x.e.name) /\ x.e.name \in Names
              BY <1>4, <2>1, <3>2
        <4> QED BY <3>2, <4>1, <4>2 DEF Tablename
      <3> QED BY <3>1, <3>2
    <2>2. v.parent.table = w.parent.table
      <3>1. PICK P, Q, c : P = v.parent.table /\ Q = w.parent.table /\ c = class(v) /\ c = class(w)
            BY <1>2
      <3>2. PICK p \in Names : v.e.table = P \o Code(c, p)
            BY <1>6, <2>1, <3>1
      <3>3. PICK q \in Names : w.e.table = Q \o Code(c, q)
            BY <1>6, <2>1, <3>1
      <3>4. P \in Seq(Words) /\ Q \in Seq(Words) /\ c \in Classes \ NoParent
            BY <1>1, <1>6, <2>1, <3>1
      <3>5. P \o Code(c, p) = Q \o Code(c, q)
            BY <3>2, <3>3
      <3>6. P = Q
            BY ONLY NamesTell, <3>4, <3>5, SameOwnersName
      <3> QED BY <3>1, <3>6
    <2>3. v.parent = NoEntry <=> w.parent = NoEntry
          BY <1>2, <1>6, <2>1, <2>2
    <2>4. CASE v.parent = NoEntry
          BY <1>3, <2>2, <2>3, <2>4
    <2>5. CASE v.parent # NoEntry
      <3>1. ClassOf[v.parent.type] = ClassOf[w.parent.type]
            BY <1>4, <2>2, <2>3, <2>5 DEF Tabled
      <3> QED BY <1>4, <2>2, <2>3, <2>5, <3>1
    <2> QED BY <2>4, <2>5
  <1> QED BY <1>5, <1>6 DEF class

\* What was sent is what would be written.
LEMMA KnownIsOwn ==
    ASSUME NamesTell, OwnersAgree, NEW S, Closed(S), SentKnown(S)
    PROVE  TextIsItsOwn
  <1> SUFFICES ASSUME sent.op # "none", NEW own, own = Text(sent.op, sent.e, sent.parent)
               PROVE  sent.text = IF ClassOf[sent.e.type] \in NoParent
                                  THEN [own EXCEPT !.refs = sent.text.refs] ELSE own
      BY DEF TextIsItsOwn
  <1>1. PICK v \in Visits(S) : v.e = sent.e /\ v.parent = sent.parent
        BY DEF SentKnown
  <1>2. PICK w \in Visits(S) : w.e.table = sent.e.table /\ sent.text = Text(sent.op, w.e, w.parent)
        BY DEF SentKnown, WrittenFor
  <1>3. /\ FindsRowid(v.parent) <=> FindsRowid(w.parent)
        /\ ClassOf[v.e.type] \notin NoParent => v.parent.table = w.parent.table
        BY <1>1, <1>2, SameOwners
  <1>4. /\ Good(v.e, Len(Own(v.e)), S) /\ Tabled(v.e)
        /\ Good(w.e, Len(Own(w.e)), S) /\ Tabled(w.e)
    <2>1. v.e \in S /\ w.e \in S
          BY DEF Visits
    <2> QED BY <2>1 DEF Closed
  <1>5. ClassOf[v.e.type] = ClassOf[w.e.type] /\ v.e.table = w.e.table
        BY <1>1, <1>2, <1>4 DEF Tabled
  <1>6. PICK o, x, y, p, q : /\ o = sent.op /\ x = v.e /\ y = w.e
                             /\ p = v.parent /\ q = w.parent
        OBVIOUS
  <1>7. own = Text(o, x, p) /\ sent.text = Text(o, y, q)
        BY <1>1, <1>2, <1>6
  <1>g. /\ Good(x, Len(Own(x)), S) /\ Good(y, Len(Own(y)), S)
        /\ ClassOf[x.type] = ClassOf[y.type] /\ x.table = y.table
        /\ FindsRowid(p) <=> FindsRowid(q)
        BY <1>3, <1>4, <1>5, <1>6
  <1>t. /\ AlikeButRefs(Text(o, x, p), Text(o, y, q))
        /\ p.table = q.table => Text(o, y, q) = Text(o, x, p)
        BY ONLY <1>g, SameText
  <1>8. /\ sent.text = [own EXCEPT !.refs = sent.text.refs]
        /\ v.parent.table = w.parent.table => sent.text = own
        BY <1>6, <1>7, <1>t DEF AlikeButRefs
  <1>9. CASE ClassOf[sent.e.type] \in NoParent
        BY <1>7, <1>8, <1>9
  <1>10. CASE ClassOf[sent.e.type] \notin NoParent
        BY <1>1, <1>3, <1>7, <1>8, <1>10
  <1> QED BY <1>9, <1>10

\* Numbers without a gap from 1 are the first ones.
LEMMA DownwardClosed ==
    ASSUME NEW m \in Nat, NEW D, D \subseteq 1..m, \A j \in D : \A i \in 1..j : i \in D
    PROVE  D = 1..Cardinality(D)
  <1>1. CASE D = {}
    <2>1. Cardinality(D) = 0
          BY <1>1, FS_EmptySet
    <2> QED BY <1>1, <2>1
  <1>2. CASE D # {}
    <2>1. \E j \in D : \A i \in D : i <= j
      <3>1. IsFiniteSet(1..m) /\ D \in SUBSET (1..m)
            BY FS_Interval
      <3>s. D \subseteq Nat
            OBVIOUS
      <3>2. IsFiniteSet(D) /\ D \subseteq Nat
            BY <3>1, <3>s, FS_Subset
      <3>3. Cardinality(D) \in Nat \ {0}
            BY <1>2, <3>2, FS_EmptySet, FS_CardinalityType
      <3>4. PICK k, j : k = Cardinality(D) /\ j = Nth(D, k)
            OBVIOUS
      <3>5. PICK below : below = {i \in D : i <= j}
            OBVIOUS
      <3>k. k \in 1..Cardinality(D)
            BY <3>3, <3>4
      <3>6. j \in D /\ Cardinality(below) = Cardinality(D)
        <4>1. Nth(D, k) \in D /\ Cardinality({i \in D : i <= Nth(D, k)}) = k
              BY <3>2, <3>k, NthIsIn
        <4> QED BY <3>4, <3>5, <4>1
      <3>7. below = D
        <4>1. below \in SUBSET D
              BY <3>5
        <4> QED BY <3>2, <3>6, <4>1, FS_Subset
      <3> QED BY <3>5, <3>6, <3>7
    <2>2. PICK j \in D : \A i \in D : i <= j
          BY <2>1
    <2>3. D = 1..j /\ j \in Nat
      <3>1. j \in Nat /\ j >= 1 /\ \A i \in D : i \in Nat /\ i >= 1
            OBVIOUS
      <3>2. \A i \in D : i \in 1..j
            BY <2>2, <3>1
      <3>3. \A i \in 1..j : i \in D
            OBVIOUS
      <3> QED BY <3>1, <3>2, <3>3
    <2>4. Cardinality(1..j) = j
          BY <2>3, FS_Interval
    <2> QED BY <2>3, <2>4
  <1> QED BY <1>1, <1>2

\* A class whose hidden properties come last has its columns up to some index.
LEMMA ColumnsOfClass ==
    ASSUME HiddenLast, NEW e, NEW S, Good(e, Len(Own(e)), S)
    PROVE  /\ Len(Indexed(e)) = Len(Shown(e)) /\ DOMAIN Indexed(e) = 1..Len(Indexed(e))
           /\ \A k \in DOMAIN Indexed(e) : Indexed(e)[k].name = Shown(e)[k].name
  <1>1. PICK c : c = ClassOf[e.type]
        OBVIOUS
  <1>2. PICK m : m = Len(Members[c])
        OBVIOUS
  <1>3. PICK D : D = DOMAIN e.props
        OBVIOUS
  <1>4. /\ c \in Classes /\ m \in Nat /\ Own(e) = Members[c] /\ DOMAIN Members[c] = 1..m
        /\ D = {i \in 1..m : Members[c][i].shown}
        /\ Tables(e) = {i \in D : IsTable(Members[c][i])}
        /\ Fields(e) = FieldsOf(c)
    <2>1. Own(e) = Members[c]
          BY <1>1 DEF Own
    <2>2. /\ c \in Classes /\ m \in Nat /\ DOMAIN Members[c] = 1..m
          /\ D = StoredOf(c)
          /\ Tables(e) = {i \in StoredOf(c) : IsTable(Members[c][i])}
          /\ Fields(e) = FieldsOf(c)
          BY <1>1, <1>2, <1>3, EntryFields
    <2> QED BY <1>2, <2>1, <2>2 DEF StoredOf
  <1>6. PICK n : n = Cardinality(D)
        OBVIOUS
  <1>7. IsFiniteSet(D) /\ n \in Nat
    <2>1. IsFiniteSet(1..m)
          BY <1>4, FS_Interval
    <2>s. D \in SUBSET (1..m)
          BY <1>4
    <2>2. IsFiniteSet(D)
          BY <2>1, <2>s, FS_Subset
    <2> QED BY <1>6, <2>2, FS_CardinalityType
  <1>8. D = 1..n
    <2>1. \A j \in D : \A i \in 1..j : i \in D
      <3> SUFFICES ASSUME NEW j \in D, NEW i \in 1..j PROVE i \in D
          OBVIOUS
      <3>1. j \in 1..m /\ Members[c][j].shown /\ i \in 1..m
            BY <1>4
      <3> QED BY <1>4, <3>1 DEF HiddenLast
    <2>2. D \subseteq 1..m
          BY <1>4
    <2> QED BY <1>4, <1>6, <1>7, <2>1, <2>2, DownwardClosed
  <1>9. PICK s : s = FieldsOf(c)
        OBVIOUS
  <1>10. /\ D \ Tables(e) = s /\ s \subseteq D
         /\ s = {i \in DOMAIN Own(e) : Own(e)[i].shown /\ ~IsTable(Own(e)[i])}
         BY <1>2, <1>4, <1>9 DEF FieldsOf, StoredOf
  <1>11. IsFiniteSet(s) /\ s \subseteq Nat
    <2>1. s \in SUBSET D
          BY <1>10
    <2>2. D \subseteq Nat
          BY <1>8
    <2> QED BY <1>7, <2>1, <2>2, FS_Subset
  <1>12. PICK g : g = [i \in D |-> IF i \in D THEN e.props[i] ELSE NoEntry]
         OBVIOUS
  <1>13. Indexed(e) = InTurn(g, s) /\ Shown(e) = InTurn(Own(e), s)
         BY <1>3, <1>6, <1>8, <1>10, <1>12 DEF Indexed, Shown
  <1>14. PICK N : N = Cardinality(s)
         OBVIOUS
  <1>15. N \in Nat /\ \A k \in 1..N : Nth(s, k) \in s
         BY <1>11, <1>14, NthIsIn
  <1>16. ASSUME NEW i \in s PROVE g[i].name = Own(e)[i].name
    <2>1. i \in Fields(e) /\ i \in D
          BY <1>4, <1>9, <1>10
    <2>2. e.props[i] = New(Members[c][i].type, Members[c][i].name, i, <<>>)
          BY <1>1, <2>1, EntryFields
    <2>3. e.props[i].name = Members[c][i].name
          BY <2>2 DEF New
    <2> QED BY <1>4, <1>12, <2>1, <2>3
  <1>17. PICK x, y : x = InTurn(g, s) /\ y = InTurn(Own(e), s)
         OBVIOUS
  <1>18. /\ x = [k \in 1..N |-> g[Nth(s, k)]] /\ y = [k \in 1..N |-> Own(e)[Nth(s, k)]]
         BY <1>14, <1>17 DEF InTurn
  <1>19. Len(x) = N /\ Len(y) = N /\ DOMAIN x = 1..N
    <2>1. DOMAIN x = 1..N /\ DOMAIN y = 1..N
          BY <1>18
    <2>2. PICK X, Y : X = Range(x) /\ Y = Range(y)
          OBVIOUS
    <2>3. x \in [1..N -> X] /\ y \in [1..N -> Y]
          BY <1>18, <2>2 DEF Range
    <2>4. x \in Seq(X) /\ y \in Seq(Y)
          BY <1>15, <2>3
    <2>5. DOMAIN x = 1..Len(x) /\ DOMAIN y = 1..Len(y) /\ Len(x) \in Nat /\ Len(y) \in Nat
          BY <2>4, LenProperties
    <2>6. Len(x) = N
          BY <1>15, <2>1, <2>5
    <2>7. Len(y) = N
          BY <1>15, <2>1, <2>5
    <2> QED BY <2>1, <2>6, <2>7
  <1>20. \A k \in 1..N : x[k].name = y[k].name
         BY <1>15, <1>16, <1>18
  <1> QED BY <1>13, <1>17, <1>19, <1>20

\* Create and select name what the class has.
LEMMA KnownColumns ==
    ASSUME HiddenLast, NEW S, Closed(S), SentKnown(S)
    PROVE  ColumnsAreProperties
  <1> SUFFICES ASSUME sent.op \in {"create", "select"}
               PROVE  /\ Len(sent.text.cols) = Len(Shown(sent.e))
                      /\ \A k \in DOMAIN sent.text.cols : sent.text.cols[k].name = Shown(sent.e)[k].name
      BY DEF ColumnsAreProperties
  <1>1. PICK v \in Visits(S) : v.e = sent.e
        BY DEF SentKnown
  <1>2. PICK w \in Visits(S) : w.e.table = sent.e.table /\ sent.text = Text(sent.op, w.e, w.parent)
        BY DEF SentKnown, WrittenFor
  <1>3. /\ Good(v.e, Len(Own(v.e)), S) /\ Tabled(v.e)
        /\ Good(w.e, Len(Own(w.e)), S) /\ Tabled(w.e)
    <2>1. v.e \in S /\ w.e \in S
          BY DEF Visits
    <2> QED BY <2>1 DEF Closed
  <1>4. ClassOf[v.e.type] = ClassOf[w.e.type]
        BY <1>1, <1>2, <1>3 DEF Tabled
  <1>5. Shown(w.e) = Shown(sent.e)
        BY <1>1, <1>4 DEF Shown, Own
  <1>6. sent.text.cols = Indexed(w.e)
        BY <1>2 DEF Text
  <1> QED BY <1>3, <1>5, <1>6, ColumnsOfClass

-----------------------------------------------------------------------------

\* Some closed set of entries accounts for everything at hand.
EntriesKnown == \E S : EntriesInv(S)

\* Every step keeps account of its entries.
LEMMA NextEntries ==
    ASSUME MembersDiffer, NamesTell
    PROVE  EntriesKnown /\ [Next]_vars => EntriesKnown'
  <1> SUFFICES ASSUME NEW S, EntriesInv(S), [Next]_vars
               PROVE  \E R : EntriesInv(R)'
      BY DEF EntriesKnown
  <1>1. ASSUME NEW o \in Ops, NEW t \in Roots, Call(o, t)
        PROVE  EntriesInv(S)'
        BY <1>1, CallStep
  <1>2. CASE SkipProperty
        BY <1>2, SkipStep
  <1>3. CASE TakeField
        BY <1>3, FieldStep
  <1>4. CASE TakeCached
        BY <1>4, CachedStep
  <1>5. CASE Descend
        BY <1>5, DescendStep
  <1>6. CASE Complete
        BY <1>6, CompleteStep
  <1>7. CASE Expand
        BY <1>7, ExpandStep
  <1>8. CASE Send
        BY <1>8, SendStep
  <1>9. CASE UNCHANGED vars
    <2>1. /\ UNCHANGED <<buffered, types, texts, op, stack, sent>>
          /\ todo' \in Seq(Visits(S)) /\ (todo' # <<>> => op \in Ops)
          BY <1>9 DEF vars, EntriesInv
    <2> QED BY <2>1, TodoSteps
  <1> QED BY <1>1, <1>2, <1>3, <1>4, <1>5, <1>6, <1>7, <1>8, <1>9 DEF Next

\* For classes that have no two tables of one type as members and whose tables'
\* names tell which is whose, whether they share tables or not and with the
\* cache or without: an entry taken from m_types is the one its place needs,
\* whole (queryDataRecursive, orm.cpp:986-999, 1121-1128).
THEOREM EntriesStayInPlace ==
    ASSUME MembersDiffer, NamesTell
    PROVE  Spec => []EntriesInPlace
  <1>1. Init => EntriesKnown
        BY InitEntries DEF EntriesKnown
  <1>2. EntriesKnown => EntriesInPlace
        BY InvIsEnough DEF EntriesKnown
  <1> QED BY <1>1, <1>2, NextEntries, PTL DEF Spec

\* A statement looked up by its table is the one that would be written for this
\* entry, whatever was derived and sent before, as long as the owners of a table
\* without its parent's name agree; but the CREATE of such a table may name
\* another owner in REFERENCES (orm.cpp:1148-1153).
THEOREM TextsStayOwn ==
    ASSUME MembersDiffer, NamesTell, OwnersAgree
    PROVE  Spec => []TextIsItsOwn
  <1>1. Init => EntriesKnown
        BY InitEntries DEF EntriesKnown
  <1>2. EntriesKnown => TextIsItsOwn
        BY KnownIsOwn DEF EntriesKnown, EntriesInv
  <1> QED BY <1>1, <1>2, NextEntries, PTL DEF Spec

\* Create and select name every property that is stored and no table, and
\* nothing else, when the hidden ones come last (sqliteorm.cpp:105-109, 207-212).
THEOREM ColumnsStayProperties ==
    ASSUME MembersDiffer, NamesTell, HiddenLast
    PROVE  Spec => []ColumnsAreProperties
  <1>1. Init => EntriesKnown
        BY InitEntries DEF EntriesKnown
  <1>2. EntriesKnown => ColumnsAreProperties
        BY KnownColumns DEF EntriesKnown, EntriesInv
  <1> QED BY <1>1, <1>2, NextEntries, PTL DEF Spec

=============================================================================
