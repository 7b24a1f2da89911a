----------------------------- MODULE TableEntries -----------------------------
(***************************************************************************)
(* How the ORM turns a class into tables and statements: queryData and     *)
(* queryDataRecursive (ORM/orm.cpp:984-1140) build a tree of TableEntry's  *)
(* from the class's properties, the generate_* functions (sqliteorm.cpp)   *)
(* write a statement for an entry and its parent.  Both are cached when    *)
(* m_bufferization is set: entries by type and parent table, statements by *)
(* table.  OrmEngine starts from the tree that is meant.                   *)
(*                                                                         *)
(* A type that gets a table (gadget, pointer, container) stands for a      *)
(* class, a QMap or a pair for the class <<key, value, orm_rowid>>.  Every *)
(* other type is a column.  A table's name is the sequence of its words.   *)
(***************************************************************************)
EXTENDS Naturals, SequencesExt

CONSTANTS
    ClassOf,    \* ClassOf[t]: the class behind a type that gets a table
    Members,    \* Members[c]: the properties of c, by index
    Pairs,      \* the classes that stand for a QMap, a QHash or a pair
    NoParent,   \* the classes with ORM_CLASSINFO_TABLE_NAME_NO_PARENT
    Named,      \* Named[c]: the words of c's own or ORM_CLASSINFO_TABLE_NAME,
                \* normalized unless c is in NoParent
    Norm,       \* Norm[p]: the words of a property's name, normalized
    Roots,      \* the types the program hands to the ORM
    Ops,        \* the operations it uses
    MaxCalls    \* bound: calls

Classes == {ClassOf[t] : t \in DOMAIN ClassOf}

IsTable(m) == m.type \in DOMAIN ClassOf

\* The names of properties that are tables; a root has none.
Names == {""} \cup UNION {{m.name : m \in {n \in Range(Members[c]) : IsTable(n)}} : c \in Classes}
Words == UNION ({Range(Named[c]) : c \in Classes} \cup {Range(Norm[p]) : p \in Names})

\* A property is its orig_meta_type_id, its name and whether it is stored,
\* readable, writable and not ignored.
ASSUME MembersAssumption ==
    /\ \A c \in Classes : /\ Members[c] \in Seq(Range(Members[c]))
                          /\ \A m \in Range(Members[c]) : m.shown \in BOOLEAN
    /\ Roots \subseteq DOMAIN ClassOf /\ NoParent \cup Pairs \subseteq Classes
    /\ \A c \in Pairs : Len(Members[c]) = 3 /\ Members[c][3].type \notin DOMAIN ClassOf
    /\ \A c \in Classes : Named[c] \in Seq(Words) /\ Named[c] # <<>>
    /\ \A p \in Names : Norm[p] \in Seq(Words)
    /\ Ops \subseteq {"create", "insert", "select", "update", "delete", "drop"}
    /\ MaxCalls \in Nat

VARIABLES
    buffered,   \* m_bufferization, which no constructor sets
    types,      \* m_types: the entries derived so far
    texts,      \* m_createQueries ... m_dropQueries: the statements so far
    op,         \* the operation under way
    stack,      \* the entries being derived, outermost first
    todo,       \* the entries whose statements are still to be sent
    sent,       \* history: the statement just sent, and what for
    calls       \* calls made so far

vars == <<buffered, types, texts, op, stack, todo, sent, calls>>

\* map[k] = v
Put(f, k, v) == [x \in DOMAIN f \cup {k} |-> IF x = k THEN v ELSE f[x]]

-----------------------------------------------------------------------------
(* Entries.                                                                *)

New(t, name, index, table) ==
    [type |-> t, name |-> name, index |-> index, table |-> table, props |-> <<>>]

IsField(e) == e.type \notin DOMAIN ClassOf
Keyed(e) == \E i \in DOMAIN e.props : IsField(e.props[i]) /\ e.props[i].name = "orm_rowid"
Own(e) == Members[ClassOf[e.type]]

\* What generate_table_name puts behind the parent's name.
Code(c, p) == Named[c] \o Norm[p]

\* Mutant: without the parent's name for every class.
TableNameShort(t, parent, name) == Code(ClassOf[t], name)

TableName(t, parent, name) ==
    IF ClassOf[t] \in NoParent THEN Named[ClassOf[t]] ELSE parent \o Code(ClassOf[t], name)

\* Mutant: entries are cached by type.
CacheKeyByType(t, parent) == <<t>>
CacheKey(t, parent) == <<t, parent>>

Cached(t, parent) == buffered /\ CacheKey(t, parent) \in DOMAIN types

NoEntry == [type |-> "", name |-> "", index |-> 0, table |-> <<>>, props |-> <<>>]

-----------------------------------------------------------------------------
(* Statements.                                                             *)

\* The k-th smallest of the indices in s.
Nth(s, k) == CHOOSE i \in s : Cardinality({j \in s : j <= i}) = k

\* What f has at the indices in s, in their order.
InTurn(f, s) == [k \in 1..Cardinality(s) |-> f[Nth(s, k)]]

Fields(e) == {i \in DOMAIN e.props : IsField(e.props[i])}
Tables(e) == {i \in DOMAIN e.props : ~IsField(e.props[i])}

\* for (auto i : properties): the columns in the order of their indices.
Iterated(e) == InTurn(e.props, Fields(e))

\* Mutant: the last property is missed.
IndexedShort(e) ==
    LET all == 1..(Cardinality(DOMAIN e.props) - 1)
    IN  InTurn([i \in all |-> IF i \in DOMAIN e.props THEN e.props[i] ELSE NoEntry], all \ Tables(e))

\* for (i = 0; i < properties.count(); ++i): properties[i], where operator[]
\* makes up a column for an index that is missing.
Indexed(e) ==
    LET all == 1..Cardinality(DOMAIN e.props)
    IN  InTurn([i \in all |-> IF i \in DOMAIN e.props THEN e.props[i] ELSE NoEntry], all \ Tables(e))

\* if (parent->has_orm_row_id) for (i = 0; i < properties.count(); ++i):
\* whether that finds the rowid its children are to hold.
FindsRowid(e) ==
    \E i \in DOMAIN e.props :
        i <= Cardinality(DOMAIN e.props) /\ IsField(e.props[i]) /\ e.props[i].name = "orm_rowid"

\* Inserted are all columns but those with AUTOINCREMENT: the rowid of a class,
\* not that of a pair.
Inserted(e) == {i \in Fields(e) : e.props[i].name # "orm_rowid" \/ ClassOf[e.type] \in Pairs}

NoText == [table |-> <<>>, cols |-> <<>>, linked |-> FALSE, refs |-> <<>>]

\* The table, its columns, whether the parent's rowid is one of them and the
\* table that REFERENCES names; there is no UPDATE for a class without rowid.
Text(o, e, parent) ==
    IF o = "update" /\ ~Keyed(e)
    THEN NoText
    ELSE [table  |-> e.table,
          cols   |-> CASE o \in {"create", "select"} -> Indexed(e)
                       [] o = "insert" -> InTurn(e.props, Inserted(e))
                       [] o = "update" -> Iterated(e)
                       [] OTHER -> <<>>,
          linked |-> o # "drop" /\ FindsRowid(parent),
          refs   |-> IF o = "create" /\ FindsRowid(parent) THEN parent.table ELSE <<>>]

-----------------------------------------------------------------------------
(* queryData.                                                              *)

Init ==
    /\ buffered \in BOOLEAN
    /\ types = <<>>
    /\ texts = [o \in Ops |-> <<>>]
    /\ op = "none"
    /\ stack = <<>> /\ todo = <<>>
    /\ sent = [text |-> NoText, op |-> "none", e |-> NoEntry, parent |-> NoEntry]
    /\ calls = 0

Visit(e, parent) == [e |-> e, parent |-> parent, open |-> TRUE]
Frame(e, parent) == [me |-> e, parent |-> parent, next |-> 1]

\* ORM::id_create ... id_drop.
Call(o, t) ==
    /\ stack = <<>> /\ todo = <<>> /\ calls < MaxCalls
    /\ op' = o /\ calls' = calls + 1
    /\ IF Cached(t, <<>>)
       THEN todo' = <<Visit(types[CacheKey(t, <<>>)], NoEntry)>> /\ UNCHANGED stack
       ELSE stack' = <<Frame(New(t, "", 0, TableName(t, <<>>, "")), <<>>)>> /\ UNCHANGED todo
    /\ UNCHANGED <<buffered, types, texts, sent>>

Top == stack[Len(stack)]
Unfinished == stack # <<>> /\ Top.next <= Len(Own(Top.me))
Property == Own(Top.me)[Top.next]

\* properties[i] = entry in a class, properties[entry.property_index] in a pair.
Slot(f, e) == IF ClassOf[f.me.type] \in Pairs THEN e.index ELSE f.next

\* The innermost entry goes on to its next property, with props as its properties.
Went(rest, f, props) ==
    Append(rest, [me |-> [f.me EXCEPT !.props = props], parent |-> f.parent, next |-> f.next + 1])
Took(rest, f, e) == Went(rest, f, Put(f.me.props, Slot(f, e), e))

SkipProperty ==
    /\ Unfinished /\ ~Property.shown
    /\ stack' = Went(Front(stack), Top, Top.me.props)
    /\ UNCHANGED <<buffered, types, texts, op, todo, sent, calls>>

TakeField ==
    /\ Unfinished /\ Property.shown /\ ~IsTable(Property)
    /\ stack' = Took(Front(stack), Top, New(Property.type, Property.name, Top.next, <<>>))
    /\ UNCHANGED <<buffered, types, texts, op, todo, sent, calls>>

TakeCached ==
    /\ Unfinished /\ Property.shown /\ IsTable(Property)
    /\ Cached(Property.type, Top.me.table)
    /\ stack' = Took(Front(stack), Top, types[CacheKey(Property.type, Top.me.table)])
    /\ UNCHANGED <<buffered, types, texts, op, todo, sent, calls>>

Descend ==
    /\ Unfinished /\ Property.shown /\ IsTable(Property)
    /\ ~Cached(Property.type, Top.me.table)
    /\ stack' = Append(stack, Frame(New(Property.type, Property.name, Top.next,
                                        TableName(Property.type, Top.me.table, Property.name)),
                                    Top.me.table))
    /\ UNCHANGED <<buffered, types, texts, op, todo, sent, calls>>

\* An entry is complete: it is cached and becomes a property of the one around it.
Complete ==
    /\ stack # <<>> /\ ~Unfinished
    /\ types' = IF buffered THEN Put(types, CacheKey(Top.me.type, Top.parent), Top.me) ELSE types
    /\ LET rest == Front(stack) IN
       IF rest = <<>>
       THEN stack' = <<>> /\ todo' = <<Visit(Top.me, NoEntry)>>
       ELSE /\ stack' = Took(Front(rest), Last(rest), Top.me)
            /\ UNCHANGED todo
    /\ UNCHANGED <<buffered, texts, op, sent, calls>>

-----------------------------------------------------------------------------
(* The traversal, as far as it decides whose statements are asked for.     *)

\* Members a traversal goes into: all of them in drop; in create none below a
\* table that could not be made; else those the object has a value for.
Visited(e) ==
    CASE op = "drop" -> {Tables(e)}
      [] op = "create" -> {{}, Tables(e)}
      [] OTHER -> SUBSET Tables(e)

Ascending(s) ==
    {o \in [1..Cardinality(s) -> s] : \A i, j \in DOMAIN o : i < j => o[i] < o[j]}

\* An entry's members are visited after its own statement, or before it.
Expand ==
    /\ todo # <<>> /\ Head(todo).open
    /\ LET v    == Head(todo)
           self == <<[v EXCEPT !.open = FALSE]>>
       IN  \E some \in Visited(v.e) : \E order \in Ascending(some) :
             LET members == [k \in DOMAIN order |-> Visit(v.e.props[order[k]], v.e)]
             IN  todo' = (IF op \in {"delete", "drop"} THEN members \o self ELSE self \o members)
                         \o Tail(todo)
    /\ UNCHANGED <<buffered, types, texts, op, stack, sent, calls>>

Send ==
    /\ todo # <<>> /\ ~Head(todo).open
    /\ LET v    == Head(todo)
           text == IF v.e.table \in DOMAIN texts[op] THEN texts[op][v.e.table]
                   ELSE Text(op, v.e, v.parent)
       IN  /\ sent' = [text |-> text, op |-> op, e |-> v.e, parent |-> v.parent]
           /\ texts' = IF buffered THEN [texts EXCEPT ![op] = Put(@, v.e.table, text)] ELSE texts
    /\ todo' = Tail(todo)
    /\ UNCHANGED <<buffered, types, op, stack, calls>>

Next ==
    \/ \E o \in Ops, t \in Roots : Call(o, t)
    \/ SkipProperty \/ TakeField \/ TakeCached \/ Descend \/ Complete
    \/ Expand \/ Send

Spec == Init /\ [][Next]_vars

-----------------------------------------------------------------------------
(* What the classes must be for the properties to hold.                    *)

\* No class has two members of one type that are tables (a pair included).
MembersDiffer ==
    \A c \in Classes : \A i, j \in DOMAIN Members[c] :
        LET m == Members[c][i]  n == Members[c][j]
        IN  m.shown /\ n.shown /\ IsTable(m) /\ m.type = n.type => i = j

\* A table's name ends in the words of one class and one property.
EndsIn(s, t) == Len(t) <= Len(s) /\ \A i \in DOMAIN t : s[Len(s) - Len(t) + i] = t[i]
NamesTell ==
    /\ \A c, d \in Classes \ NoParent : \A p, q \in Names :
         EndsIn(Code(c, p), Code(d, q)) => c = d /\ Norm[p] = Norm[q]
    /\ \A c \in NoParent :
         /\ \A d \in NoParent : Named[c] = Named[d] => c = d
         /\ \A d \in Classes \ NoParent : \A p \in Names : ~EndsIn(Named[c], Code(d, p))

\* Owners of one mind: a class that goes without its parent's name is a member
\* of classes whose rowid is found, or of classes without and by itself.
IsRowid(m) == m.shown /\ ~IsTable(m) /\ m.name = "orm_rowid"
RowidFound(c) ==
    \E i \in DOMAIN Members[c] :
        IsRowid(Members[c][i]) /\ i <= Cardinality({j \in DOMAIN Members[c] : Members[c][j].shown})
Owners(c) ==
    {d \in Classes : \E m \in Range(Members[d]) : m.shown /\ IsTable(m) /\ ClassOf[m.type] = c}
OwnersAgree ==
    \A c \in NoParent : \A d \in Owners(c) :
        /\ \A b \in Owners(c) : RowidFound(b) <=> RowidFound(d)
        /\ c \in {ClassOf[t] : t \in Roots} => ~RowidFound(d)

\* The hidden properties of a class come after the others.
HiddenLast ==
    \A c \in Classes : \A j \in DOMAIN Members[c] : \A i \in 1..j :
        Members[c][j].shown => Members[c][i].shown

-----------------------------------------------------------------------------
(* Correctness.                                                            *)

\* An entry is the one its place needs, whole: at each index that is stored is
\* the property the class has there, in a table named after this one
\* (orm.cpp:1045-1062).  So it is with an entry taken from m_types, derived in
\* an earlier call or for another member (orm.cpp:986-999), if MembersDiffer.
InPlace(e) ==
    \A i \in DOMAIN e.props :
        LET p == e.props[i]
            m == Own(e)[i]
        IN  /\ p.index = i /\ p.type = m.type /\ p.name = m.name
            /\ ~IsField(p) => p.table = TableName(m.type, e.table, m.name)
IsWhole(e) == DOMAIN e.props = {i \in DOMAIN Own(e) : Own(e)[i].shown}
EntriesInPlace ==
    /\ \A k \in DOMAIN types : InPlace(types[k]) /\ IsWhole(types[k])
    /\ \A n \in DOMAIN stack : InPlace(stack[n].me)
    /\ \A n \in DOMAIN todo : InPlace(todo[n].e) /\ IsWhole(todo[n].e)

\* A cached statement is the one that would be written for this entry below
\* this parent, although it is looked up by the table's name only, and classes
\* without their parent's name share a table (orm.cpp:1148-1153).  Such a
\* class's CREATE alone may differ, and only in REFERENCES: it names the owner
\* that asked first.
TextIsItsOwn ==
    sent.op # "none" =>
        LET own == Text(sent.op, sent.e, sent.parent)
        IN  sent.text = IF ClassOf[sent.e.type] \in NoParent
                        THEN [own EXCEPT !.refs = sent.text.refs] ELSE own

\* Create and select name the columns the class has: every property that is
\* stored and is no table, and nothing else (sqliteorm.cpp:105-109, 207-212;
\* README.md:149 on hiding a property, README.md:183 on pairs and maps).
Shown(e) == InTurn(Own(e), {i \in DOMAIN Own(e) : Own(e)[i].shown /\ ~IsTable(Own(e)[i])})
ColumnsAreProperties ==
    sent.op \in {"create", "select"} =>
        /\ Len(sent.text.cols) = Len(Shown(sent.e))
        /\ \A k \in DOMAIN sent.text.cols : sent.text.cols[k].name = Shown(sent.e)[k].name

=============================================================================
