# Tiny-qORM in TLA+

A verification project for Tiny-qORM, the object-relational mapper for Qt in `src/`: TLA+ modules that
model it, TLC runs that check them on small instances, and theorems TLAPS proves about them.

## 1. Inventory

| component | state it keeps | operations | correct when |
|---|---|---|---|
| **Persistence engine**: `ORM::id_create` ... `id_drop`, `ORM_Impl::meta_*` (`ORM/orm.cpp:902-968, 1142-1612`) | none of its own between calls; during a call, how far a traversal of the class tree or of an object has come | create, drop, insert, select, update, delete | what was stored comes back; a child row belongs to the row of its owner and to no other; a call touches the rows of its object only |
| **SQL generation**: `SQLiteORM::generate_*` (`ORM/sqliteorm.cpp`) | none | one text per operation and table | the text is well formed and its WHERE clause selects what the operation means |
| **SQLite** (vendored) | tables, rows, AUTOINCREMENT marks | statements | external: modelled as the code uses it |
| **Values**: `Impl::read`, `write`, `makeStoreQVariant`, `for_each` (`orm.cpp:463-653`, `orm.h:880-918`) | the objects of the program | get and set a property, build a value, visit a member | a member is visited once per value it holds and gets what was read for it |
| **Entry derivation**: `queryData`, `queryDataRecursive` (`orm.cpp:984-1140`) | the cache `m_types` | the tree of `TableEntry`s of a class | the same tree with the cache and without; an entry is that of its own member |
| **Query text caches** (`orm.h:82-87`) | six maps from table name to text | filled by the first call | the cached text is the one that would be generated |
| **Type registry**: `orm::Config`, `Register`, `RegisterEx`, `orm::Containers` (`orm.cpp:79-289, 380-458, 668-772, 786-885`; `orm.h:322-820`) | static maps: pointer stubs by type, types stored in containers, pairs, ignored, primitive, text and raw types | register a class or container, declare and withdraw a type, construct an ORM; ask how to treat a type | a class is treated alike in every form a member can hold it in, whatever was registered when; a withdrawal undoes the declaration |
| **Primitive codec**: `primitiveToString`, `stringToPrimitive` (`orm.h:682-698`) | none | list of numbers to text and back | the second trip loses nothing the first did not |
| **Table model, table manager** (`orm_table_model.h`) | the rows of a model, the models by name | insert, at, take, insertRows, moveRows, removeRows, setData, data | what the views are told is what is done; insert fills the row it announced; a move loses no row |
| **Query builder** (`orm_query_builder.h`) | - | declarations without a definition | not used |

*Interaction.* A call on the public API (`orm.h:91-107`) wraps the object in a `QVariant` (a gadget is
copied, a `QObject` is passed by pointer), derives the entry tree and hands both to a recursive `meta_*`
function. Each level of the recursion generates one statement, runs it on the named `QSqlDatabase`
connection and visits the members that are tables of their own; the rowid read back after an INSERT
travels through the value (`write`) into the `:parent_orm_rowid` parameter of the members' statements
(`read`). Nothing is called back. The database file is the only state several threads or processes share,
each with a connection of its own. The type registries are static: every ORM of the process asks them, and
entry derivation and values depend on what the program has registered by then. The table model stands
alone: it holds shared pointers to objects and calls back into the program through Qt's signals, in the
middle of its own operations.

*What is hard.* (1) There is no transaction anywhere: every statement commits by itself, so the calls of
several clients interleave statement by statement, and a crash or an error leaves a call half done.
(2) An error is logged and the traversal goes on. (3) The own-rowid clauses of UPDATE and DELETE lack the
`:` of a bound variable (`sqliteorm.cpp:286, 331`), so they hold for every row: what a call touches
depends on the parent clause, on `OR IGNORE` and on uniqueness of the key. (4) Rowids live on in the
program's objects after their rows are gone. (5) The caches are keyed by less than they depend on.
(6) Registrations and declarations come in any order, before and after the first ORM, and each enters what
it knows under several type ids. (7) The table model announces one thing and does another, and slots run
between the two.
`PROJECT.json` lists these hazards at their lines with the properties that cover them.

## 2. Modules

| module | what it is |
|---|---|
| `OrmEngine` | the engine, the statements it sends and what SQLite does with them; its properties |
| `ObjectForest` | abstract specification: the tables are a forest that only grows |
| `MCOrmEngine` | instances for TLC, cut down from `test/test2.h` |
| `TableEntries` | from a class to its tables and statements: entry derivation, column lists, both caches |
| `MCTableEntries` | classes for TLC |
| `TypeRegistry` | what types are registered as, and the questions the ORM asks about a type |
| `PropertyValues` | on top of it, a plain property's way into a column and back; `MCPropertyValues` has the types for TLC |
| `TableModel` | the rows of a `table_model`, its operations and a view; `MCTableModel` compares its swap with `std::swap_ranges` as it is written |
| `OrmEngineProofs` | `TypeOK` and `TablesNested` of the engine |
| `OrmLinkProofs` | `LinkInv`, `LinkIntegrity`, on `OrmEngineProofs` |
| `OrmForestProofs` | `NoOrphans`, `ImplementsForest`, on `OrmLinkProofs` |
| `OrmLoadProofs` | what select builds (lemmas), `FreshRowids`, on `OrmEngineProofs` |
| `OrmRoundTripProofs` | `MembersSingle`, `MembersAreOwn`, `RoundTrip`, `LinkIntegrity` under updates, `DeleteLeavesNoChild`, on `OrmLinkProofs` and `OrmLoadProofs` |
| `ValueProofs` | the registry's invariants, `TreatedAlike`, `ValueReturns` and `TripIsStable`, for the composition `PropertyValues` |
| `TableModelProofs` | `TypeOK`, `ViewTrue`, `InsertsOwnRow`, `MoveKeepsRows` of the table model |
| `TableEntriesProofs` | `EntriesInPlace`, `TextIsItsOwn`, `ColumnsAreProperties` |

`PropertyValues` EXTENDS `TypeRegistry` and interleaves the registry's actions with storing and fetching;
`OrmEngine` INSTANCEs `ObjectForest` under a refinement mapping. `OrmEngine` and `TableEntries` meet in the
entry tree, see below.

### `OrmEngine` and the code

*Schema.* A class and the classes nested in it form the tree of `TableEntry`s, numbered in preorder: `Up`
is the owner, `Kind` tells gadget members, pointers and containers apart, `Keyed` says whether the class
has an `orm_rowid`, `ByRef` whether a rowid written during insert reaches the caller's object. Any such
tree is an instance; the constants' assumptions say no more than that.

*Objects.* An object is the sequence of its values in the order `meta_insert` visits them, each with the
position of its owner (`up`), its rowid (`id`, 0 before the first insert) and `val`, all its plain columns
taken together. `tok` is a history field: the number of the row the value was written to.

*State.* `db` is the database file: per table whether it exists, its `sqlite_sequence` mark and its rows
(rowid, `parent_` column, plain columns, and two history fields). `call[c]` is the traversal client `c` is
in: the operation, the object, the nodes whose statement is still to come, whether all went well so
far, and whether the object is the one the program goes on holding (`mine`); `todo = {}` is "not in a
call". `held[c]` is the object the program keeps. `saved`, `clock`, `calls` and `faults` are history and
bounds.

*What a program does with its objects.* An insert is of a new object, which the program holds from then on, or
not: then it goes on holding the old one, which may be stale by the time it hands it back. Before an
update or a delete it may change the object: give a value other columns, add members with no rowid yet, remove
members, move them or copy them, rowid included (`Edits`, `Remade`: each node of the changed object is new or
comes from one of the old object's). The root stays the root, another object is another call's. With
`SelectedOnly` the program hands back only what it holds, as it is but for the columns of one value, and only
when every rowid in it is known.

*Actions.*

| action | code |
|---|---|
| `CallCreate`, `CallDrop`, `CallInsert`, `CallUpdate`, `CallDelete` | `id_create`, `id_drop`, `id_insert`, `id_update`, `id_delete` with the template of the public API in front of it |
| `Select` | `id_select`, `meta_select`, and the program keeping one result |
| `FailSelect` | the same with one nested query that fails: its member is empty or has its default, and nobody is told |
| `CreateTable`, `DropTable` | one level of `meta_create`, `meta_drop` |
| `InsertRow`, `FailInsert` | one level of `meta_insert`, with the rowid read back and written into the value |
| `UpdateRows`, `DeleteRows` | one level of `meta_update`, `meta_delete` |
| `FailStatement` | a statement of the others that fails: create gives up on the subtree, the rest goes on |
| `Crash` | the process dies between two statements |

`Turn` is the order of the recursion: owners before members in create, insert and update, after them in
delete and drop. `Matching` is the WHERE clause as generated, with the vacuous own-rowid clause;
`Updated` is `UPDATE OR IGNORE ... SET _orm_rowid = id` over it: if some row has that rowid, only that
row can be rewritten, and if none has it the first matching row is renumbered and the others collide
with it. `NextRowids` is SQLite's choice (`OP_NewRowid`) with and without AUTOINCREMENT, full range included. A failed
INSERT reads its rowid back as 0 (`QSqlQuery::lastInsertId` of a failed query is invalid).
What select builds is put together like the code does it: `Taken` are the rows a query for a member yields
and the code keeps, `Hang` makes an object the next member of another, `Assembled` goes through a value's
members entry by entry, and `Loaded` does so for every table, deepest first. A gadget member without a row
keeps its default (`Part`, `NoRow`).
`Hopeless` are the statements that cannot succeed (no table, no rowid left, malformed text for classes
without rowid), `Mishap` those that fail for a reason of SQLite's own: locked longer than the busy
timeout, disk full.

*Abstractions.* Every entry is a table of its own. A select is one atomic read: the cursor of the outer
query keeps its read lock while the nested queries run; at most one of these fails (`LoadWithout`). What is inserted is new: a
held object is not inserted again, nor one with members that have rowids. Classes have at least one
plain column besides rowid and members. The `has_primary_key` branches are left out: only enum-typed
properties get the flag.

### `TableEntries` and the code

`OrmEngine` starts from the tree of tables that is meant; `TableEntries` is how the ORM gets there.
A call derives the entry of its root type: `stack` is the recursion of `queryDataRecursive`, one frame per
entry under construction, and each step handles one property: left out (`SkipProperty`), a column
(`TakeField`), an entry from `m_types` (`TakeCached`) or one to derive first (`Descend`, `Complete`). Then
`Expand` and `Send` go through the entries in the order of the operation and look up or generate the text
for each. `buffered` is `m_bufferization`: no constructor sets it, so `Init` leaves it open. `Indexed` and
`Iterated` are the two ways the `generate_*` functions walk the properties.

*Names.* A table's name is the sequence of its words. `Named` gives a class's: its own name or its
`ORM_CLASSINFO_TABLE_NAME`, taken whole for a class in `NoParent` and normalized otherwise; `Norm` gives the
normalized name of a property. `TableName` puts them behind the parent's as `generate_table_name` does.
Nothing in the code keeps two tables from having one name, and both caches go by the name. So the model
allows it, and `NamesTell` says what names must do for the caches to be right: a name ends in the
words of one class and one property only.

*Statements.* A text has its table, its columns in order, whether the parent's rowid is one of them, and for
create the table `REFERENCES` names. The parent's rowid is looked for by a loop to `count()` over the parent's
entry (`FindsRowid`, `sqliteorm.cpp:81-92`), which misses it behind a gap. An INSERT leaves out the column
with AUTOINCREMENT, which is the rowid of a class and not that of a pair (`Inserted`, `orm.cpp:1076-1085`).

*Pairs.* `Pairs` are the classes that stand for a `QMap`, `QHash` or pair: `<<key, value, orm_rowid>>`. The code
stores the entries of such a class under the entry's own `property_index` and not under the loop's
(`Slot`), which makes a difference for an entry from the cache: with the flag set, a map from a class to
itself has one entry for both, its value never gets one, and a loop to `count()` stops before the rowid. In a class, two members of one type share an entry, and with it the first one's
index and table. `MembersDiffer` excludes both.

Left out: that reading the parent's `properties[i]` (`orm.cpp:1259`, `sqliteorm.cpp:84`) fills gaps in its map
with nameless columns, which matters only for classes with gaps, whose SELECT is malformed before
(`HiddenProperty`). Classes that contain themselves are excluded: the derivation does not end for them.

The two modules share no variables: an entry tree does not change while a call runs, and `OrmEngine` holds
for every tree. Where `EntriesInPlace` holds, the tree `OrmEngine` is given is the one the code works on.

### `TypeRegistry`, `PropertyValues` and the code

A type is a shape and a name, `<<"T*", "Car">>`. A `PointerStub` is the set of its type ids that are not 0;
`addPointerStub` (`Enter`) copies it under all of them but the `QPointer`'s, so the registry holds several
copies of what should be one stub. `Register`, `RegisterEx`, `RegisterSequential` and `RegisterPairs` are the
functions a program registers with, `Declare` and `Withdraw` the eight of `orm::Config`, `Construct` the
declarations the first ORM makes (`Builtin`). `isGadget` ... `meta_object` are the functions of the same name
and `Layout` is what `queryDataRecursive` makes of their answers. `registered`, `smart` and `wanted` are
history: what the program asked for. The four sequential templates are one, `QHash` is `QMap`, and the
std containers of `orm_templates.h` (a list of types) are entered by the same functions.

`PropertyValues` follows a value through `Read` and `Encode` (`Impl::read` and the bindings of
`meta_insert`), `Column` (the driver), `Decode` (`meta_select`) and `Write` (`Impl::write`, or the conversion
when a pair is put together). A `QVariant` is its type and its data. The program stores an object, fetches
it, stores what it fetched, and registers or declares between any two of these; `steady` and `again`
remember whether it did. It stores only once an ORM has been constructed, as it needs one for that. Properties of one object do not influence each other, so one object with one
property of each kind stands for all. Enumerations, null values and properties of type `QVariant` are left
out, and so is what happens to a `QObject` member's parent.

### `TableModel` and the code

`rows` is `m_data`, a row a shared pointer to an object of `T`; all columns of an object are one datum.
`shown` is a view: it applies what `begin...Rows` and `dataChanged` announce to its picture, and reads a row
when it likes (`Paint`). `insert` announces a row through `insertRows` and assigns to it when the slots have
returned: it is two actions, `Insert` and `Assign`, with a stack `inserting` between them, and everything in
between is what slots do, further inserts included. `taken`, `behind`, `astray` and `disturbed` are history:
each is set by a call that changes rows or data and does not say so. `AssignAt` is the reference `at`
returns, `PropertyChanged` the program setting a property of the object itself.

Left out as undefined behaviour: reading a row that is still Null, moving past the end, a move that
`beginMoveRows` refuses (an assertion of Qt's), an `insert` whose row is gone. `T` is a `QObject` class; for a
gadget the two `insert` functions have one signature and the template does not compile. Headers and single
columns are left out, and so is `table_manager`: `manager<T>` does not compile when instantiated, and
`addManager` is about ownership in Qt's object tree.

## 3. Properties and runs

Bounds: `MaxCalls` calls in all, `MaxFaults` statements that fail for no reason, `MaxRowid` rowids per
table. The `Family` schema (`Ur { Dad { Car* }, QList<Brother> }`) has a gadget member, a pointer and a
container, three levels and a class with two members; the two objects put a node below the root's first
child and two values into one container, so that "the owner" differs from "the previous row" and "the
first row" from "the row". The `Pair` schema (owner and container) is the smallest with a rowid join and
siblings; it leaves room for all four operations of two clients. `Lifecycle` takes the rowid from Family's brothers, so that
SQLite numbers their rows without AUTOINCREMENT.

| run | instance | checks |
|---|---|---|
| `Grow` | 2 clients, Family, insert and select, one failed INSERT or nested query, crashes, 3 calls | `MembersSingle`, `LinkIntegrity`, `LinkInv`, `MembersAreOwn`, `NoOrphans`, `RoundTrip`, `ImplementsForest` |
| `Update` | 1 client, Family, insert, select, update, a failed UPDATE, 5 calls | `RoundTrip`, `CallsReturn` |
| `Lifecycle` | 1 client, Family with unkeyed brothers, create, insert, select, delete (of changed and stale objects, too), drop, any failed statement but DROP, crashes, 3 rowids, 4 calls | `LinkIntegrity`, `TablesNested`, `DeleteLeavesNoChild`, `CallsReturn` |
| `Shared` | 2 clients, Pair, insert, select, update and delete (of changed and stale objects, too), a failed INSERT, 3 rowids, 4 calls | `TypeOK`, `FreshRowids` |
| `Entries` | Ur with a Mom without rowid (a Hat) and a container of Dads (a table name of two words, a Hat and a Car*), a Car in one table for all owners with a map from texts to Hats and a hidden property; roots Ur and Dad, all six operations, 2 calls | `EntriesInPlace`, `TextIsItsOwn`, `ColumnsAreProperties` |
| `Values` | a gadget and a QObject class, five properties (number, list of numbers, text type, raw type, type without converters), 3 registrations or declarations, 2 trips | `RegistryTypeOK`, `PointersFollow`, `TreatedAlike`, `RemovalsErrOneWay`, `ValueReturns`, `TripIsStable` |
| `Views` | 2 objects, 4 rows, inserts nested twice, 4 calls | `TypeOK`, `ViewTrue`, `InsertsOwnRow`, `MoveKeepsRows` |
| `HiddenProperty` | violation: a class with a hidden property in the middle | `ColumnsAreProperties` |
| `Stranded` | violation: insert and delete, objects with and without members | `ReferencesHold` |
| `UpdateInserted` | violation: insert, update | `RoundTrip` |
| `References` | violation: insert, one INSERT fails | `ReferencesHold` |
| `RawValues` | violation: one trip through a row | `RawReturns` |

- `LinkIntegrity`: the join of a child table with its owner's table by rowid is the relation "was inserted
  as a member of". It holds under interleaving, crashes and failed INSERTs, because a failed INSERT reads
  back as 0 and no row has rowid 0. `LinkInv` is its inductive strengthening. Two clients and three calls
  give an insert that runs while another one is half done, and a third one into what both left behind. In
  `Lifecycle` it is checked with deletes and drops of one client: AUTOINCREMENT marks start over with a
  table, and the order of drop is what keeps a crash's leftovers out of the next object.
- `NoOrphans`: without failed statements every child row has its owner's row, even in a crash's leavings.
- `RoundTrip`: an object whose last insert or update met no error is selected as it was. In `Update` this
  is the hard direction of the missing `:`: an UPDATE over all siblings hits the right one only through
  `OR IGNORE` and the key. Five calls allow two objects, a select and two updates.
- `ImplementsForest`: while rows are only added, the tables implement `ObjectForest`: a row's owner is
  decided when it is inserted and no later statement of anybody changes it.
- `MembersAreOwn`: an object selected while a nested query failed has parts missing and none that were
  inserted for another object: the program may get less than was stored, never a mixture.
- `MembersSingle`: a member that is not a container is made from the first row its query finds (`orm.cpp:489`);
  there is no second, although inserts interleave, are cut off between an owner's INSERT and its member's, and
  fail. If a failed INSERT read back another row's rowid instead of 0, its members would be that row's too.
- `TablesNested`: no child table without its owner's table, through crashes in create and drop. With one
  client only: two clients that create and drop the same tables at once do break it.
- `DeleteLeavesNoChild`: when a value's DELETE is done, and none before it failed, no row of a table the object
  has members in names the value as its owner. It says no more than that: a member the program took out of
  the object keeps its row, and members of other objects, whose owners the same DELETE takes, are left
  behind (`Stranded`).
- `FreshRowids`: INSERT never gives a rowid that a client's object of that class carries, objects held on to after
  their deletion among them; the three rowids fill up, so the run meets `SQLITE_FULL`. An UPDATE does write
  such a rowid over another row, if the row that had it is gone: its WHERE clause holds for every row, and the
  first one is renumbered.
- `TypeOK`: with the key constraint: a rowid identifies a row although UPDATE rewrites rowids.
- `EntriesInPlace`: the cache is keyed by type and parent table, so an entry fetched from it was derived
  in another place; it must be the one this place needs, with its index and its table, complete. Two
  calls with different roots, a class below three owners and a table for all owners, whose members are asked
  for once per owner, give hits of every kind. Two
  members of one type are excluded (`MembersDiffer`): they share the first one's entry, index included.
- `TextIsItsOwn`: the text a table's name finds is the one that would be written for this entry below this
  parent. A class that goes without its parent's name has one text for all its owners, which is right as long
  as all of them have rowids, or none (`OwnersAgree`, which the classes of the run meet), but for one thing:
  its CREATE may `REFERENCES` the owner that asked first.
- `ColumnsAreProperties`: create and select name the stored plain properties and nothing else. Hidden
  properties at the end do no harm; `HiddenProperty` shows one that does.
- `PointersFollow`, `TreatedAlike`: in whatever order a class is registered, plainly, with smart pointers or
  again, every type of it leads to one stub, and a member gets the class's table by value, by pointer, by a
  shared pointer and in a registered list. Three calls allow two registrations and one of another class, or
  a container before its class. Two forms are not among these although `README.md` of the repository names them: a
  weak pointer is not ignored (line 180) but a table without columns, and a list of shared pointers (line
  183) is a table of indices and values.
- `RemovalsErrOneWay`: `removeIgnoredType` takes the type out of the primitive ones instead. What is ignored
  stays ignored and what is primitive may cease to be, but nothing is stored that should not be.
- `ValueReturns`: a property of a type a column can keep (`Keeps`) comes back, in a class and in a pair, with any
  declarations in any order; each number of a list as `QString::number` writes it, with six digits. It says
  nothing of raw values in a class, which are lost against line 182 (`RawReturns`: serialised twice, undone
  once), and of an empty list, which comes back as one zero.
- `TripIsStable`: what came back once comes back unchanged the second time.
- `ViewTrue`, with `TypeOK`'s count of rows: a view shows what is there although slots call the model in the
  middle of an insert, as long as rows are not taken, replaced or moved other than up by a divisor of the
  block's length (the one case in which swapping ranges is moving; `MCTableModel` checks that it is the only
  one, for up to seven rows). Four rows and four calls allow a filled row on each side of a block of two.
- `InsertsOwnRow`: insert comes back to its own empty row unless a slot disturbed it.
- `MoveKeepsRows`: `moveRows` loses and duplicates nothing, overlapping ranges included.
- `CallsReturn`: a call that is under way returns, whatever fails; with a missing table, with a class
  without rowid, and when a table's mark has come to the end of its range (three rowids, four inserts).

`CHECK_DEADLOCK FALSE` everywhere: the system may stop, when all calls the bound allows are made.

*Fairness.* `FairSpec` has weak fairness of `Statement(c)` for every client: the traversal is a plain
recursive function, the thread runs on, and a statement ends, with a result or, after the busy timeout,
with an error. Nothing is assumed of the calls a program makes.

*Findings.* Each violation run is one, quoted in `PROJECT.json`.

- `HiddenProperty`: hiding a property as `README.md:149` advises gives a malformed SELECT.
- `Stranded`: `delet` of one object empties the root table, against `README.md:3`, and leaves the members
  of the other objects without their owners' rows, against the `REFERENCES` of `sqliteorm.cpp:86-87`.
- `UpdateInserted`: insert followed by update of the same object, as in `test/test2.cpp:372-373`, renumbers
  the rows of its members to 0, and the later ones of a list write over the first.
- `References`: children of a failed INSERT are stored under rowid 0, against the same `REFERENCES ... NOT NULL`.
- `RawValues`: a property of a raw type, which `README.md:178` and `182` list as supported, comes back as its default.

Some more the code does against its documentation follow from the same lines, or are bounded by a hypothesis, and have
no run of their own: an UPDATE for an object whose row is gone, the entry that two members of one type
share (`orm.h:60`), the map from a class to itself, weak pointers, lists of shared pointers, empty lists.
They are listed as hazards with the property that goes up to them.

## 4. Proofs

Everything here holds for every value of the constants, that is for any schema, any classes and types, any
number of clients, objects, rows and calls; assumptions beyond the modules' own are named.

- `OrmEngineProofs!TypeCorrect`: `Spec => []TypeOK`. `TypeOK` is inductive by itself. The work is in three
  places: `NextRowids` yields a rowid no row has (`RowidIsNew`); `Updated` keeps the key unique because at
  most one row changes and only to a rowid no other row has (`UpdateKeepsDbOK`); and writing a rowid back
  keeps an object an object (`WriteBack`, `AdvanceKeepsCallOK`).
- `OrmEngineProofs!SchemaStaysNested`: `Spec => []TablesNested` for one client whose DROPs do not fail. The
  invariant says how far a traversal has come: what create still has to make hangs below a table that is
  there or is to be made first (`CreateOnItsWay`), what drop has left behind is gone (`DropOnItsWay`). A
  failed CREATE takes its whole subtree out of the traversal (`SubtreeIsClosed`).
- `OrmLinkProofs!LinksStayPaired` and `LinksCorrect`: if the clients only create, insert, select and delete,
  `Spec => []LinkInv`, and with it `LinkIntegrity`. `LinkIntegrity` is not inductive: a new owner row could
  take a rowid a child row or a half-inserted object already points to. `LinkInv` adds that the AUTOINCREMENT
  mark of the owner's table bounds every parent rowid (`RowsNumbered`), and that a finished node in memory
  carries the rowid of its own row, or one that no row has (`NodesPaired`). A new row gets a rowid above all of
  these, and a deleted one takes nothing with it that they mention.
- `OrmLinkProofs!LinksOutliveDrops`: `LinkIntegrity` for one client that also drops, in any order of calls, with
  crashes in the middle, as long as no DROP fails and nothing is updated. A dropped table starts its numbers
  over, so what it leaves behind matters: by the schema invariant nothing hangs below a table that is gone.
  With several clients a drop does break the links (section 5).
- `OrmRoundTripProofs!LinksSurviveUpdates`: `LinkIntegrity` for any number of clients that create, insert, select
  and update, if only objects that carry their rowids are updated. `RootInv` adds to `LinkInv` that every rowid
  in an object is 0 or that of a row of its table (`AllCarried` of `Numbers`), so that an UPDATE for an object
  that has all its rowids finds a row with the one it sets, and renumbers none. Without `SelectedOnly` this fails, which
  is the finding of `UpdateInserted`.
- `OrmForestProofs!NobodyOrphaned`, `ForestImplemented`, for clients that create, insert and select. `NoOrphans`
  needs, besides `LinkInv`, that every node an insert has dealt with has its row stored as long as no statement
  has failed (`DoneStored`): an owner's row is there before its children's turn. `ForestImplemented` is a step
  simulation: an INSERT maps to the abstract step that adds a node below the owner its parent rowid names, which
  by `LinkInv` is a row that is there or none; every other step of these calls leaves the abstract state as it is.
- `OrmLoadProofs` says in lemmas what `Loaded` builds, for the theorems on it. The induction is over the
  entries, as a set without a least counterexample and not as a theorem with an operator parameter, and the
  fixpoint of each recursive function is proved where it is used. `Grown` says of a value made of entries
  1..k that it is an object in order, each node of it made from a row, and `Nested` that the members of a node
  are made of the rows its query yields, in rowid order.
- `OrmLoadProofs!HeldRowidsStay`: `FreshRowids` if nobody drops. `MarkInv`: all rowids in tables, calls and held
  objects lie up to the AUTOINCREMENT mark of their table, also those an UPDATE writes.
- `OrmRoundTripProofs!MembersStaySingle`: `MembersSingle` for clients that create, insert and select. `SingleInv` says
  it of the rows' true owners (two rows of one table inserted for one owner are one, unless it is a container's), and
  relates the objects under way to the rows: what is not yet stored of a member has no row (`Lone`), and the
  owners in two clients' objects are different ones (`Apart`). By `LinkIntegrity` the join by rowid follows.
- `OrmRoundTripProofs!MembersCorrect`: `MembersAreOwn`, also for a select one of whose queries failed, while clients create,
  insert and select. By `Nested` a member's row names the rowid of its owner's, by `LinkIntegrity` that row is
  its owner's. For what is held after an insert, `UnderWay` relates the program's object and the copy in the ORM.
- `OrmRoundTripProofs!RoundTripCorrect`: `RoundTrip` for clients that create, insert and select, whatever is
  interleaved, fails or crashes, for schemas in which classes with members have a rowid (a class without one
  cannot get its members back). `TreeInv` says of a call that met no error, and of every saved object, that it
  is `Settled`: each node done has a row with its columns, filed under its owner's, all rows filed there are
  its members, and rows follow each other in rowid order like their nodes; and of two of them that they are
  `Apart`. The saved object and the one select builds are then lists of the same tree, owners first and
  members by entry and rowid, and there is only one such list (the first place where two differ is impossible).
- `OrmRoundTripProofs!DeletesChildrenFirst`: `DeleteLeavesNoChild` for one client, with every call, failure and crash,
  and whatever the program did to the object. `DeleteInv`: as long as no statement of the delete has failed, no
  row of a table whose node is done is filed under the rowid of that node's owner.
- `ValueProofs!RegistriesKeepForm`, `RegistryCorrect`, `RemovalsMiss` and `RegisteredAlike`: `PointersFollow` is
  inductive with the types, as it says exactly which stub is where; `TreatedAlike` follows from it and from
  `ListsFollow`, which says the same of the containers, by cases on the shape. All are proved for the
  composition `PropertyValues`, whose own steps leave the registry alone.
- `ValueProofs!ValuesReturn` and `TripsAreStable`: `Spec => []ValueReturns` and `Spec => []TripIsStable`. `ValueInv` says that a
  row is what the declarations of its time make of the object (`RowFollows`, with `PlainColumn`: whatever is registered, a plain
  property is a column unless it is ignored), that what came back under them is what survives, and that an
  object that came back is its own survivor. `TripSurvives` is the trip itself, by the four ways a type can be
  declared and the three ways the driver can store it; `StreamReturns` that one `QDataStream` undoes one,
  `ListReturns` what printing and parsing a list of numbers does, `ReprintedOnce` that doing it again does no more.
- `TableModelProofs!ModelKeepsForm`, `ViewsAreTrue`, `InsertsAreOwn`, `MovesLoseNothing`: `IInv` is `TypeOK`, `ViewTrue`, `InsertsOwnRow` and
  `FramesNested`: the row of an insert that waits is before those of the deeper ones, or it was disturbed. The lemmas say what
  `Inserted`, `Removed`, `Moved` and `Swapped` do to each index, and that an announced move is the swap when
  `MovesAsTold` says so. For `MovesLoseNothing`, row i of what `Swapped` gives comes from row `From(i)`: the rows
  passed keep their distances modulo the length of the way, so `From` is a permutation, and the rows that hold
  a pointer before and after correspond one to one.
- `TableEntriesProofs!EntriesStayInPlace`: `Spec => []EntriesInPlace`. Entries are trees and the property speaks
  of every level; instead of induction over trees, which is out of reach, the invariant (`EntriesInv`) names a
  set that is closed under properties and holds every entry that is complete, the cached ones and those still to
  be visited among them. The core is why the cache does no harm although its key is only a type and the owner's
  table: the name of that table determines the owner's class (`TablesNameTheirClass`, also for tables without
  their parent's name), so the index and the name under which an entry was stored are those of a property there
  (`Stored`), and a property not yet passed of the same type is the same property. `MembersDiffer` and
  `NamesTell` are assumed; without the first, two members share an entry.
- `TableEntriesProofs!TextsStayOwn`: `Spec => []TextIsItsOwn` if, besides, `OwnersAgree`. A statement depends on the entry
  and on whether its owner has a rowid. Two entries with one table have the same class, hence, entry by entry
  and column by column, the same columns; and their owners have one table, hence one class, as the table's
  name begins with theirs, unless the class goes without it, where the condition speaks: its owners all have
  rowids, or none has; none, if the class is a root as well. So the text stored under that name
  serves both (`TextsKnown`). The condition is needed: when the first owner has no rowid and a later one has,
  the cached INSERT has no `parent_` column for the second.
- `TableEntriesProofs!ColumnsStayProperties`: `Spec => []ColumnsAreProperties` if `MembersDiffer`, `NamesTell` and `HiddenLast`. By `EntriesInv` the
  indices of a complete entry are those of the shown properties, which are then 1 to their number, so that the
  loop to `count()` meets each once. The run `HiddenProperty` is what happens without `HiddenLast`.

The assumptions of the modules are `SchemaAssumption` (a preorder tree), `BoundAssumption`, `ObjectAssumption`
(new objects are whole and well formed, listed in the order `meta_insert` visits them, and carry no rowid),
`RegistryAssumption`, `ValuesAssumption` (properties other than texts and bytes, which a column holds as they are;
a number once printed is printed the same again), `ModelAssumption` and `MembersAssumption` (members form
sequences, each is shown or hidden, the class of a pair or map is key, value and a plain rowid,
`orm.cpp:1073-1099`, and every class has a name). `FamilyFits` says that the classes of `Entries` meet what the
theorems assume. TLC evaluates them in every run.

*Model-checked only.* `CallsReturn` is liveness under fairness, out of the prover's reach. `RoundTrip` with
updates (`Update`) is checked and not proved: `RoundTripCorrect` leaves updates out, as `UpdateInserted` shows
that they need a condition on the objects, and the induction would have to follow `OR IGNORE` through rows that
collide with each other. For `LinkIntegrity`, several clients that both delete and update are checked in no
run and proved in no theorem. The violation runs are counterexamples by nature. No module declares a
RECURSIVE operator; the recursive functions are proved to satisfy their equations one by one, as sets without
a least counterexample, since induction theorems with operator parameters cannot be used.

## 5. What is not modelled

- *A drop by one client during another's insert.* No property of the links holds then, as the marks start
  over: the code does nothing against it, and the runs with two clients leave drop out.
- *Tables shared by several owners* (`ORM_CLASSINFO_TABLE_NAME_NO_PARENT`) in the engine: `TableEntries` has
  their entries and statements, the rows of such a table are not modelled.
- *Classes that contain themselves.* The derivation recurses without end.
- *`id_select_where` and `id_get`*: they return an empty `QVariant`. The *query builder*: declarations nobody
  calls. *Debug output, tests, build files.*
- *The wording of SQL*: column types, constraints other than the rowid's and the parent's, quoting;
  `normalize` itself, as names are given in words.
- *Enumerations, null values, `QVariant` properties, `QObject` ownership; headers and single columns of the
  table model; `table_manager`*: see section 2.
- *The inside of SQLite and Qt.* `src/sqlite/` is the amalgamated library, 98% of the repository's lines, and
  is modelled only as the statements the ORM sends exercise it (`NextRowids`, `Updated`, autocommit,
  failures). `orm_templates.h` instantiates the registration functions for the std containers.
