------------------------------ MODULE OrmEngine ------------------------------
(***************************************************************************)
(* The persistence engine of Tiny-qORM: orm::ORM::id_create ... id_drop    *)
(* and the recursive meta_* functions behind them (ORM/orm.cpp), together  *)
(* with the SQL text SQLiteORM generates (ORM/sqliteorm.cpp) and what      *)
(* SQLite does with it.                                                    *)
(*                                                                         *)
(* A class and the classes nested in it form a tree of TableEntry's.       *)
(* Entries are numbered in preorder, 1 is the class handed to the ORM, and *)
(* every entry is one table.  An object is a tree of values, one row each, *)
(* flattened in the order in which meta_insert visits it.                  *)
(*                                                                         *)
(* The granularity is the SQL statement: the engine opens no transaction,  *)
(* so each statement commits by itself and the statements of several       *)
(* clients (threads or processes with a connection each) interleave, fail, *)
(* or are cut off by a crash.                                              *)
(***************************************************************************)
EXTENDS Integers, SequencesExt

CONSTANTS
    Clients,       \* connections to the database file
    Up,            \* Up[e]: the entry that owns entry e, 0 for the root entry
    Kind,          \* "one" (gadget member), "ptr" (pointer), "many" (container)
    Keyed,         \* Keyed[e]: the class of e has an orm_rowid property
    ByRef,         \* ByRef[e]: a rowid written for e reaches the caller's object
    Val,           \* the plain columns of a row, taken together
    DefVal,        \* the same for a default-constructed value
    NewObjects,    \* objects a client builds by itself
    Calls,         \* the operations the clients use
    Faulty,        \* the operations whose statements may fail for no reason
    SelectedOnly,  \* clients update and delete only what they selected, as
                   \* it is but for its columns
    MaxRowid,      \* the largest rowid SQLite hands out (2^63 - 1)
    MaxCalls,      \* bound: calls made by all clients
    MaxFaults      \* bound: statements that fail for no reason

Entries == 1..Len(Up)
Operations == {"create", "insert", "select", "update", "delete", "drop"}
\* Calls that visit a value's children before the value itself, and mutants:
\* with meta_insert, without meta_delete, without meta_drop among them.
PostOrderWithInsert == {"delete", "drop", "insert"}
PostOrderWithoutDelete == {"drop"}
PostOrderWithoutDrop == {"delete"}
PostOrder == {"delete", "drop"}

ASSUME SchemaAssumption ==
    /\ Up \in Seq(Nat) /\ Len(Up) > 0 /\ Up[1] = 0
    /\ \A e \in Entries \ {1} : Up[e] \in 1..(e - 1)
    /\ \A e, k \in Entries : Up[k] < e /\ e < k => Up[e] >= Up[k]
    /\ Kind \in [Entries -> {"one", "ptr", "many"}]
    /\ Keyed \in [Entries -> BOOLEAN]
    /\ ByRef \in [Entries -> BOOLEAN]
    /\ DefVal \in Val

ASSUME BoundAssumption ==
    /\ MaxRowid \in Nat \ {0} /\ MaxCalls \in Nat /\ MaxFaults \in Nat
    /\ Calls \subseteq Operations /\ Faulty \subseteq Operations
    /\ SelectedOnly \in BOOLEAN

-----------------------------------------------------------------------------
(* Values in memory.  A node is one C++ value with its place in the object; *)
(* tok is a history field: the row this value was written to, 0 for none.  *)

Node == [e : Entries, up : Nat, id : 0..MaxRowid, val : Val, tok : Nat]

IsObject(o) ==
    /\ o \in Seq(Node) /\ Len(o) > 0
    /\ o[1].e = 1 /\ o[1].up = 0
    /\ \A i \in DOMAIN o \ {1} : /\ o[i].up \in 1..(i - 1)
                                 /\ Up[o[i].e] = o[o[i].up].e

\* A value is followed by the values nested in it, members of one value stand
\* in the order of their entries.
InOrder(o) ==
    /\ \A i, j \in DOMAIN o : o[j].up < i /\ i < j => o[i].up >= o[j].up
    /\ \A i, j \in DOMAIN o : i < j /\ o[i].up = o[j].up => o[i].e <= o[j].e

\* A gadget member is there exactly once, a pointer member at most once.
IsWhole(o) ==
    \A i \in DOMAIN o, k \in Entries : Up[k] = o[i].e =>
        LET there == {j \in DOMAIN o : o[j].up = i /\ o[j].e = k}
        IN  /\ Kind[k] = "one" => there # {}
            /\ Kind[k] # "many" => \A j, n \in there : j = n

ASSUME ObjectAssumption ==
    \A o \in NewObjects : /\ IsObject(o) /\ InOrder(o) /\ IsWhole(o)
                          /\ \A i \in DOMAIN o : o[i].id = 0 /\ o[i].tok = 0

\* create and drop walk the entries themselves.
Schema == [e \in Entries |-> [e |-> e, up |-> Up[e], id |-> 0, val |-> DefVal, tok |-> 0]]

Subtree(o, i) == {j \in DOMAIN o : j >= i /\ \A k \in (i + 1)..j : o[k].up >= i}

Known(o) == \A i \in DOMAIN o : Keyed[o[i].e] => o[i].id # 0

\* What a program can make of an object it holds: members are added, removed,
\* moved and copied, a copy with the rowid of the original.
Remade(n, o, f) ==
    [i \in DOMAIN n |->
        IF f[i] = 0 THEN n[i] ELSE [n[i] EXCEPT !.id = o[f[i]].id, !.tok = o[f[i]].tok]]

Edits(o) ==
    IF SelectedOnly THEN {x \in {o} : Known(x)}
    ELSE {o} \cup
         UNION {{Remade(n, o, f) :
                    f \in {g \in [DOMAIN n -> 0..Len(o)] :
                             /\ g[1] = 1
                             /\ \A i \in DOMAIN n : g[i] # 0 => o[g[i]].e = n[i].e}} :
                   n \in NewObjects}

-----------------------------------------------------------------------------
VARIABLES
    db,      \* db[e]: does the table of e exist, its AUTOINCREMENT mark, its rows
    call,    \* call[c]: the call client c is in: the nodes left to visit
    held,    \* held[c]: the object the program of c holds between calls
    clock,   \* history: rows written so far, numbers them
    saved,   \* history: objects whose last insert or update met no error
    calls,   \* calls made so far
    faults   \* statements failed so far

vars == <<db, call, held, clock, saved, calls, faults>>

\* A row: its rowid, its parent_orm_rowid column and its plain columns;
\* history fields: its own number and that of the row of its owner.
Row == [id : 0..MaxRowid, pid : 0..MaxRowid, val : Val, tok : Nat, ptok : Nat]
Table == [exists : BOOLEAN, seq : 0..MaxRowid, rows : SUBSET Row]
NoTable == [exists |-> FALSE, seq |-> 0, rows |-> {}]

Idle == [op |-> "create", obj |-> Schema, todo |-> {}, ok |-> TRUE, mine |-> FALSE]
Busy(c) == call[c].todo # {}

-----------------------------------------------------------------------------
(* The statements.                                                         *)

\* The table of e has a parent_ column: its owner's class has a rowid.
Linked(e) == e # 1 /\ Keyed[Up[e]]

\* Mutant: INTEGER PRIMARY KEY alone.
AutoincrementNowhere(e) == FALSE

\* The rowid column of e is INTEGER PRIMARY KEY AUTOINCREMENT.
Autoincrement(e) == Keyed[e]

\* AUTOINCREMENT takes the successor of every rowid there is or has been; a
\* table without it forgets deleted rows, and looks for any free rowid once the
\* largest one is taken.
NextRowids(e) ==
    LET ids  == {r.id : r \in db[e].rows}
        used == {0} \cup ids \cup (IF Autoincrement(e) THEN {db[e].seq} ELSE {})
    IN  IF ~Autoincrement(e) /\ MaxRowid \in ids
        THEN 1..MaxRowid \ ids
        ELSE {n \in 1..MaxRowid : n - 1 \in used /\ \A m \in used : m < n}

\* INSERT INTO e (parent_..., ...) VALUES (...)
Inserted(e, row) ==
    [db EXCEPT ![e].rows = @ \cup {row},
               ![e].seq  = IF Autoincrement(e) THEN row.id ELSE @]

\* The rows the generated WHERE clause of UPDATE and DELETE selects: the
\* clause on the value's own rowid reads "_orm_rowid = _orm_rowid".
Matching(e, pid) ==
    IF Linked(e) THEN {r \in db[e].rows : r.pid = pid} ELSE db[e].rows

\* Mutant: the key constraint is not enforced.
UpdatedAll(e, pid, id, val) ==
    LET hit == Matching(e, pid)
    IN  [db EXCEPT ![e].rows = (@ \ hit) \cup {[r EXCEPT !.id = id, !.val = val] : r \in hit}]

\* Mutant: the first matching row is rewritten, whatever its rowid.
UpdatedFirst(e, pid, id, val) ==
    LET match == Matching(e, pid)
        hit   == {r \in match : \A q \in match : r.id <= q.id}
    IN  [db EXCEPT ![e].rows = (@ \ hit) \cup {[r EXCEPT !.val = val] : r \in hit}]

\* UPDATE OR IGNORE e SET _orm_rowid = id, ... WHERE ...: rows are visited in
\* rowid order and a row that would collide with another is left as it is.
Updated(e, pid, id, val) ==
    LET match == Matching(e, pid)
        hit   == IF \E r \in db[e].rows : r.id = id
                 THEN {r \in match : r.id = id}
                 ELSE {r \in match : \A q \in match : r.id <= q.id}
    IN  [db EXCEPT ![e].rows = (@ \ hit) \cup {[r EXCEPT !.id = id, !.val = val] : r \in hit}]

\* DELETE FROM e WHERE ...
Deleted(e, pid) == [db EXCEPT ![e].rows = @ \ Matching(e, pid)]

-----------------------------------------------------------------------------
(* What select builds.                                                     *)

\* Object s becomes the next child of o.
Hang(o, s) ==
    o \o [j \in DOMAIN s |-> [s[j] EXCEPT !.up = IF j = 1 THEN 1 ELSE @ + Len(o)]]

Graft(o, subs) ==
    LET G[n \in 0..Len(subs)] == IF n = 0 THEN o ELSE Hang(G[n - 1], subs[n])
    IN  G[Len(subs)]

\* A value whose members are given entry by entry.
Assembled(node, parts) ==
    LET A[k \in 0..Len(parts)] == IF k = 0 THEN <<node>> ELSE Graft(A[k - 1], parts[k])
    IN  A[Len(parts)]

\* A value that is default-constructed comes from no row.
NoRow == [id |-> 0, val |-> DefVal, tok |-> 0]

NodeOf(e, r) ==
    [e |-> e, up |-> 0, id |-> IF Keyed[e] THEN r.id ELSE 0, val |-> r.val, tok |-> r.tok]

ByRowid(rows) ==
    [n \in 1..Cardinality(rows) |->
        CHOOSE r \in rows : Cardinality({q \in rows : q.id <= r.id}) = n]

\* Mutant: SELECT without its WHERE clause.
ChildrenOfAll(k, r) == {s \in db[k].rows : Linked(k)}

\* SELECT ... FROM k WHERE parent_orm_rowid = r.id; without a rowid in the
\* owner's class the statement is malformed and yields nothing.
Children(k, r) == {s \in db[k].rows : Linked(k) /\ s.pid = r.id}

\* The rows members of class k are made of, in rowid order: a container takes
\* all that are found, any other member the first.  No value is asked for the
\* members of a default-constructed one, and the queries in lost fail.
Taken(lost, k, r) ==
    IF r = NoRow \/ <<k, r>> \in lost \/ Children(k, r) = {} THEN <<>>
    ELSE IF Kind[k] = "many" THEN ByRowid(Children(k, r))
    ELSE <<ByRowid(Children(k, r))[1]>>

\* A gadget member that gets nothing keeps its default.
Part(k, taken, made) ==
    IF taken = <<>> /\ Kind[k] = "one" THEN <<made[NoRow]>>
    ELSE [x \in DOMAIN taken |-> made[taken[x]]]

\* What becomes of each row of each table when the queries in lost fail: <<k, r>>
\* is the query of table k for the members of row r.
Loaded(lost) ==
    LET L[e \in Entries] ==
          [r \in db[e].rows \cup {NoRow} |->
              Assembled(NodeOf(e, r),
                        [k \in Entries |-> IF Up[k] = e THEN Part(k, Taken(lost, k, r), L[k])
                                           ELSE <<>>])]
    IN  L

LoadWithout(lost) == Loaded(lost)[1]
Load == LoadWithout({})

-----------------------------------------------------------------------------
Init ==
    /\ \E made \in BOOLEAN : db = [e \in Entries |-> [NoTable EXCEPT !.exists = made]]
    /\ call = [c \in Clients |-> Idle]
    /\ held = [c \in Clients |-> <<>>]
    /\ clock = 0
    /\ saved = {}
    /\ calls = 0
    /\ faults = 0

(* A client calls the ORM.                                                 *)

Free(c, op) == ~Busy(c) /\ op \in Calls /\ calls < MaxCalls

\* mine: the object handed over is the one the program goes on holding.
Enter(c, op, o, mine) ==
    /\ Free(c, op)
    /\ call' = [call EXCEPT ![c] = [op |-> op, obj |-> o, todo |-> DOMAIN o, ok |-> TRUE,
                                   mine |-> mine]]
    /\ held' = IF mine THEN [held EXCEPT ![c] = o] ELSE held
    /\ calls' = calls + 1
    /\ UNCHANGED <<db, clock, faults>>

CallCreate(c) == Enter(c, "create", Schema, FALSE) /\ UNCHANGED saved

CallDrop(c) == Enter(c, "drop", Schema, FALSE) /\ saved' = {}

\* The program holds the new object from now on, or keeps the one it has.
CallInsert(c) ==
    \E o \in NewObjects, mine \in {TRUE, held[c] = <<>>} :
        Enter(c, "insert", o, mine) /\ UNCHANGED saved

\* The program changes the object it holds and hands it back.
CallUpdate(c) ==
    /\ Free(c, "update") /\ IsObject(held[c])
    /\ \E h \in Edits(held[c]) : \E i \in DOMAIN h, v \in Val :
         LET o == [h EXCEPT ![i].val = v]
         IN  /\ Enter(c, "update", o, TRUE)
             /\ saved' = {s \in saved : s[1].tok # o[1].tok}

CallDelete(c) ==
    /\ Free(c, "delete") /\ IsObject(held[c])
    /\ \E o \in Edits(held[c]) :
         /\ Enter(c, "delete", o, TRUE)
         /\ saved' = {s \in saved : s[1].tok # o[1].tok}

\* The outer cursor keeps its read lock while the nested queries run, so the
\* whole select reads one state; the program keeps one of the results.
Select(c) ==
    /\ Free(c, "select")
    /\ \E r \in db[1].rows : held' = [held EXCEPT ![c] = Load[r]]
    /\ calls' = calls + 1
    /\ UNCHANGED <<db, call, clock, saved, faults>>

\* A nested query fails: the error is logged, the list stays empty and what the
\* program gets looks like an object whose member was never stored.
FailSelect(c) ==
    /\ Free(c, "select") /\ "select" \in Faulty /\ faults < MaxFaults
    /\ \E k \in Entries \ {1} : \E q \in db[Up[k]].rows, r \in db[1].rows :
         held' = [held EXCEPT ![c] = LoadWithout({<<k, q>>})[r]]
    /\ calls' = calls + 1
    /\ faults' = faults + 1
    /\ UNCHANGED <<db, call, clock, saved>>

-----------------------------------------------------------------------------
(* One statement of the call a client is in.                               *)

\* The node whose statement is next: owners first, or last.
Turn(c) ==
    LET ready == {i \in call[c].todo : call[c].op \in PostOrder =>
                     \A j \in call[c].todo : call[c].obj[j].up # i}
    IN  {i \in ready : \A j \in ready : i <= j}

Entry(c, i) == call[c].obj[i].e

\* Mutant: the rowid of the last row inserted instead of the owner's.
ParentIdLastInsert(c, i) ==
    IF Linked(Entry(c, i)) THEN call[c].obj[i - 1].id ELSE 0

\* The rowid the parent_ column is compared with or set to.
ParentId(c, i) ==
    IF Linked(Entry(c, i)) THEN call[c].obj[call[c].obj[i].up].id ELSE 0

\* A rowid is written into node i of an object.
Written(o, i, id, tok) == [o EXCEPT ![i].id = id, ![i].tok = tok]

\* The call goes on with object o, the nodes in done behind it.
Advance(c, done, o, ok) ==
    LET now == [call[c] EXCEPT !.obj = o, !.todo = @ \ done, !.ok = @ /\ ok]
    IN  /\ call' = [call EXCEPT ![c] = IF now.todo = {} THEN Idle ELSE now]
        /\ saved' = IF now.op \in {"insert", "update"} /\ now.todo = {} /\ now.ok /\ o[1].tok # 0
                    THEN saved \cup {o} ELSE saved

CreateTable(c) ==
    \E i \in Turn(c) :
        /\ call[c].op = "create"
        /\ db' = [db EXCEPT ![Entry(c, i)].exists = TRUE]
        /\ Advance(c, {i}, call[c].obj, TRUE)
        /\ UNCHANGED <<held, clock, calls, faults>>

DropTable(c) ==
    \E i \in Turn(c) :
        /\ call[c].op = "drop"
        /\ db' = [db EXCEPT ![Entry(c, i)] = NoTable]
        /\ Advance(c, {i}, call[c].obj, TRUE)
        /\ UNCHANGED <<held, clock, calls, faults>>

InsertRow(c) ==
    \E i \in Turn(c) :
        LET o == call[c].obj
            e == o[i].e
        IN  /\ call[c].op = "insert" /\ db[e].exists
            /\ \E id \in NextRowids(e) :
                 LET key == IF Keyed[e] THEN id ELSE 0 IN
                 /\ db' = Inserted(e, [id |-> id, pid |-> ParentId(c, i), val |-> o[i].val,
                                       tok |-> clock + 1,
                                       ptok |-> IF Linked(e) THEN o[o[i].up].tok ELSE 0])
                 /\ Advance(c, {i}, Written(o, i, key, clock + 1), TRUE)
                 /\ held' = IF ByRef[e] /\ call[c].mine
                            THEN [held EXCEPT ![c] = Written(@, i, key, clock + 1)] ELSE held
            /\ clock' = clock + 1
            /\ UNCHANGED <<calls, faults>>

UpdateRows(c) ==
    \E i \in Turn(c) :
        LET n == call[c].obj[i]
        IN  /\ call[c].op = "update" /\ db[n.e].exists /\ Keyed[n.e]
            /\ db' = Updated(n.e, ParentId(c, i), n.id, n.val)
            /\ Advance(c, {i}, call[c].obj, TRUE)
            /\ UNCHANGED <<held, clock, calls, faults>>

DeleteRows(c) ==
    \E i \in Turn(c) :
        LET e == Entry(c, i)
        IN  /\ call[c].op = "delete" /\ db[e].exists /\ (Keyed[e] \/ Linked(e))
            /\ db' = Deleted(e, ParentId(c, i))
            /\ Advance(c, {i}, call[c].obj, TRUE)
            /\ UNCHANGED <<held, clock, calls, faults>>

\* The statement cannot succeed: no table, no rowid left, malformed SQL.
Hopeless(c, i) ==
    LET e == Entry(c, i) IN
    CASE call[c].op = "insert" -> ~db[e].exists \/ NextRowids(e) = {}
      [] call[c].op = "update" -> ~db[e].exists \/ ~Keyed[e]
      [] call[c].op = "delete" -> ~db[e].exists \/ ~(Keyed[e] \/ Linked(e))
      [] OTHER -> FALSE

Mishap(c) == call[c].op \in Faulty /\ faults < MaxFaults

\* Mutant: create carries on below a table it could not make.
FailStatementGoOn(c) ==
    \E i \in Turn(c) :
        /\ call[c].op # "insert"
        /\ Hopeless(c, i) \/ Mishap(c)
        /\ Advance(c, {i}, call[c].obj, FALSE)
        /\ faults' = faults + 1
        /\ UNCHANGED <<db, held, clock, calls>>

\* create gives up on the subtree; the others log the error and carry on.
FailStatement(c) ==
    \E i \in Turn(c) :
        /\ call[c].op # "insert"
        /\ Hopeless(c, i) \/ Mishap(c)
        /\ Advance(c, IF call[c].op = "create" THEN Subtree(call[c].obj, i) ELSE {i},
                   call[c].obj, FALSE)
        /\ faults' = faults + 1
        /\ UNCHANGED <<db, held, clock, calls>>

\* Mutant: the connection's last rowid is taken for that of the failed INSERT.
FailInsertStaleId(c) ==
    \E i \in Turn(c) :
        LET o == call[c].obj
        IN  /\ call[c].op = "insert"
            /\ Hopeless(c, i) \/ Mishap(c)
            /\ Advance(c, {i}, Written(o, i, IF i = 1 THEN 0 ELSE o[i - 1].id, 0), FALSE)
            /\ faults' = faults + 1
            /\ UNCHANGED <<db, held, clock, calls>>

\* Mutant: an INSERT without a table is waited for.
FailInsertOnlyMishap(c) ==
    \E i \in Turn(c) :
        /\ call[c].op = "insert" /\ Mishap(c)
        /\ Advance(c, {i}, call[c].obj, FALSE)
        /\ faults' = faults + 1
        /\ UNCHANGED <<db, held, clock, calls>>

\* lastInsertId() of a failed INSERT is invalid and reads as 0.
FailInsert(c) ==
    \E i \in Turn(c) :
        LET o == call[c].obj
        IN  /\ call[c].op = "insert"
            /\ Hopeless(c, i) \/ Mishap(c)
            /\ Advance(c, {i}, Written(o, i, 0, 0), FALSE)
            /\ held' = IF ByRef[o[i].e] /\ call[c].mine
                       THEN [held EXCEPT ![c] = Written(@, i, 0, 0)] ELSE held
            /\ faults' = faults + 1
            /\ UNCHANGED <<db, clock, calls>>

\* The process dies between two statements.
Crash(c) ==
    /\ Busy(c)
    /\ call' = [call EXCEPT ![c] = Idle]
    /\ held' = [held EXCEPT ![c] = <<>>]
    /\ UNCHANGED <<db, clock, saved, calls, faults>>

-----------------------------------------------------------------------------
Call(c) == CallCreate(c) \/ CallDrop(c) \/ CallInsert(c) \/ CallUpdate(c) \/ CallDelete(c)
             \/ Select(c) \/ FailSelect(c)

Statement(c) ==
    CreateTable(c) \/ DropTable(c) \/ InsertRow(c) \/ UpdateRows(c) \/ DeleteRows(c)
      \/ FailStatement(c) \/ FailInsert(c)

Next == \E c \in Clients : Call(c) \/ Statement(c) \/ Crash(c)

Spec == Init /\ [][Next]_vars

\* A client that is in a call runs on by itself: no statement waits for
\* another client for longer than SQLite's busy timeout.
FairSpec == Spec /\ \A c \in Clients : WF_vars(Statement(c))

-----------------------------------------------------------------------------
(* Correctness.                                                            *)

DbOK ==
    /\ db \in [Entries -> Table]
    /\ \A e \in Entries : \A r, q \in db[e].rows : r.id = q.id => r = q
    /\ \A e \in Entries : ~db[e].exists => db[e] = NoTable

CallRecord ==
    [op : Operations, obj : Seq(Node), todo : SUBSET Nat, ok : BOOLEAN, mine : BOOLEAN]
CallOK ==
    /\ call \in [Clients -> CallRecord]
    /\ \A c \in Clients : IsObject(call[c].obj) /\ call[c].todo \subseteq DOMAIN call[c].obj

\* The store and the calls under way keep their form: ids stay inside SQLite's
\* range, a rowid identifies a row whatever UPDATE writes over it, a dropped
\* table leaves nothing behind, a call walks one well-formed object
\* (meta_create ... meta_drop, orm.cpp:1142-1612).
TypeOK ==
    /\ DbOK /\ CallOK
    /\ DOMAIN held = Clients
    /\ clock \in Nat /\ calls \in 0..MaxCalls /\ faults \in Nat

\* A member that is not a container is read from the first row found for its
\* owner (orm.cpp:489, 1340-1386): there is never a second one, although other
\* inserts, failed and cut off ones among them, wrote to the same table.
MembersSingle ==
    \A e \in Entries : Linked(e) /\ Kind[e] # "many" =>
        \A q \in db[Up[e]].rows : \A r, s \in db[e].rows :
            r.pid = q.id /\ s.pid = q.id => r = s

\* Every value in an object the program holds was inserted as a member of the
\* value it is found in, with the columns it was inserted with, whichever of
\* the queries for it failed.  Of a member inserted through a copy of its owner
\* the program sees the rowid but not the owner's (meta_select,
\* orm.cpp:1278-1335).
MembersAreOwn ==
    \A c \in Clients : \A i \in DOMAIN held[c] :
        LET n == held[c][i] IN
        n.tok # 0 => \E r \in db[n.e].rows :
            /\ r.tok = n.tok /\ r.val = n.val
            /\ n.up # 0 /\ Linked(n.e) /\ (ByRef[n.e] => ByRef[Up[n.e]]) =>
                 r.ptok = held[c][n.up].tok

\* The rowid join between a child table and its owner's table pairs a row with
\* the row of the value that owned it when it was inserted and with no other,
\* even when the owner's INSERT failed and its rowid was read back as 0
\* (meta_insert, orm.cpp:1244-1277).
LinkIntegrity ==
    \A e \in Entries : Linked(e) =>
        \A r \in db[e].rows, q \in db[Up[e]].rows : q.id = r.pid <=> q.tok = r.ptok

RowsNumbered ==
    \A e \in Entries : \A r \in db[e].rows :
        /\ r.tok \in 1..clock /\ r.ptok \in 0..clock
        /\ Keyed[e] => r.id \in 1..db[e].seq
        /\ Linked(e) => r.pid <= db[Up[e]].seq

NodesPaired ==
    \A c \in Clients : call[c].op = "insert" =>
        \A i \in DOMAIN call[c].obj \ call[c].todo :
            LET n == call[c].obj[i] IN
            Keyed[n.e] => /\ n.id <= db[n.e].seq /\ n.tok <= clock
                          /\ \A q \in db[n.e].rows : q.id = n.id <=> q.tok = n.tok

\* Why LinkIntegrity holds whatever is inserted and deleted: the AUTOINCREMENT
\* mark bounds every rowid a row carries, as its own or as its owner's, and a
\* value whose INSERT is done carries the rowid of its row, or one that no row
\* has and none will get (meta_insert, orm.cpp:1255-1277).
LinkInv == TypeOK /\ LinkIntegrity /\ RowsNumbered /\ NodesPaired

\* sqliteorm.cpp:86-87 declares parent_... "REFERENCES parent (...) NOT NULL":
\* a child row has its owner's row.
ReferencesHold ==
    \A e \in Entries : Linked(e) =>
        \A r \in db[e].rows : \E q \in db[Up[e]].rows : q.id = r.pid

\* Without a failed statement that reference holds: crashes between statements
\* and other clients' inserts cannot orphan a row (meta_insert).
NoOrphans == faults = 0 => ReferencesHold

\* What was inserted or updated without an error is what select gives back:
\* the same tree, in the same order, with the same values, whatever the other
\* clients insert meanwhile (test2.cpp inserts, updates, selects and compares).
Shape(o) == [i \in DOMAIN o |-> [e |-> o[i].e, up |-> o[i].up, val |-> o[i].val]]
RoundTrip ==
    \A s \in saved : \E r \in db[1].rows : r.tok = s[1].tok /\ Shape(Load[r]) = Shape(s)

\* INSERT never hands out a rowid that some client still holds, so what the
\* client knows under that rowid is its own row or gone (AUTOINCREMENT,
\* sqliteorm.cpp:113).  That is all AUTOINCREMENT does: an UPDATE for
\* an object whose row is gone still writes the old rowid over another row, as
\* its WHERE clause holds for all (sqliteorm.cpp:286).
FreshRowids ==
    [][\A e \in Entries : Keyed[e] =>
         \A r \in db'[e].rows \ db[e].rows : r.tok > clock =>
            \A c \in Clients : held[c] # <<>> =>
               \A i \in DOMAIN held[c] : held[c][i].e = e => held[c][i].id # r.id]_vars

\* delete removes a value's children before the value itself: when the DELETE
\* for a node is done and none before it has failed, no row of a table the
\* object has members in names the node as its owner.  Members the program took
\* out of the object keep their rows (meta_delete, orm.cpp:1508-1516 before
\* 1517-1583).
DeleteLeavesNoChild ==
    [][\A c \in Clients : DeleteRows(c) /\ call[c].ok =>
         \A i \in Turn(c), j \in DOMAIN call[c].obj :
            LET k == Entry(c, j) IN
            call[c].obj[j].up = i /\ Linked(k) =>
               \A r \in db'[k].rows : r.pid # call[c].obj[i].id]_vars

\* A child table never exists without the table it REFERENCES: create stops
\* below a table it could not make, drop starts at the leaves, and a crash in
\* the middle leaves nothing hanging (orm.cpp:1157-1169, 1592-1596).
TablesNested ==
    \A e \in Entries \ {1} : db[e].exists => db[Up[e]].exists

\* The tables implement a growing forest of values (ObjectForest) while nothing
\* is deleted or updated: the owner of a row is the row of the owner's table
\* its parent column names, and no later statement changes it.
OwnerToks(e, r) ==
    IF Linked(e) THEN {q.tok : q \in {p \in db[Up[e]].rows : p.id = r.pid}} ELSE {}
Forest == INSTANCE ObjectForest WITH
    Classes <- Entries,
    OwnerOf <- [e \in Entries |-> IF Linked(e) THEN Up[e] ELSE e],
    nodes   <- UNION {{[tok |-> r.tok, e |-> e, owner |-> OwnerToks(e, r)] : r \in db[e].rows} :
                         e \in Entries},
    count   <- clock
ImplementsForest == Forest!FSpec

\* A call returns, however many of its statements fail.
CallsReturn == \A c \in Clients : Busy(c) ~> ~Busy(c)

=============================================================================
