--------------------------- MODULE OrmForestProofs ---------------------------
(***************************************************************************)
(* What follows from LinkInv while clients create, insert and select: the  *)
(* tables implement ObjectForest, and without a failed statement no row is *)
(* left without its owner's.                                               *)
(***************************************************************************)
EXTENDS OrmLinkProofs

-----------------------------------------------------------------------------
(* What a step does to rows and calls.                                     *)

\* The row an insert adds, and the value it is written back to.
Added(c, i, row, w) ==
    LET o == call[c].obj
        e == o[i].e
    IN  /\ i \in Turn(c) /\ call[c].op = "insert"
        /\ e \in Entries
        /\ row \in Row /\ row \notin db[e].rows
        /\ row.tok = clock + 1 /\ row.pid = ParentId(c, i)
        /\ clock' = clock + 1
        /\ db'[e].rows = db[e].rows \cup {row}
        /\ \A k \in Entries \ {e} : db'[k].rows = db[k].rows
        /\ IsObject(w) /\ DOMAIN w = DOMAIN o
        /\ w[i].id = (IF Keyed[e] THEN row.id ELSE 0) /\ w[i].e = e
        /\ \A j \in DOMAIN w : j # i => w[j] = o[j]
        /\ Advance(c, {i}, w, TRUE)

LEMMA InsertAdds ==
    ASSUME LinkInv, LinkInv', NEW c \in Clients, InsertRow(c)
    PROVE  \E i, row, w : Added(c, i, row, w)
  <1> DEFINE o == call[c].obj
  <1> DEFINE NewRow(i, id) == [id |-> id, pid |-> ParentId(c, i), val |-> o[i].val, tok |-> clock + 1,
                             ptok |-> IF Linked(o[i].e) THEN o[o[i].up].tok ELSE 0]
  <1>0. PICK i \in Turn(c) :
          \E id \in NextRowids(o[i].e) :
             LET key == IF Keyed[o[i].e] THEN id ELSE 0
             IN  /\ db' = Inserted(o[i].e, NewRow(i, id))
                 /\ Advance(c, {i}, Written(o, i, key, clock + 1), TRUE)
        BY DEF InsertRow
  <1>1. PICK id \in NextRowids(o[i].e) :
          LET key == IF Keyed[o[i].e] THEN id ELSE 0
          IN  /\ db' = Inserted(o[i].e, NewRow(i, id))
              /\ Advance(c, {i}, Written(o, i, key, clock + 1), TRUE)
        BY <1>0
  <1> DEFINE e    == o[i].e
             key  == IF Keyed[e] THEN id ELSE 0
             row  == NewRow(i, id)
             w    == Written(o, i, key, clock + 1)
  <1>2. call[c].op = "insert" /\ clock' = clock + 1 /\ clock \in Nat
        BY DEF InsertRow, LinkInv, TypeOK
  <1>3. TypeOK /\ DbOK /\ CallOK /\ DbOK'
        BY DEF LinkInv, TypeOK
  <1>4. IsObject(o) /\ i \in DOMAIN o /\ e \in Entries /\ o[i] \in Node
        BY <1>3, TurnIsLeft DEF CallOK
  <1>5. id \in 1..MaxRowid
        BY <1>3, <1>4, RowidIsNew
  <1>6. key \in 0..MaxRowid /\ clock + 1 \in Nat
        BY <1>2, <1>5, BoundAssumption
  <1>7. /\ IsObject(w) /\ DOMAIN w = DOMAIN o
        /\ w[i].id = key /\ w[i].e = e
        /\ \A j \in DOMAIN w : j # i => w[j] = o[j]
        BY <1>4, <1>6, WriteBack
  <1>8. Advance(c, {i}, w, TRUE) /\ db' = Inserted(e, row)
        BY <1>1
  <1>9. row.tok = clock + 1 /\ row.id = id /\ row.pid = ParentId(c, i)
        OBVIOUS
  <1> HIDE DEF row, w
  <1>10. /\ db'[e].rows = db[e].rows \cup {row}
         /\ \A k \in Entries \ {e} : db'[k].rows = db[k].rows
    <2>1. db \in [Entries -> Table]
          BY <1>3 DEF DbOK
    <2>2. db' = [db EXCEPT ![e].rows = @ \cup {row},
                           ![e].seq  = IF Autoincrement(e) THEN row.id ELSE @]
          BY <1>8 DEF Inserted
    <2> QED BY <1>4, <2>1, <2>2 DEF Table
  <1>11. row \in Row
    <2>1. db'[e] \in Table
          BY <1>3, <1>4 DEF DbOK
    <2>2. db'[e].rows \subseteq Row
          BY <2>1 DEF Table
    <2> QED BY <1>10, <2>2
  <1>12. row \notin db[e].rows
    <2>1. \A r \in db[e].rows : r.tok \in 1..clock
          BY <1>4 DEF LinkInv, RowsNumbered
    <2> QED BY <1>2, <1>9, <2>1
  <1> QED BY <1>2, <1>4, <1>7, <1>8, <1>9, <1>10, <1>11, <1>12 DEF Added, key

\* Every other step leaves the rows and the clock alone.
LEMMA OthersKeepRows ==
    ASSUME Calls \subseteq {"create", "insert", "select"}, LinkInv, Growing,
           [Next]_vars, \A c \in Clients : ~InsertRow(c)
    PROVE  clock' = clock /\ \A e \in Entries : db'[e].rows = db[e].rows
  <1>1. CASE UNCHANGED vars
        BY <1>1 DEF vars
  <1>2. ASSUME NEW c \in Clients, Call(c)
        PROVE  db' = db /\ clock' = clock
        BY <1>2 DEF Call, CallCreate, CallDrop, CallInsert, CallUpdate, CallDelete, Select,
                      FailSelect, Enter
  <1>3. ASSUME NEW c \in Clients, Crash(c)
        PROVE  db' = db /\ clock' = clock
        BY <1>3 DEF Crash
  <1>4. ASSUME NEW c \in Clients, FailInsert(c) \/ FailStatement(c)
        PROVE  db' = db /\ clock' = clock
        BY <1>4 DEF FailInsert, FailStatement
  <1>5. ASSUME NEW c \in Clients, CreateTable(c)
        PROVE  clock' = clock /\ \A e \in Entries : db'[e].rows = db[e].rows
    <2>1. PICK i \in Turn(c) : db' = [db EXCEPT ![Entry(c, i)].exists = TRUE]
          BY <1>5 DEF CreateTable
    <2>2. db \in [Entries -> Table] /\ clock' = clock
          BY <1>5 DEF LinkInv, TypeOK, DbOK, CreateTable
    <2> QED BY <2>1, <2>2 DEF Table
  <1>6. ASSUME NEW c \in Clients
        PROVE  ~DropTable(c) /\ ~UpdateRows(c) /\ ~DeleteRows(c)
        BY DEF Growing, OnlyCalls, DropTable, UpdateRows, DeleteRows
  <1> QED BY <1>1, <1>2, <1>3, <1>4, <1>5, <1>6 DEF Next, Statement

-----------------------------------------------------------------------------
(* No orphans.                                                             *)

\* Without a failed statement, a value that is done has its row.
DoneStored ==
    faults = 0 =>
        \A c \in Clients : call[c].op = "insert" =>
            \A i \in DOMAIN call[c].obj \ call[c].todo :
                LET n == call[c].obj[i]
                IN  Keyed[n.e] => \E q \in db[n.e].rows : q.id = n.id

OrphanInv == LinkInv /\ Growing /\ NoOrphans /\ DoneStored

LEMMA InitOrphanInv == Init => OrphanInv
  <1> SUFFICES ASSUME Init PROVE OrphanInv
      OBVIOUS
  <1>1. LinkInv /\ Growing
        BY InitGrowing
  <1>2. \A e \in Entries : db[e].rows = {}
        BY DEF Init, NoTable
  <1>3. \A c \in Clients : call[c].op = "create"
        BY DEF Init, Idle
  <1> QED BY <1>1, <1>2, <1>3 DEF OrphanInv, NoOrphans, ReferencesHold, DoneStored

LEMMA InsertKeepsOrphanInv ==
    ASSUME OrphanInv, LinkInv', Growing', NEW c \in Clients, InsertRow(c)
    PROVE  OrphanInv'
  <1>0. PICK i \in Turn(c) : \E row, w : Added(c, i, row, w)
        BY InsertAdds DEF OrphanInv, Added
  <1>1. PICK row, w : Added(c, i, row, w)
        BY <1>0
  <1> DEFINE o == call[c].obj
             e == o[i].e
  <1>2. /\ i \in Turn(c) /\ call[c].op = "insert" /\ e \in Entries
        /\ row.pid = ParentId(c, i)
        /\ db'[e].rows = db[e].rows \cup {row}
        /\ \A k \in Entries \ {e} : db'[k].rows = db[k].rows
        /\ w[i].e = e /\ (Keyed[e] => w[i].id = row.id)
        /\ TypeOK /\ faults' = faults
        BY <1>1 DEF Added, OrphanInv, LinkInv, InsertRow
  <1>3. \A k \in Entries : db[k].rows \subseteq db'[k].rows
        BY <1>2
  <1>4. NoOrphans'
    <2> SUFFICES ASSUME faults = 0, NEW k \in Entries, Linked(k), NEW r \in db'[k].rows
                 PROVE  \E q \in db'[Up[k]].rows : q.id = r.pid
        BY <1>2 DEF NoOrphans, ReferencesHold, Linked
    <2>1. Up[k] \in Entries /\ Up[k] # k /\ Keyed[Up[k]] = TRUE
          BY OwnerIsAnotherEntry
    <2>2. CASE r \in db[k].rows
      <3>1. \E q \in db[Up[k]].rows : q.id = r.pid
            BY <2>2 DEF OrphanInv, NoOrphans, ReferencesHold
      <3> QED BY <1>3, <2>1, <3>1
    <2>3. CASE r \notin db[k].rows
      <3>1. k = e /\ r = row
            BY <1>2, <2>3
      <3> DEFINE u == o[i].up
      <3>2. u \in DOMAIN o \ call[c].todo /\ o[u].e = Up[e] /\ ParentId(c, i) = o[u].id
            BY <1>2, <3>1, OwnerIsDone
      <3>3. \E q \in db[Up[e]].rows : q.id = o[u].id
            BY <1>2, <2>1, <3>1, <3>2 DEF OrphanInv, DoneStored
      <3> QED BY <1>2, <1>3, <2>1, <3>1, <3>2, <3>3
    <2> QED BY <2>2, <2>3
  <1>5. DoneStored'
    <2> SUFFICES ASSUME faults = 0, NEW d \in Clients, call'[d].op = "insert",
                        NEW j \in DOMAIN call'[d].obj \ call'[d].todo, Keyed[call'[d].obj[j].e]
                 PROVE  \E q \in db'[call'[d].obj[j].e].rows : q.id = call'[d].obj[j].id
        BY <1>2 DEF DoneStored
    <2>1. \/ d = c /\ j = i /\ call'[d].obj[j] = w[i]
          \/ /\ call[d].op = "insert" /\ j \in DOMAIN call[d].obj \ call[d].todo
             /\ call'[d].obj[j] = call[d].obj[j]
      <3>1. /\ IsObject(w) /\ DOMAIN w = DOMAIN o
            /\ \A x \in DOMAIN w : x # i => w[x] = o[x]
            /\ \E ok \in BOOLEAN : Advance(c, {i}, w, ok)
            BY <1>1 DEF Added
      <3>2. i \in Turn(c) /\ TypeOK /\ call[c].op = "insert"
            BY <1>2
      <3> QED BY <3>1, <3>2, DoneNodes
    <2>2. CASE call'[d].obj[j] = w[i]
          BY <1>2, <2>2
    <2>3. CASE /\ call[d].op = "insert" /\ j \in DOMAIN call[d].obj \ call[d].todo
               /\ call'[d].obj[j] = call[d].obj[j]
      <3>1. \E q \in db[call[d].obj[j].e].rows : q.id = call[d].obj[j].id
            BY <2>3 DEF OrphanInv, DoneStored
      <3>2. call[d].obj[j].e \in Entries
        <4>1. IsObject(call[d].obj) /\ j \in DOMAIN call[d].obj
              BY <1>2, <2>3 DEF TypeOK, CallOK
        <4>2. call[d].obj[j] \in Node
              BY <4>1 DEF IsObject
        <4> QED BY <4>2 DEF Node
      <3> QED BY <1>3, <2>3, <3>1, <3>2
    <2> QED BY <2>1, <2>2, <2>3
  <1> QED BY <1>4, <1>5 DEF OrphanInv

\* A failed INSERT ends the case the invariant is about; the others leave rows
\* and the values that are done alone, or end a call.
LEMMA OthersKeepOrphanInv ==
    ASSUME Calls \subseteq {"create", "insert", "select"}, OrphanInv, LinkInv', Growing',
           [Next]_vars, \A c \in Clients : ~InsertRow(c)
    PROVE  OrphanInv'
  <1>1. \A e \in Entries : db'[e].rows = db[e].rows
        BY OthersKeepRows DEF OrphanInv
  <1>2. faults \in Nat /\ TypeOK
        BY DEF OrphanInv, LinkInv, TypeOK
  <1>3. faults' = 0 =>
          /\ faults = 0
          /\ \A d \in Clients : \/ call'[d] = call[d]
                               \/ call'[d].op = "create"
                               \/ call'[d].todo = DOMAIN call'[d].obj
    <2>0. call \in [Clients -> CallRecord]
          BY <1>2 DEF TypeOK, CallOK
    <2>1. CASE UNCHANGED vars
          BY <2>1 DEF vars
    <2>2. ASSUME NEW c \in Clients, Call(c), ~FailSelect(c)
          PROVE  /\ faults' = faults
                 /\ \A d \in Clients : call'[d] = call[d] \/ call'[d].todo = DOMAIN call'[d].obj
      <3>1. ASSUME NEW op, NEW x, NEW mine, Enter(c, op, x, mine)
            PROVE  /\ faults' = faults
                   /\ \A d \in Clients : call'[d] = call[d] \/ call'[d].todo = DOMAIN call'[d].obj
            BY <2>0, <3>1 DEF Enter
      <3>2. CASE Select(c)
            BY <3>2 DEF Select
      <3> QED BY <2>2, <3>1, <3>2 DEF Call, CallCreate, CallDrop, CallInsert, CallUpdate, CallDelete
    <2>3. ASSUME NEW c \in Clients, FailInsert(c) \/ FailStatement(c) \/ FailSelect(c)
          PROVE  faults' # 0
      <3>1. faults' = faults + 1
        <4>1. CASE FailInsert(c)
              BY <4>1 DEF FailInsert
        <4>2. CASE FailStatement(c)
              BY <4>2 DEF FailStatement
        <4>3. CASE FailSelect(c)
              BY <4>3 DEF FailSelect
        <4> QED BY <2>3, <4>1, <4>2, <4>3
      <3> QED BY <1>2, <3>1
    <2>4. ASSUME NEW c \in Clients, CreateTable(c)
          PROVE  faults' = faults /\ \A d \in Clients : call'[d] = call[d] \/ call'[d].op = "create"
      <3>1. faults' = faults /\ call[c].op = "create" /\ \E i : Advance(c, {i}, call[c].obj, TRUE)
            BY <2>4 DEF CreateTable
      <3>2. PICK i : Advance(c, {i}, call[c].obj, TRUE)
            BY <3>1
      <3> DEFINE now == [call[c] EXCEPT !.obj = call[c].obj, !.todo = @ \ {i}, !.ok = @ /\ TRUE]
      <3>3. call' = [call EXCEPT ![c] = IF now.todo = {} THEN Idle ELSE now]
            BY <3>2 DEF Advance
      <3>4. now.op = "create" /\ Idle.op = "create"
            BY <2>0, <3>1 DEF Idle
      <3> HIDE DEF now
      <3> QED BY <2>0, <3>1, <3>3, <3>4
    <2>5. ASSUME NEW c \in Clients, Crash(c)
          PROVE  faults' = faults /\ \A d \in Clients : call'[d] = call[d] \/ call'[d].op = "create"
          BY <2>0, <2>5 DEF Crash, Idle
    <2>6. ASSUME NEW c \in Clients
          PROVE  ~DropTable(c) /\ ~UpdateRows(c) /\ ~DeleteRows(c)
          BY DEF OrphanInv, Growing, OnlyCalls, DropTable, UpdateRows, DeleteRows
    <2> QED BY <2>1, <2>2, <2>3, <2>4, <2>5, <2>6 DEF Next, Statement
  <1>4. NoOrphans'
    <2>1. \A e \in Entries : Linked(e) => Up[e] \in Entries
          BY OwnerIsAnotherEntry
    <2> QED BY <1>1, <1>3, <2>1 DEF OrphanInv, NoOrphans, ReferencesHold, Linked
  <1>5. DoneStored'
    <2> SUFFICES ASSUME faults' = 0, NEW d \in Clients, call'[d].op = "insert",
                        NEW j \in DOMAIN call'[d].obj \ call'[d].todo, Keyed[call'[d].obj[j].e]
                 PROVE  \E q \in db'[call'[d].obj[j].e].rows : q.id = call'[d].obj[j].id
        BY DEF DoneStored
    <2>1. faults = 0 /\ call'[d] = call[d]
          BY <1>3
    <2>2. call[d].obj[j].e \in Entries
      <3>1. IsObject(call[d].obj) /\ j \in DOMAIN call[d].obj
            BY <1>2, <2>1 DEF TypeOK, CallOK
      <3>2. call[d].obj[j] \in Node
            BY <3>1 DEF IsObject
      <3> QED BY <3>2 DEF Node
    <2> QED BY <1>1, <2>1, <2>2 DEF OrphanInv, DoneStored
  <1> QED BY <1>4, <1>5 DEF OrphanInv

\* Whatever interleaves or crashes, a child row has its owner's row as long as
\* no statement failed (OrmEngine!NoOrphans; meta_insert, orm.cpp:1244-1277).
THEOREM NobodyOrphaned ==
    ASSUME Calls \subseteq {"create", "insert", "select"}
    PROVE  Spec => []NoOrphans
  <1>1. OrphanInv => NoOrphans
        BY DEF OrphanInv
  <1>2. OrphanInv /\ [Next]_vars => OrphanInv'
    <2> SUFFICES ASSUME OrphanInv, [Next]_vars PROVE OrphanInv'
        OBVIOUS
    <2>1. LinkInv' /\ Growing'
          BY NextGrowing DEF OrphanInv
    <2>2. CASE \E c \in Clients : InsertRow(c)
          BY <2>1, <2>2, InsertKeepsOrphanInv
    <2>3. CASE \A c \in Clients : ~InsertRow(c)
          BY <2>1, <2>3, OthersKeepOrphanInv
    <2> QED BY <2>2, <2>3
  <1> QED BY <1>1, <1>2, InitOrphanInv, PTL DEF Spec

-----------------------------------------------------------------------------
(* The forest.                                                             *)

StoredNode(e, r) == [tok |-> r.tok, e |-> e, owner |-> OwnerToks(e, r)]
Nodes == UNION {{StoredNode(e, r) : r \in db[e].rows} : e \in Entries}

LEMMA NodesAre ==
    \A n : n \in Nodes <=> \E e \in Entries : \E r \in db[e].rows : n = StoredNode(e, r)
BY DEF Nodes

\* A new row changes nobody's owner.
LEMMA OwnersStay ==
    ASSUME LinkInv, LinkInv', NEW c \in Clients, NEW i, NEW row, NEW w, Added(c, i, row, w),
           NEW k \in Entries, NEW r \in db[k].rows
    PROVE  OwnerToks(k, r)' = OwnerToks(k, r)
  <1> DEFINE e == call[c].obj[i].e
  <1>1. CASE ~Linked(k)
        BY <1>1 DEF OwnerToks, Linked
  <1>2. CASE Linked(k)
    <2>1. Up[k] \in Entries /\ Up[k] # k
          BY <1>2, OwnerIsAnotherEntry
    <2>2. r \in db'[k].rows
          BY DEF Added
    <2>3. {p \in db'[Up[k]].rows : p.id = r.pid} = {p \in db[Up[k]].rows : p.id = r.pid}
      <3>1. CASE Up[k] # e
            BY <2>1, <3>1 DEF Added
      <3>2. CASE Up[k] = e
        <4>1. db'[Up[k]].rows = db[Up[k]].rows \cup {row} /\ row.tok = clock + 1
              BY <3>2 DEF Added
        <4>2. row.id = r.pid <=> row.tok = r.ptok
              BY <1>2, <2>2, <4>1 DEF LinkInv, LinkIntegrity, Linked
        <4>3. r.ptok \in 0..clock /\ clock \in Nat
              BY DEF LinkInv, RowsNumbered, TypeOK
        <4>4. row.id # r.pid
              BY <4>1, <4>2, <4>3
        <4> QED BY <4>1, <4>4
      <3> QED BY <3>1, <3>2
    <2> QED BY <1>2, <2>3 DEF OwnerToks, Linked
  <1> QED BY <1>1, <1>2

\* The new row hangs below nothing, or below a row that is there.
LEMMA NewOwner ==
    ASSUME LinkInv, LinkInv', NEW c \in Clients, NEW i, NEW row, NEW w, Added(c, i, row, w),
           NEW e \in Entries, e = call[c].obj[i].e
    PROVE  \/ OwnerToks(e, row)' = {}
           \/ Linked(e) /\ \E q \in db[Up[e]].rows : OwnerToks(e, row)' = {q.tok}
  <1>1. CASE ~Linked(e)
        BY <1>1 DEF OwnerToks, Linked
  <1>2. CASE Linked(e)
    <2>1. Up[e] \in Entries /\ Up[e] # e /\ db'[Up[e]].rows = db[Up[e]].rows
          BY <1>2, OwnerIsAnotherEntry DEF Added
    <2> DEFINE owners == {p \in db[Up[e]].rows : p.id = row.pid}
    <2>2. OwnerToks(e, row)' = {q.tok : q \in owners}
          BY <1>2, <2>1 DEF OwnerToks, Linked
    <2>3. CASE owners = {}
          BY <2>2, <2>3
    <2>4. CASE owners # {}
      <3>1. PICK q : q \in owners
            BY <2>4
      <3>2. \A p \in owners : p = q
            BY <2>1, <3>1 DEF LinkInv, TypeOK, DbOK
      <3>3. owners = {q} /\ q \in db[Up[e]].rows
            BY <3>1, <3>2
      <3>4. OwnerToks(e, row)' = {q.tok}
            BY <2>2, <3>3
      <3> QED BY <1>2, <3>3, <3>4
    <2> QED BY <2>3, <2>4
  <1> QED BY <1>1, <1>2

\* An insert attaches one value and moves none.
LEMMA InsertAttaches ==
    ASSUME LinkInv, LinkInv', NEW c \in Clients, InsertRow(c)
    PROVE  \E owner : \E e \in Entries :
              /\ Nodes' = Nodes \cup {[tok |-> clock + 1, e |-> e, owner |-> owner]}
              /\ \/ owner = {}
                 \/ Linked(e) /\ \E n \in Nodes : n.e = Up[e] /\ owner = {n.tok}
              /\ clock' = clock + 1
  <1>1. PICK i, row, w : Added(c, i, row, w)
        BY InsertAdds
  <1>e. PICK e : e = call[c].obj[i].e
        OBVIOUS
  <1> DEFINE owner == OwnerToks(e, row)'
  <1>2. /\ e \in Entries /\ clock' = clock + 1 /\ row.tok = clock + 1
        /\ db'[e].rows = db[e].rows \cup {row}
        /\ \A k \in Entries \ {e} : db'[k].rows = db[k].rows
        BY <1>1, <1>e DEF Added
  <1>3. \A k \in Entries : \A r \in db[k].rows : StoredNode(k, r)' = StoredNode(k, r)
        BY <1>1, OwnersStay DEF StoredNode
  <1>4. StoredNode(e, row)' = [tok |-> clock + 1, e |-> e, owner |-> owner]
        BY <1>2 DEF StoredNode
  <1>n. \/ OwnerToks(e, row)' = {}
        \/ Linked(e) /\ \E q \in db[Up[e]].rows : OwnerToks(e, row)' = {q.tok}
        BY <1>1, <1>e, <1>2, NewOwner
  <1>5. \/ owner = {}
        \/ Linked(e) /\ \E n \in Nodes : n.e = Up[e] /\ owner = {n.tok}
    <2>1. CASE owner = {}
          BY <2>1
    <2>2. CASE Linked(e) /\ \E q \in db[Up[e]].rows : owner = {q.tok}
      <3>1. PICK q \in db[Up[e]].rows : owner = {q.tok}
            BY <2>2
      <3>2. Up[e] \in Entries
            BY <1>2, <2>2, OwnerIsAnotherEntry
      <3>3. StoredNode(Up[e], q) \in Nodes
            BY <3>2, NodesAre
      <3>4. StoredNode(Up[e], q).e = Up[e] /\ StoredNode(Up[e], q).tok = q.tok
            BY DEF StoredNode
      <3> QED BY <2>2, <3>1, <3>3, <3>4
    <2> QED BY <1>n, <2>1, <2>2
  <1>6. \A n : n \in Nodes' <=> \E k \in Entries : \E r \in db'[k].rows : n = StoredNode(k, r)'
        BY DEF Nodes
  <1>7. \A n : n \in Nodes' <=> n \in Nodes \/ n = StoredNode(e, row)'
    <2>1. ASSUME NEW n, n \in Nodes'
          PROVE  n \in Nodes \/ n = StoredNode(e, row)'
          BY <1>2, <1>3, <1>6, <2>1, NodesAre
    <2>2. ASSUME NEW n, n \in Nodes
          PROVE  n \in Nodes'
          BY <1>2, <1>3, <1>6, <2>2, NodesAre
    <2>3. StoredNode(e, row)' \in Nodes'
          BY <1>2, <1>6
    <2> QED BY <2>1, <2>2, <2>3
  <1>8. Nodes' = Nodes \cup {StoredNode(e, row)'}
        BY <1>7
  <1> QED BY <1>2, <1>4, <1>5, <1>8

\* The steps of the engine are steps of the forest.
LEMMA StepsOfForest ==
    ASSUME Calls \subseteq {"create", "insert", "select"}, LinkInv, LinkInv', Growing, [Next]_vars
    PROVE  [Forest!FNext]_(Forest!fvars)
  <1>1. ASSUME NEW c \in Clients, InsertRow(c)
        PROVE  Forest!FNext
    <2>o. PICK owner : \E e \in Entries :
              /\ Nodes' = Nodes \cup {[tok |-> clock + 1, e |-> e, owner |-> owner]}
              /\ \/ owner = {}
                 \/ Linked(e) /\ \E n \in Nodes : n.e = Up[e] /\ owner = {n.tok}
              /\ clock' = clock + 1
          BY <1>1, InsertAttaches
    <2>1. PICK e \in Entries :
              /\ Nodes' = Nodes \cup {[tok |-> clock + 1, e |-> e, owner |-> owner]}
              /\ \/ owner = {}
                 \/ Linked(e) /\ \E n \in Nodes : n.e = Up[e] /\ owner = {n.tok}
              /\ clock' = clock + 1
          BY <2>o
    <2>2. CASE ~Linked(e)
      <3>1. owner = {}
            BY <2>1, <2>2
      <3> QED BY <2>1, <2>2, <3>1 DEF Forest!FNext, Forest!Attach, Forest!Owners, Nodes, StoredNode
    <2>3. CASE Linked(e)
      <3>1. Up[e] \in Entries /\ Up[e] # e
            BY <2>3, OwnerIsAnotherEntry
      <3>2. owner \in {{}} \cup {{n.tok} : n \in {m \in Nodes : m.e = Up[e]}}
            BY <2>1
      <3> QED BY <2>1, <2>3, <3>1, <3>2 DEF Forest!FNext, Forest!Attach, Forest!Owners, Nodes, StoredNode
    <2> QED BY <2>2, <2>3
  <1>2. ASSUME \A c \in Clients : ~InsertRow(c)
        PROVE  UNCHANGED Forest!fvars
    <2>1. clock' = clock /\ \A e \in Entries : db'[e].rows = db[e].rows
          BY <1>2, OthersKeepRows
    <2>2. \A e \in Entries : \A r \in db[e].rows : StoredNode(e, r)' = StoredNode(e, r)
      <3>1. \A e \in Entries : Linked(e) => Up[e] \in Entries
            BY OwnerIsAnotherEntry
      <3> QED BY <2>1, <3>1 DEF StoredNode, OwnerToks, Linked
    <2>3. Nodes' = Nodes
          BY <2>1, <2>2 DEF Nodes
    <2> QED BY <2>1, <2>3 DEF Forest!fvars, Nodes, StoredNode
  <1> QED BY <1>1, <1>2

\* The tables implement the growing forest, whatever the clients interleave,
\* fail or lose (OrmEngine!ImplementsForest; meta_insert, orm.cpp:1244-1277).
THEOREM ForestImplemented ==
    ASSUME Calls \subseteq {"create", "insert", "select"}
    PROVE  Spec => ImplementsForest
  <1>1. Init => Forest!FInit
    <2> SUFFICES ASSUME Init PROVE Forest!FInit
        OBVIOUS
    <2>1. \A e \in Entries : db[e].rows = {}
          BY DEF Init, NoTable
    <2>2. \A e \in Entries : {[tok |-> r.tok, e |-> e, owner |-> OwnerToks(e, r)] : r \in db[e].rows} = {}
          BY <2>1
    <2>3. clock = 0
          BY DEF Init
    <2> QED BY <2>2, <2>3 DEF Forest!FInit
  <1>2. LinkInv /\ LinkInv' /\ Growing /\ [Next]_vars => [Forest!FNext]_(Forest!fvars)
        BY StepsOfForest
  <1> QED BY <1>1, <1>2, InitGrowing, NextGrowing, PTL DEF Spec, ImplementsForest, Forest!FSpec

=============================================================================
