---------------------------- MODULE OrmLinkProofs ----------------------------
(***************************************************************************)
(* The rowid join finds the right owner: LinkIntegrity, for every schema,  *)
(* any crash and any failed statement, while any number of clients create, *)
(* insert, select and delete, or one client also drops.                    *)
(***************************************************************************)
EXTENDS OrmEngineProofs

\* An entry and its owner are two tables.
LEMMA OwnerIsAnotherEntry ==
    ASSUME NEW e \in Entries, Linked(e)
    PROVE  Up[e] \in Entries /\ Up[e] # e /\ Keyed[Up[e]] = TRUE
  <1>1. e # 1 /\ Keyed[Up[e]] /\ Up[e] \in 1..(e - 1)
        BY SchemaAssumption DEF Linked
  <1>2. Len(Up) \in Nat
        BY SchemaAssumption
  <1>3. Up[e] \in Entries /\ Up[e] # e
        BY <1>1, <1>2 DEF Entries
  <1>4. Keyed[Up[e]] \in BOOLEAN
        BY <1>3, SchemaAssumption
  <1> QED BY <1>1, <1>3, <1>4

\* meta_insert reads an owner's rowid only after it has written it.
LEMMA OwnerIsDone ==
    ASSUME TypeOK, NEW c \in Clients, call[c].op = "insert", NEW i \in Turn(c),
           Linked(call[c].obj[i].e)
    PROVE  LET o == call[c].obj
               u == o[i].up
           IN  /\ u \in DOMAIN o \ call[c].todo
               /\ o[u] \in Node /\ o[u].e = Up[o[i].e] /\ ParentId(c, i) = o[u].id
  <1> DEFINE o == call[c].obj
             u == o[i].up
  <1>1. IsObject(o) /\ i \in DOMAIN o /\ Entry(c, i) = o[i].e
        BY TurnIsLeft DEF TypeOK, CallOK
  <1>2. i # 1
        BY <1>1 DEF Linked, IsObject
  <1>3. u \in 1..(i - 1) /\ Up[o[i].e] = o[u].e
        BY <1>1, <1>2 DEF IsObject
  <1>4. u \in DOMAIN o /\ o[u] \in Node
        BY <1>1, <1>3 DEF IsObject
  <1>5. u \notin call[c].todo
    <2>1. \A j \in call[c].todo : i <= j
          BY DEF Turn, PostOrder
    <2>2. i \in Nat /\ u \in Nat /\ u < i
          BY <1>1, <1>3 DEF IsObject
    <2> QED BY <2>1, <2>2
  <1>6. ParentId(c, i) = o[u].id
        BY <1>1 DEF ParentId
  <1> QED BY <1>3, <1>4, <1>5, <1>6

\* After a statement a value that is done was done before, or is the one whose
\* turn it was.
LEMMA DoneNodes ==
    ASSUME TypeOK, NEW c \in Clients, NEW i \in Turn(c), NEW w,
           call[c].op = "insert",
           IsObject(w), DOMAIN w = DOMAIN call[c].obj,
           \A x \in DOMAIN w : x # i => w[x] = call[c].obj[x],
           \E ok \in BOOLEAN : Advance(c, {i}, w, ok)
    PROVE  \A d \in Clients : call'[d].op = "insert" =>
              \A j \in DOMAIN call'[d].obj \ call'[d].todo :
                 \/ d = c /\ j = i /\ call'[d].obj[j] = w[i]
                 \/ /\ call[d].op = "insert" /\ j \in DOMAIN call[d].obj \ call[d].todo
                    /\ call'[d].obj[j] = call[d].obj[j]
  <1> SUFFICES ASSUME NEW d \in Clients, call'[d].op = "insert",
                      NEW j \in DOMAIN call'[d].obj \ call'[d].todo
               PROVE  \/ d = c /\ j = i /\ call'[d].obj[j] = w[i]
                      \/ /\ call[d].op = "insert" /\ j \in DOMAIN call[d].obj \ call[d].todo
                         /\ call'[d].obj[j] = call[d].obj[j]
      OBVIOUS
  <1> PICK ok \in BOOLEAN : Advance(c, {i}, w, ok)
      OBVIOUS
  <1> DEFINE now == [call[c] EXCEPT !.obj = w, !.todo = @ \ {i}, !.ok = @ /\ ok]
  <1>1. call' = [call EXCEPT ![c] = IF now.todo = {} THEN Idle ELSE now]
        BY DEF Advance
  <1>2. call \in [Clients -> CallRecord]
        BY DEF TypeOK, CallOK
  <1>3. CASE d # c
        BY <1>1, <1>2, <1>3
  <1>4. CASE d = c
    <2>1. call'[c] = IF now.todo = {} THEN Idle ELSE now
          BY <1>1, <1>2
    <2>2. call'[c] # Idle
          BY <1>4 DEF Idle
    <2>3. call'[c] = now
          BY <2>1, <2>2
    <2>4. now.obj = w /\ now.todo = call[c].todo \ {i} /\ now.op = call[c].op
          BY <1>2 DEF CallRecord
    <2> QED BY <1>4, <2>3, <2>4
  <1> QED BY <1>3, <1>4

-----------------------------------------------------------------------------
LEMMA InitLinkInv == Init => LinkInv
  <1> SUFFICES ASSUME Init PROVE LinkInv
      OBVIOUS
  <1>1. TypeOK
        BY InitTypeOK
  <1>2. \A e \in Entries : db[e].rows = {}
        BY DEF Init, NoTable
  <1>3. \A c \in Clients : call[c].op # "insert"
        BY DEF Init, Idle
  <1>4. LinkIntegrity
        BY <1>2 DEF LinkIntegrity
  <1> QED BY <1>1, <1>2, <1>3, <1>4 DEF LinkInv, RowsNumbered, NodesPaired

\* Rows may go and their columns may change, if neither rowids nor owners do.
RowsFromBefore ==
    \A e \in Entries : \A r \in db'[e].rows : \E q \in db[e].rows :
        r.id = q.id /\ r.pid = q.pid /\ r.tok = q.tok /\ r.ptok = q.ptok

\* A step that inserts nothing, for instance a call or a crash, and leaves the
\* marks as they are.
LEMMA FewerRowsKeepLinkInv ==
    ASSUME LinkInv, TypeOK', clock' = clock, RowsFromBefore,
           \A e \in Entries : db'[e].seq = db[e].seq,
           \A d \in Clients : call'[d].op = "insert" =>
               call'[d] = call[d] \/ DOMAIN call'[d].obj \subseteq call'[d].todo
    PROVE  LinkInv'
  <1>1. \A e \in Entries : Linked(e) => Up[e] \in Entries
        BY OwnerIsAnotherEntry
  <1>2. LinkIntegrity'
    <2> SUFFICES ASSUME NEW e \in Entries, Linked(e), NEW r \in db'[e].rows,
                        NEW q \in db'[Up[e]].rows
                 PROVE  q.id = r.pid <=> q.tok = r.ptok
        BY DEF LinkIntegrity, Linked
    <2>1. PICK x \in db[e].rows : r.pid = x.pid /\ r.ptok = x.ptok
          BY DEF RowsFromBefore
    <2>2. PICK y \in db[Up[e]].rows : q.id = y.id /\ q.tok = y.tok
          BY <1>1 DEF RowsFromBefore
    <2> QED BY <2>1, <2>2 DEF LinkInv, LinkIntegrity
  <1>3. RowsNumbered'
    <2> SUFFICES ASSUME NEW e \in Entries, NEW r \in db'[e].rows
                 PROVE  /\ r.tok \in 1..clock' /\ r.ptok \in 0..clock'
                        /\ Keyed[e] => r.id \in 1..db'[e].seq
                        /\ Linked(e) => r.pid <= db'[Up[e]].seq
        BY DEF RowsNumbered, Linked
    <2>1. PICK x \in db[e].rows : r.id = x.id /\ r.pid = x.pid /\ r.tok = x.tok /\ r.ptok = x.ptok
          BY DEF RowsFromBefore
    <2> QED BY <1>1, <2>1 DEF LinkInv, RowsNumbered
  <1>4. NodesPaired'
    <2> SUFFICES ASSUME NEW d \in Clients, call'[d].op = "insert",
                        NEW i \in DOMAIN call'[d].obj \ call'[d].todo,
                        Keyed[call'[d].obj[i].e]
                 PROVE  LET n == call'[d].obj[i] IN
                        /\ n.id <= db'[n.e].seq /\ n.tok <= clock'
                        /\ \A q \in db'[n.e].rows : q.id = n.id <=> q.tok = n.tok
        BY DEF NodesPaired
    <2> DEFINE n == call[d].obj[i]
    <2>1. call'[d] = call[d]
          OBVIOUS
    <2>2. n.e \in Entries
      <3>1. IsObject(call[d].obj) /\ i \in DOMAIN call[d].obj
            BY <2>1 DEF LinkInv, TypeOK, CallOK
      <3>2. call[d].obj[i] \in Node
            BY <3>1 DEF IsObject
      <3> QED BY <3>2 DEF Node
    <2>3. /\ n.id <= db[n.e].seq /\ n.tok <= clock
          /\ \A q \in db[n.e].rows : q.id = n.id <=> q.tok = n.tok
          BY <2>1 DEF LinkInv, NodesPaired
    <2> HIDE DEF n
    <2>4. ASSUME NEW q \in db'[n.e].rows PROVE q.id = n.id <=> q.tok = n.tok
          BY <2>2, <2>3 DEF RowsFromBefore
    <2> QED BY <2>1, <2>2, <2>3, <2>4 DEF n
  <1> QED BY <1>2, <1>3, <1>4 DEF LinkInv

LEMMA CallKeepsLinkInv ==
    ASSUME LinkInv, NEW c \in Clients, Call(c)
    PROVE  LinkInv'
  <1>1. TypeOK' /\ CallOK
        BY CallKeepsTypeOK DEF LinkInv, TypeOK
  <1>2. db' = db /\ clock' = clock
        BY DEF Call, CallCreate, CallDrop, CallInsert, CallUpdate, CallDelete, Select,
                FailSelect, Enter
  <1>3. RowsFromBefore
        BY <1>2 DEF RowsFromBefore
  <1>4. \/ call' = call
        \/ \E op, o, mine : call' = [call EXCEPT ![c] = [op |-> op, obj |-> o, todo |-> DOMAIN o,
                                                         ok |-> TRUE, mine |-> mine]]
        BY DEF Call, CallCreate, CallDrop, CallInsert, CallUpdate, CallDelete, Select,
                FailSelect, Enter
  <1>5. \A d \in Clients : call'[d] = call[d] \/ DOMAIN call'[d].obj \subseteq call'[d].todo
        BY <1>1, <1>4 DEF CallOK
  <1> QED BY <1>1, <1>2, <1>3, <1>5, FewerRowsKeepLinkInv

\* Every statement but an INSERT, a DROP and an UPDATE that rewrites rowids.
LEMMA StatementKeepsLinkInv ==
    ASSUME LinkInv, TypeOK', NEW c \in Clients,
           \/ CreateTable(c) \/ DeleteRows(c) \/ FailStatement(c)
           \/ UpdateRows(c) /\ RowsFromBefore
    PROVE  LinkInv'
  <1>1. CallOK /\ DbOK
        BY DEF LinkInv, TypeOK
  <1>2. call[c].op # "insert" /\ clock' = clock
        BY OtherStatements
  <1>3. \A d \in Clients : call'[d].op = "insert" => call'[d] = call[d]
    <2>1. PICK done, ok : ok \in BOOLEAN /\ Advance(c, done, call[c].obj, ok)
          BY OtherStatements
    <2>2. /\ \A d \in Clients : d # c => call'[d] = call[d]
          /\ call'[c].op \in {"create", call[c].op}
          BY <1>1, <2>1, AdvanceKeepsOp
    <2> QED BY <1>2, <2>2
  <1>4. RowsFromBefore /\ \A e \in Entries : db'[e].seq = db[e].seq
    <2>1. db \in [Entries -> Table]
          BY <1>1 DEF DbOK
    <2>2. CASE CreateTable(c)
      <3>1. PICK i \in Turn(c) : db' = [db EXCEPT ![Entry(c, i)].exists = TRUE]
            BY <2>2 DEF CreateTable
      <3>2. \A e \in Entries : db'[e].rows = db[e].rows /\ db'[e].seq = db[e].seq
            BY <2>1, <3>1 DEF Table
      <3> QED BY <3>2 DEF RowsFromBefore
    <2>3. CASE DeleteRows(c)
      <3>1. PICK i \in Turn(c) : db' = Deleted(Entry(c, i), ParentId(c, i))
            BY <2>3 DEF DeleteRows
      <3>2. \A e \in Entries : db'[e].rows \subseteq db[e].rows /\ db'[e].seq = db[e].seq
            BY <2>1, <3>1 DEF Table, Deleted
      <3> QED BY <3>2 DEF RowsFromBefore
    <2>4. CASE UpdateRows(c) /\ RowsFromBefore
      <3>1. PICK e, rows : db' = [db EXCEPT ![e].rows = rows]
            BY <2>4 DEF UpdateRows, Updated
      <3> QED BY <2>1, <2>4, <3>1 DEF Table
    <2>5. CASE FailStatement(c)
          BY <2>5 DEF FailStatement, RowsFromBefore
    <2> QED BY <2>2, <2>3, <2>4, <2>5
  <1> QED BY <1>2, <1>3, <1>4, FewerRowsKeepLinkInv

\* An INSERT: its rowid is beyond every rowid in use, its number is new.
LEMMA InsertKeepsLinkInv ==
    ASSUME LinkInv, NEW c \in Clients, InsertRow(c), TypeOK'
    PROVE  LinkInv'
  <1> DEFINE o == call[c].obj
  <1>1. PICK i \in Turn(c) :
          LET e == o[i].e
          IN  /\ db[e].exists
              /\ \E id \in NextRowids(e) :
                   LET key == IF Keyed[e] THEN id ELSE 0 IN
                   /\ db' = Inserted(e, [id |-> id, pid |-> ParentId(c, i), val |-> o[i].val,
                                         tok |-> clock + 1,
                                         ptok |-> IF Linked(e) THEN o[o[i].up].tok ELSE 0])
                   /\ Advance(c, {i}, Written(o, i, key, clock + 1), TRUE)
        BY DEF InsertRow
  <1> DEFINE e == o[i].e
  <1>2. PICK id \in NextRowids(e) :
          LET key == IF Keyed[e] THEN id ELSE 0 IN
          /\ db' = Inserted(e, [id |-> id, pid |-> ParentId(c, i), val |-> o[i].val,
                                tok |-> clock + 1,
                                ptok |-> IF Linked(e) THEN o[o[i].up].tok ELSE 0])
          /\ Advance(c, {i}, Written(o, i, key, clock + 1), TRUE)
        BY <1>1
  <1> DEFINE key  == IF Keyed[e] THEN id ELSE 0
             ptok == IF Linked(e) THEN o[o[i].up].tok ELSE 0
             row  == [id |-> id, pid |-> ParentId(c, i), val |-> o[i].val, tok |-> clock + 1,
                      ptok |-> ptok]
             w    == Written(o, i, key, clock + 1)
  <1>3. call[c].op = "insert" /\ clock' = clock + 1 /\ clock \in Nat
        BY DEF InsertRow, LinkInv, TypeOK
  <1>4. TypeOK /\ DbOK /\ CallOK
        BY DEF LinkInv, TypeOK
  <1>5. IsObject(o) /\ i \in DOMAIN o /\ e \in Entries /\ o[i] \in Node
        BY <1>4, TurnIsLeft DEF CallOK
  <1>6. id \in 1..MaxRowid /\ (Keyed[e] => id > db[e].seq)
        BY <1>4, <1>5, RowidIsNew
  <1>7. key \in 0..MaxRowid /\ clock + 1 \in Nat
        BY <1>3, <1>6, BoundAssumption
  <1>8. /\ IsObject(w) /\ DOMAIN w = DOMAIN o
        /\ w[i].id = key /\ w[i].tok = clock + 1 /\ w[i].e = e
        /\ \A j \in DOMAIN w : j # i => w[j] = o[j]
    <2>1. /\ IsObject(w) /\ DOMAIN w = DOMAIN o
          /\ w[i].id = key /\ w[i].tok = clock + 1
          /\ \A j \in DOMAIN o : w[j].e = o[j].e
          /\ \A j \in DOMAIN o : j # i => w[j] = o[j]
      <3>1. IsObject(o) /\ i \in DOMAIN o /\ key \in 0..MaxRowid /\ clock + 1 \in Nat
            BY <1>5, <1>7
      <3> HIDE DEF o, key, e
      <3>2. PICK t, y, x, v : t = clock + 1 /\ y = key /\ x = o /\ v = Written(x, i, y, t)
            OBVIOUS
      <3>a. IsObject(x) /\ i \in DOMAIN x /\ y \in 0..MaxRowid /\ t \in Nat
            BY ONLY <3>1, <3>2
      <3>b. v = Written(x, i, y, t)
            BY ONLY <3>2
      <3>c. /\ IsObject(v) /\ DOMAIN v = DOMAIN x /\ v[i].id = y /\ v[i].tok = t
            /\ \A j \in DOMAIN x : v[j].e = x[j].e
            /\ \A j \in DOMAIN x : j # i => v[j] = x[j]
            BY ONLY <3>a, <3>b, WriteBack
      <3>3. /\ IsObject(v) /\ DOMAIN v = DOMAIN o /\ v[i].id = key /\ v[i].tok = t
            /\ \A j \in DOMAIN o : v[j].e = o[j].e
            /\ \A j \in DOMAIN o : j # i => v[j] = o[j]
            BY ONLY <3>2, <3>c
      <3> QED BY ONLY <3>2, <3>3 DEF w
    <2> HIDE DEF w, o
    <2> QED BY <1>5, <2>1
  <1>9. /\ \A k \in Entries : k # e => db'[k] = db[k]
        /\ db'[e].rows = db[e].rows \cup {row}
        /\ db'[e].seq = IF Keyed[e] THEN id ELSE db[e].seq
    <2>1. db \in [Entries -> Table] /\ db[e] \in Table
          BY <1>4, <1>5 DEF DbOK
    <2>2. db' = [db EXCEPT ![e] = [db[e] EXCEPT !.rows = @ \cup {row},
                                                !.seq = IF Keyed[e] THEN id ELSE @]]
          BY <1>2, <2>1 DEF Inserted, Autoincrement
    <2> QED BY <1>5, <2>1, <2>2 DEF Table
  <1>10. \A k \in Entries : db[k].seq \in Nat /\ db'[k].seq \in Nat /\ db[k].seq <= db'[k].seq
    <2>1. \A k \in Entries : db[k].seq \in 0..MaxRowid
          BY <1>4 DEF DbOK, Table
    <2>2. id \in Nat /\ MaxRowid \in Nat /\ (Keyed[e] => id > db[e].seq)
          BY <1>6, BoundAssumption
    <2> HIDE DEF e, row, o, w, key
    <2>3. ASSUME NEW k \in Entries
          PROVE  db[k].seq \in Nat /\ db'[k].seq \in Nat /\ db[k].seq <= db'[k].seq
      <3>1. CASE k # e
            BY <1>9, <2>1, <3>1
      <3>2. CASE k = e
            BY <1>9, <2>1, <2>2, <3>2
      <3> QED BY <3>1, <3>2
    <2> QED BY <2>3
  <1>11. \A k \in Entries : \A r \in db[k].rows :
            /\ r.id \in Nat /\ r.pid \in Nat /\ r.tok \in 1..clock /\ r.ptok \in 0..clock
            /\ Keyed[k] => r.id \in 1..db[k].seq
            /\ Linked(k) => r.pid <= db[Up[k]].seq
        BY <1>4, BoundAssumption DEF LinkInv, RowsNumbered, DbOK, Table, Row
  <1>12. ASSUME Linked(e)
         PROVE  /\ row.pid \in Nat /\ row.pid <= db[Up[e]].seq
                /\ ptok \in 0..clock
                /\ \A q \in db[Up[e]].rows : q.id = row.pid <=> q.tok = ptok
    <2> DEFINE u == o[i].up
    <2>1. /\ u \in DOMAIN o \ call[c].todo
          /\ o[u] \in Node /\ o[u].e = Up[e] /\ ParentId(c, i) = o[u].id
          BY <1>3, <1>4, <1>12, OwnerIsDone
    <2>2. Keyed[o[u].e]
          BY <1>5, <1>12, <2>1, OwnerIsAnotherEntry
    <2>3. /\ o[u].id <= db[o[u].e].seq /\ o[u].tok <= clock
          /\ \A q \in db[o[u].e].rows : q.id = o[u].id <=> q.tok = o[u].tok
          BY <1>3, <2>1, <2>2 DEF LinkInv, NodesPaired
    <2>4. o[u].id \in Nat /\ o[u].tok \in Nat /\ ptok = o[u].tok /\ row.pid = o[u].id
          BY <1>12, <2>1, BoundAssumption DEF Node
    <2> HIDE DEF o, u, ptok, row
    <2> QED BY <1>3, <2>1, <2>3, <2>4
  <1>13. ~Linked(e) => ptok = 0
         OBVIOUS
  <1>14. row.id = id /\ row.tok = clock + 1 /\ row.ptok = ptok
         OBVIOUS
  <1> HIDE DEF row, w, key, ptok, o
  <1>15. RowsNumbered'
    <2>1. SUFFICES ASSUME NEW k \in Entries, NEW r \in db'[k].rows
                   PROVE  /\ r.tok \in 1..clock' /\ r.ptok \in 0..clock'
                          /\ Keyed[k] => r.id \in 1..db'[k].seq
                          /\ Linked(k) => r.pid <= db'[Up[k]].seq
          BY DEF RowsNumbered, Linked
    <2>2. Linked(k) => Up[k] \in Entries
          BY OwnerIsAnotherEntry
    <2>3. CASE r \in db[k].rows
          BY <1>3, <1>10, <1>11, <2>2, <2>3
    <2>4. CASE r \notin db[k].rows
      <3>1. k = e /\ r = row
            BY <1>9, <2>1, <2>4
      <3>2. r.tok \in 1..clock' /\ r.ptok \in 0..clock'
            BY <1>3, <1>12, <1>13, <1>14, <3>1
      <3>3. Keyed[k] => r.id \in 1..db'[k].seq
            BY <1>6, <1>9, <1>14, <3>1
      <3>4. Linked(k) => r.pid <= db'[Up[k]].seq
            BY <1>10, <1>12, <2>2, <3>1
      <3> QED BY <3>2, <3>3, <3>4
    <2> QED BY <2>3, <2>4
  <1>16. LinkIntegrity'
    <2>1. SUFFICES ASSUME NEW k \in Entries, Linked(k),
                          NEW r \in db'[k].rows, NEW q \in db'[Up[k]].rows
                   PROVE  q.id = r.pid <=> q.tok = r.ptok
          BY DEF LinkIntegrity, Linked
    <2>2. Up[k] \in Entries /\ Up[k] # k /\ Keyed[Up[k]]
          BY <2>1, OwnerIsAnotherEntry
    <2>3. CASE r \in db[k].rows /\ q \in db[Up[k]].rows
          BY <2>1, <2>3 DEF LinkInv, LinkIntegrity
    <2>4. CASE r \in db[k].rows /\ q \notin db[Up[k]].rows
      <3>1. Up[k] = e /\ q = row
            BY <1>9, <2>2, <2>4
      <3>2. r.pid \in Nat /\ r.pid <= db[e].seq /\ r.ptok \in 0..clock
            BY <1>11, <2>1, <2>4, <3>1
      <3> QED BY <1>3, <1>6, <1>10, <1>14, <2>2, <3>1, <3>2
    <2>5. CASE r \notin db[k].rows
      <3>1. k = e /\ r = row
            BY <1>9, <2>5
      <3>2. q \in db[Up[e]].rows
            BY <1>9, <2>2, <3>1
      <3> QED BY <1>12, <1>14, <2>1, <3>1, <3>2
    <2> QED BY <2>3, <2>4, <2>5
  <1>17. NodesPaired'
    <2>1. SUFFICES ASSUME NEW d \in Clients, call'[d].op = "insert",
                          NEW j \in DOMAIN call'[d].obj \ call'[d].todo,
                          Keyed[call'[d].obj[j].e]
                   PROVE  LET n == call'[d].obj[j] IN
                          /\ n.id <= db'[n.e].seq /\ n.tok <= clock'
                          /\ \A q \in db'[n.e].rows : q.id = n.id <=> q.tok = n.tok
          BY DEF NodesPaired
    <2>2. \/ d = c /\ j = i /\ call'[d].obj[j] = w[i]
          \/ /\ call[d].op = "insert" /\ j \in DOMAIN call[d].obj \ call[d].todo
             /\ call'[d].obj[j] = call[d].obj[j]
      <3>1. (\E ok \in BOOLEAN : Advance(c, {i}, w, ok)) /\ DOMAIN w = DOMAIN call[c].obj
            BY <1>2, <1>8 DEF w, key, o
      <3>2. \A x \in DOMAIN w : x # i => w[x] = call[c].obj[x]
            BY <1>8 DEF o
      <3>3. IsObject(w) /\ TypeOK /\ call[c].op = "insert"
            BY <1>3, <1>4, <1>8
      <3> QED BY <2>1, <3>1, <3>2, <3>3, DoneNodes
    <2>3. CASE call'[d].obj[j] = w[i]
      <3>1. w[i].id = id /\ w[i].tok = clock + 1 /\ w[i].e = e /\ Keyed[e]
            BY <1>8, <2>1, <2>3 DEF key
      <3>2. \A q \in db'[e].rows : q.id = id <=> q.tok = clock + 1
        <4>1. \A q \in db[e].rows : q.id # id /\ q.tok # clock + 1
              BY <1>3, <1>5, <1>6, <1>10, <1>11, <3>1
        <4> QED BY <1>9, <1>14, <4>1
      <3>3. id <= db'[e].seq /\ clock + 1 <= clock'
            BY <1>3, <1>6, <1>9, <3>1
      <3> QED BY <2>3, <3>1, <3>2, <3>3
    <2>4. CASE /\ call[d].op = "insert" /\ j \in DOMAIN call[d].obj \ call[d].todo
               /\ call'[d].obj[j] = call[d].obj[j]
      <3> DEFINE n == call[d].obj[j]
      <3>1. n \in Node /\ n.e \in Entries /\ n.id \in Nat /\ n.tok \in Nat
        <4>1. IsObject(call[d].obj) /\ j \in DOMAIN call[d].obj
              BY <1>4, <2>4 DEF CallOK
        <4>2. n \in Node
              BY <4>1 DEF IsObject
        <4> QED BY <4>2, BoundAssumption DEF Node
      <3>2. /\ Keyed[n.e] /\ n.id <= db[n.e].seq /\ n.tok <= clock
            /\ \A q \in db[n.e].rows : q.id = n.id <=> q.tok = n.tok
            BY <2>1, <2>4 DEF LinkInv, NodesPaired
      <3> HIDE DEF n
      <3>3. n.id <= db'[n.e].seq /\ n.tok <= clock'
            BY <1>3, <1>10, <3>1, <3>2
      <3>4. ASSUME NEW q \in db'[n.e].rows
            PROVE  q.id = n.id <=> q.tok = n.tok
        <4>1. CASE q \in db[n.e].rows
              BY <3>2, <4>1
        <4>2. CASE q \notin db[n.e].rows
          <5>1. n.e = e /\ q = row
                BY <1>9, <3>1, <4>2
          <5> QED BY <1>3, <1>6, <1>10, <1>14, <3>1, <3>2, <5>1
        <4> QED BY <4>1, <4>2
      <3> QED BY <2>4, <3>3, <3>4 DEF n
    <2> QED BY <2>2, <2>3, <2>4
  <1> QED BY <1>15, <1>16, <1>17 DEF LinkInv

\* A failed INSERT leaves its value with rowid 0, which no row has.
LEMMA FailInsertKeepsLinkInv ==
    ASSUME LinkInv, NEW c \in Clients, FailInsert(c), TypeOK'
    PROVE  LinkInv'
  <1> DEFINE o == call[c].obj
  <1>1. PICK i \in Turn(c) : Advance(c, {i}, Written(o, i, 0, 0), FALSE)
        BY DEF FailInsert
  <1> DEFINE w == Written(o, i, 0, 0)
  <1>2. call[c].op = "insert" /\ db' = db /\ clock' = clock /\ TypeOK
        BY DEF FailInsert, LinkInv
  <1>3. IsObject(o) /\ i \in DOMAIN o /\ 0 \in 0..MaxRowid /\ 0 \in Nat
        BY <1>2, TurnIsLeft, BoundAssumption DEF TypeOK, CallOK
  <1>4. /\ IsObject(w) /\ DOMAIN w = DOMAIN o /\ w[i].id = 0 /\ w[i].tok = 0
        /\ \A j \in DOMAIN w : j # i => w[j] = o[j]
    <2> HIDE DEF o
    <2> QED BY <1>3, WriteBack
  <1>5. LinkIntegrity' /\ RowsNumbered'
        BY <1>2 DEF LinkInv, LinkIntegrity, RowsNumbered, Linked
  <1>6. NodesPaired'
    <2>1. SUFFICES ASSUME NEW d \in Clients, call'[d].op = "insert",
                          NEW j \in DOMAIN call'[d].obj \ call'[d].todo,
                          Keyed[call'[d].obj[j].e]
                   PROVE  LET n == call'[d].obj[j] IN
                          /\ n.id <= db'[n.e].seq /\ n.tok <= clock'
                          /\ \A q \in db'[n.e].rows : q.id = n.id <=> q.tok = n.tok
          BY DEF NodesPaired
    <2>2. \/ d = c /\ j = i /\ call'[d].obj[j] = w[i]
          \/ /\ call[d].op = "insert" /\ j \in DOMAIN call[d].obj \ call[d].todo
             /\ call'[d].obj[j] = call[d].obj[j]
      <3>1. (\E ok \in BOOLEAN : Advance(c, {i}, w, ok)) /\ DOMAIN w = DOMAIN call[c].obj
            BY <1>1, <1>4
      <3>2. \A x \in DOMAIN w : x # i => w[x] = call[c].obj[x]
            BY <1>4
      <3> HIDE DEF o, w
      <3> QED BY <1>2, <1>4, <2>1, <3>1, <3>2, DoneNodes
    <2>3. CASE call'[d].obj[j] = w[i]
      <3>1. w[i].e \in Entries
        <4>1. IsObject(w) /\ i \in DOMAIN w
              BY <1>3, <1>4
        <4> HIDE DEF w
        <4>2. w[i] \in Node
              BY <4>1 DEF IsObject
        <4> QED BY <4>2 DEF Node
      <3>2. db[w[i].e].seq \in Nat /\ clock \in Nat
            BY <1>2, <3>1, BoundAssumption DEF TypeOK, DbOK, Table
      <3>3. \A q \in db[w[i].e].rows : q.id # 0 /\ q.tok # 0
            BY <2>1, <2>3, <3>1 DEF LinkInv, RowsNumbered
      <3> QED BY <1>2, <1>4, <2>3, <3>2, <3>3
    <2>4. CASE /\ call[d].op = "insert" /\ j \in DOMAIN call[d].obj \ call[d].todo
               /\ call'[d].obj[j] = call[d].obj[j]
          BY <1>2, <2>1, <2>4 DEF LinkInv, NodesPaired
    <2> QED BY <2>2, <2>3, <2>4
  <1> QED BY <1>5, <1>6 DEF LinkInv

LEMMA CrashKeepsLinkInv ==
    ASSUME LinkInv, NEW c \in Clients, Crash(c), TypeOK'
    PROVE  LinkInv'
  <1>1. db' = db /\ clock' = clock /\ call' = [call EXCEPT ![c] = Idle]
        BY DEF Crash
  <1>2. \A d \in Clients : call'[d].op = "insert" => call'[d] = call[d]
        BY <1>1 DEF Idle, LinkInv, TypeOK, CallOK
  <1>3. RowsFromBefore
        BY <1>1 DEF RowsFromBefore
  <1> QED BY <1>1, <1>2, <1>3, FewerRowsKeepLinkInv

\* What has to be shown of a step is that it drops no table that inserts rely
\* on and rewrites no rowid.
LEMMA NextLinkInv ==
    ASSUME LinkInv, [Next]_vars,
           \A c \in Clients : DropTable(c) => LinkInv',
           \A c \in Clients : UpdateRows(c) => RowsFromBefore
    PROVE  LinkInv'
  <1>1. TypeOK'
        BY NextTypeOK DEF LinkInv
  <1>2. ASSUME NEW c \in Clients, Call(c) PROVE LinkInv'
        BY <1>2, CallKeepsLinkInv
  <1>3. ASSUME NEW c \in Clients, Statement(c) PROVE LinkInv'
    <2>1. CASE InsertRow(c)
          BY <1>1, <2>1, InsertKeepsLinkInv
    <2>2. CASE FailInsert(c)
          BY <1>1, <2>2, FailInsertKeepsLinkInv
    <2>3. CASE CreateTable(c) \/ DeleteRows(c) \/ FailStatement(c)
          BY <1>1, <2>3, StatementKeepsLinkInv
    <2>4. CASE UpdateRows(c)
      <3>1. RowsFromBefore
            BY <2>4
      <3> QED BY <1>1, <2>4, <3>1, StatementKeepsLinkInv
    <2> QED BY <1>3, <2>1, <2>2, <2>3, <2>4 DEF Statement
  <1>4. ASSUME NEW c \in Clients, Crash(c) PROVE LinkInv'
        BY <1>1, <1>4, CrashKeepsLinkInv
  <1>5. CASE UNCHANGED vars
    <2>1. db' = db /\ clock' = clock /\ call' = call
          BY <1>5 DEF vars
    <2>2. RowsFromBefore
          BY <2>1 DEF RowsFromBefore
    <2> QED BY <1>1, <2>1, <2>2, FewerRowsKeepLinkInv
  <1> QED BY <1>2, <1>3, <1>4, <1>5 DEF Next

-----------------------------------------------------------------------------
(* Any number of clients that do not drop or update.                       *)

\* Nothing but creates and inserts is under way.
Growing == OnlyCalls({"create", "insert"})

Unmoved == OnlyCalls({"create", "insert", "delete"})

LEMMA NextUnmoved ==
    ASSUME Calls \subseteq {"create", "insert", "select", "delete"}
    PROVE  LinkInv /\ Unmoved /\ [Next]_vars => LinkInv' /\ Unmoved'
  <1> SUFFICES ASSUME LinkInv, Unmoved, [Next]_vars PROVE LinkInv' /\ Unmoved'
      OBVIOUS
  <1>1. \A c \in Clients : ~DropTable(c) /\ ~UpdateRows(c)
        BY DEF Unmoved, OnlyCalls, DropTable, UpdateRows
  <1>2. Unmoved'
        BY NextOnlyCalls DEF LinkInv, TypeOK, Unmoved
  <1> QED BY <1>1, <1>2, NextLinkInv

LEMMA InitGrowing == Init => LinkInv /\ Growing
  BY InitLinkInv, InitOnlyCalls DEF Growing

LEMMA NextGrowing ==
    ASSUME Calls \subseteq {"create", "insert", "select"}
    PROVE  LinkInv /\ Growing /\ [Next]_vars => LinkInv' /\ Growing'
  <1> SUFFICES ASSUME LinkInv, Growing, [Next]_vars PROVE LinkInv' /\ Growing'
      OBVIOUS
  <1>1. \A c \in Clients : ~DropTable(c) /\ ~UpdateRows(c)
        BY DEF Growing, OnlyCalls, DropTable, UpdateRows
  <1>2. Growing'
        BY NextOnlyCalls DEF LinkInv, TypeOK, Growing
  <1> QED BY <1>1, <1>2, NextLinkInv

\* Values are paired with their rows at every moment, in the tables and in the
\* objects under way (OrmEngine!LinkInv; meta_insert, orm.cpp:1255-1277).
THEOREM LinksStayPaired ==
    ASSUME Calls \subseteq {"create", "insert", "select", "delete"}
    PROVE  Spec => []LinkInv
  <1>1. Init => LinkInv /\ Unmoved
        BY InitLinkInv, InitOnlyCalls DEF Unmoved
  <1> QED BY <1>1, NextUnmoved, PTL DEF Spec

\* As long as the clients only create, insert, select and delete, the rowid join
\* never pairs a child row with a row that did not own it, whatever interleaves,
\* fails or crashes: a deleted row's rowid is not given out again
\* (OrmEngine!LinkIntegrity; meta_insert, orm.cpp:1172-1278).
THEOREM LinksCorrect ==
    ASSUME Calls \subseteq {"create", "insert", "select", "delete"}
    PROVE  Spec => []LinkIntegrity
  <1>1. LinkInv => LinkIntegrity
        BY DEF LinkInv
  <1> QED BY <1>1, LinksStayPaired, PTL

-----------------------------------------------------------------------------
(* One client that also drops.                                             *)

\* A DROP takes the rows with the mark, and comes after those of the members.
LEMMA DropKeepsLinkInv ==
    ASSUME NEW me, Clients = {me}, LinkInv, SchemaInv, TypeOK', DropTable(me)
    PROVE  LinkInv'
  <1>1. PICK i \in Turn(me) : db' = [db EXCEPT ![Entry(me, i)] = NoTable]
        BY DEF DropTable
  <1> DEFINE e == Entry(me, i)
  <1>2. call[me].op = "drop" /\ clock' = clock /\ CallOK /\ db \in [Entries -> Table]
        BY DEF DropTable, LinkInv, TypeOK, DbOK
  <1>3. call[me].obj = Schema /\ \A k \in Entries \ call[me].todo : ~db[k].exists
        BY <1>2 DEF SchemaInv, DropOnItsWay
  <1>4. i \in call[me].todo /\ i \in Entries /\ e = i
    <2>1. i \in call[me].todo /\ i \in DOMAIN Schema
          BY <1>2, <1>3, TurnIsLeft
    <2> QED BY <1>3, <2>1 DEF Entry, Schema
  <1>5. /\ \A k \in Entries : k # i => db'[k] = db[k]
        /\ db'[i].rows = {} /\ db'[i].seq = 0
        BY <1>1, <1>2, <1>4 DEF NoTable
  <1>6. ASSUME NEW k \in Entries, Linked(k), Up[k] = i PROVE db'[k].rows = {}
    <2>1. k \notin call[me].todo
      <3>1. \A j \in call[me].todo : call[me].obj[j].up # i
            BY <1>1, <1>2 DEF Turn, PostOrder
      <3>2. Schema[k].up = i
            BY <1>6 DEF Schema
      <3> QED BY <1>3, <3>1, <3>2
    <2>2. db[k] = NoTable /\ k # i
          BY <1>3, <1>6, <2>1, OwnerIsAnotherEntry DEF LinkInv, TypeOK, DbOK
    <2> QED BY <1>5, <2>2 DEF NoTable
  <1>7. \A k \in Entries : db'[k].rows \subseteq db[k].rows
        BY <1>5
  <1>8. \A k \in Entries : Linked(k) => Up[k] \in Entries
        BY OwnerIsAnotherEntry
  <1>9. LinkIntegrity'
        BY <1>7, <1>8 DEF LinkInv, LinkIntegrity, Linked
  <1>10. RowsNumbered'
    <2> SUFFICES ASSUME NEW k \in Entries, NEW r \in db'[k].rows
                 PROVE  /\ r.tok \in 1..clock' /\ r.ptok \in 0..clock'
                        /\ Keyed[k] => r.id \in 1..db'[k].seq
                        /\ Linked(k) => r.pid <= db'[Up[k]].seq
        BY DEF RowsNumbered, Linked
    <2>1. r \in db[k].rows /\ k # i /\ (Linked(k) => Up[k] # i)
          BY <1>5, <1>6, <1>7
    <2> QED BY <1>2, <1>5, <1>8, <2>1 DEF LinkInv, RowsNumbered
  <1>11. NodesPaired'
    <2>1. call'[me].op # "insert"
      <3>1. PICK done, ok : ok \in BOOLEAN /\ Advance(me, done, call[me].obj, ok)
            BY OtherStatements
      <3> QED BY <1>2, <3>1, AdvanceKeepsOp
    <2> QED BY <2>1 DEF NodesPaired
  <1> QED BY <1>9, <1>10, <1>11 DEF LinkInv

Unwritten == OnlyCalls({"create", "insert", "delete", "drop"})

LEMMA NextUnwritten ==
    ASSUME NEW me, Clients = {me}, "drop" \notin Faulty, "update" \notin Calls,
           Calls \subseteq Operations
    PROVE  LinkInv /\ SchemaInv /\ Unwritten /\ [Next]_vars
             => LinkInv' /\ SchemaInv' /\ Unwritten'
  <1> SUFFICES ASSUME LinkInv, SchemaInv, Unwritten, [Next]_vars
               PROVE  LinkInv' /\ SchemaInv' /\ Unwritten'
      OBVIOUS
  <1>1. SchemaInv' /\ TypeOK'
        BY NextSchemaInv, NextTypeOK DEF LinkInv
  <1>2. Unwritten'
        BY NextOnlyCalls DEF LinkInv, TypeOK, Unwritten, Operations
  <1>3. ~UpdateRows(me)
        BY DEF Unwritten, OnlyCalls, UpdateRows
  <1> QED BY <1>1, <1>2, <1>3, DropKeepsLinkInv, NextLinkInv

\* When one client also drops the tables and creates them again, and the marks
\* start over, the join stays right: what a crash left of a drop hangs below
\* tables that are still there (OrmEngine!LinkIntegrity; meta_drop,
\* orm.cpp:1586-1612).
THEOREM LinksOutliveDrops ==
    ASSUME NEW me, Clients = {me}, "drop" \notin Faulty, "update" \notin Calls
    PROVE  Spec => []LinkIntegrity
  <1>1. Calls \subseteq Operations
        BY BoundAssumption
  <1>2. Init => LinkInv /\ SchemaInv /\ Unwritten
        BY InitLinkInv, InitSchemaInv, InitOnlyCalls DEF Unwritten
  <1>3. LinkInv => LinkIntegrity
        BY DEF LinkInv
  <1> QED BY <1>1, <1>2, <1>3, NextUnwritten, PTL DEF Spec

=============================================================================
