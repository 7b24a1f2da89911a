--------------------------- MODULE OrmEngineProofs ---------------------------
(***************************************************************************)
(* The form of the tables and of the calls under way: TypeOK and           *)
(* TablesNested of OrmEngine, for every schema and every bound.            *)
(***************************************************************************)
EXTENDS OrmEngine, SequenceTheorems, TLAPS

-----------------------------------------------------------------------------
(* Objects and calls.                                                      *)

\* The walk of create and drop is an object.
LEMMA SchemaIsObject == IsObject(Schema)
  <1>1. /\ Len(Up) \in Nat \ {0} /\ Entries = 1..Len(Up)
        /\ \A e \in Entries : Up[e] \in Nat
        BY SchemaAssumption DEF Entries
  <1>2. \A e \in Entries : Schema[e] \in Node
        BY <1>1, SchemaAssumption, BoundAssumption DEF Schema, Node
  <1>3. Schema \in Seq(Node) /\ Len(Schema) = Len(Up) /\ DOMAIN Schema = Entries
    <2>1. Schema = [i \in 1..Len(Up) |-> Schema[i]]
          BY <1>1 DEF Schema
    <2> QED BY <1>1, <1>2, <2>1
  <1>4. \A e \in Entries : Schema[e].e = e /\ Schema[e].up = Up[e]
        BY DEF Schema
  <1> QED BY <1>1, <1>3, <1>4, SchemaAssumption DEF IsObject

\* Writing a rowid into a node leaves the shape of the object alone.
LEMMA WriteBack ==
    ASSUME NEW o, IsObject(o), NEW i \in DOMAIN o, NEW id \in 0..MaxRowid, NEW tok \in Nat
    PROVE  /\ IsObject(Written(o, i, id, tok))
           /\ DOMAIN Written(o, i, id, tok) = DOMAIN o
           /\ Written(o, i, id, tok)[i].id = id /\ Written(o, i, id, tok)[i].tok = tok
           /\ \A j \in DOMAIN o : /\ Written(o, i, id, tok)[j].e = o[j].e
                                  /\ Written(o, i, id, tok)[j].up = o[j].up
           /\ \A j \in DOMAIN o : j # i => Written(o, i, id, tok)[j] = o[j]
  <1> DEFINE w == Written(o, i, id, tok)
  <1>1. o \in Seq(Node) /\ DOMAIN o = 1..Len(o) /\ Len(o) \in Nat
        BY DEF IsObject
  <1>2. \A j \in DOMAIN o : o[j] \in Node
        BY <1>1
  <1>3. DOMAIN w = DOMAIN o /\ \A j \in DOMAIN o : j # i => w[j] = o[j]
        BY DEF Written
  <1>4. w[i] = [o[i] EXCEPT !.id = id, !.tok = tok] /\ w = [o EXCEPT ![i] = w[i]]
        BY DEF Written
  <1>5. /\ w[i] \in Node /\ w[i].id = id /\ w[i].tok = tok
        /\ w[i].e = o[i].e /\ w[i].up = o[i].up
        BY <1>2, <1>4 DEF Node
  <1>6. \A j \in DOMAIN o : w[j] \in Node /\ w[j].e = o[j].e /\ w[j].up = o[j].up
        BY <1>2, <1>3, <1>5
  <1>7. w \in Seq(Node) /\ Len(w) = Len(o)
    <2>1. w = [o EXCEPT ![i] = w[i]]
          BY <1>4
    <2>2. i \in 1..Len(o)
          BY <1>1
    <2> QED BY ONLY <1>1, <1>5, <2>1, <2>2, ExceptSeq
  <1>8. IsObject(w)
    <2>1. Len(w) > 0 /\ 1 \in DOMAIN o
          BY <1>1, <1>7 DEF IsObject
    <2>2. w[1].e = 1 /\ w[1].up = 0
          BY <1>6, <2>1 DEF IsObject
    <2>3. ASSUME NEW j \in DOMAIN w \ {1}
          PROVE  w[j].up \in 1..(j - 1) /\ Up[w[j].e] = w[w[j].up].e
      <3>1. o[j].up \in 1..(j - 1) /\ Up[o[j].e] = o[o[j].up].e
            BY <1>3 DEF IsObject
      <3>2. o[j].up \in DOMAIN o
            BY <1>1, <1>3, <3>1
      <3> QED BY <1>3, <1>6, <3>1, <3>2
    <2> QED BY <1>7, <2>1, <2>2, <2>3 DEF IsObject
  <1> QED BY <1>3, <1>5, <1>6, <1>8

\* The program changes the columns of one value.
LEMMA ChangeValue ==
    ASSUME NEW h, IsObject(h), NEW i \in DOMAIN h, NEW v \in Val,
           NEW o, o = [h EXCEPT ![i].val = v]
    PROVE  /\ IsObject(o) /\ DOMAIN o = DOMAIN h
           /\ \A j \in DOMAIN h : /\ o[j].e = h[j].e /\ o[j].up = h[j].up
                                 /\ o[j].id = h[j].id /\ o[j].tok = h[j].tok
  <1>1. h \in Seq(Node) /\ DOMAIN h = 1..Len(h) /\ Len(h) \in Nat /\ i \in 1..Len(h)
        BY DEF IsObject
  <1>2. h[i] \in Node
        BY <1>1
  <1>3. o[i] = [h[i] EXCEPT !.val = v] /\ o = [h EXCEPT ![i] = o[i]]
        OBVIOUS
  <1>4. /\ o[i] \in Node /\ o[i].e = h[i].e /\ o[i].up = h[i].up
        /\ o[i].id = h[i].id /\ o[i].tok = h[i].tok
        BY <1>2, <1>3 DEF Node
  <1>5. /\ DOMAIN o = DOMAIN h
        /\ \A j \in DOMAIN h : /\ o[j].e = h[j].e /\ o[j].up = h[j].up
                              /\ o[j].id = h[j].id /\ o[j].tok = h[j].tok
        BY <1>3, <1>4
  <1>6. o \in Seq(Node) /\ Len(o) = Len(h)
        BY ONLY <1>1, <1>3, <1>4, ExceptSeq
  <1>7. Len(o) > 0 /\ 1 \in DOMAIN h
        BY <1>1, <1>6 DEF IsObject
  <1>8. o[1].e = 1 /\ o[1].up = 0
        BY <1>5, <1>7 DEF IsObject
  <1>9. ASSUME NEW j \in DOMAIN o \ {1}
        PROVE  o[j].up \in 1..(j - 1) /\ Up[o[j].e] = o[o[j].up].e
    <2>1. h[j].up \in 1..(j - 1) /\ Up[h[j].e] = h[h[j].up].e
          BY <1>5 DEF IsObject
    <2>2. h[j].up \in DOMAIN h
          BY <1>1, <1>5, <2>1
    <2> QED BY <1>5, <2>1, <2>2
  <1>10. IsObject(o)
         BY <1>6, <1>7, <1>8, <1>9 DEF IsObject
  <1> QED BY <1>5, <1>10

\* What the program makes of an object it holds is an object again, and what
\* rowids it carries, the first one carried for a value of the same entry.
IdsFrom(o, h) ==
    \A i \in DOMAIN o : \/ o[i].id = 0 /\ o[i].tok = 0
                        \/ \E j \in DOMAIN h : /\ h[j].e = o[i].e
                                               /\ h[j].id = o[i].id /\ h[j].tok = o[i].tok

LEMMA RemadeIsObject ==
    ASSUME NEW h, IsObject(h), NEW n \in NewObjects,
           NEW f \in [DOMAIN n -> 0..Len(h)], \A i \in DOMAIN n : f[i] # 0 => h[f[i]].e = n[i].e
    PROVE  /\ IsObject(Remade(n, h, f)) /\ DOMAIN Remade(n, h, f) = DOMAIN n
           /\ IdsFrom(Remade(n, h, f), h)
           /\ \A i \in DOMAIN n : /\ Remade(n, h, f)[i].e = n[i].e
                                  /\ Remade(n, h, f)[i].up = n[i].up
  <1> DEFINE o == Remade(n, h, f)
  <1>1. /\ h \in Seq(Node) /\ DOMAIN h = 1..Len(h) /\ Len(h) \in Nat
        /\ n \in Seq(Node) /\ DOMAIN n = 1..Len(n) /\ Len(n) \in Nat
        /\ IsObject(n) /\ Len(n) > 0
        BY ObjectAssumption DEF IsObject
  <1>2. ASSUME NEW i \in DOMAIN n
        PROVE  /\ o[i] \in Node /\ o[i].e = n[i].e /\ o[i].up = n[i].up
               /\ \/ o[i].id = 0 /\ o[i].tok = 0
                  \/ \E j \in DOMAIN h : /\ h[j].e = o[i].e
                                         /\ h[j].id = o[i].id /\ h[j].tok = o[i].tok
    <2>1. n[i] \in Node /\ n[i].id = 0 /\ n[i].tok = 0
          BY <1>1, ObjectAssumption
    <2>2. CASE f[i] = 0
      <3>1. o[i] = n[i]
            BY <2>2 DEF Remade
      <3> QED BY <2>1, <3>1
    <2>3. CASE f[i] # 0
      <3>1. f[i] \in DOMAIN h /\ h[f[i]].e = n[i].e
            BY <1>1, <2>3
      <3>2. h[f[i]] \in Node
            BY <1>1, <3>1
      <3>3. o[i] = [n[i] EXCEPT !.id = h[f[i]].id, !.tok = h[f[i]].tok]
            BY <2>3 DEF Remade
      <3>4. /\ o[i] \in Node /\ o[i].e = n[i].e /\ o[i].up = n[i].up
            /\ o[i].id = h[f[i]].id /\ o[i].tok = h[f[i]].tok
            BY <2>1, <3>2, <3>3 DEF Node
      <3> QED BY <3>1, <3>4
    <2> QED BY <2>2, <2>3
  <1>3. DOMAIN o = DOMAIN n /\ o = [i \in 1..Len(n) |-> o[i]]
        BY <1>1 DEF Remade
  <1> HIDE DEF o
  <1>4. o \in Seq(Node) /\ Len(o) = Len(n)
        BY <1>1, <1>2, <1>3
  <1>5. IsObject(o)
    <2>1. 1 \in DOMAIN n /\ o[1].e = 1 /\ o[1].up = 0
          BY <1>1, <1>2 DEF IsObject
    <2>2. ASSUME NEW j \in DOMAIN o \ {1}
          PROVE  o[j].up \in 1..(j - 1) /\ Up[o[j].e] = o[o[j].up].e
      <3>1. n[j].up \in 1..(j - 1) /\ Up[n[j].e] = n[n[j].up].e
            BY <1>1, <1>3 DEF IsObject
      <3>2. n[j].up \in DOMAIN n /\ j \in DOMAIN n
            BY <1>1, <1>3, <3>1
      <3> QED BY <1>2, <3>1, <3>2
    <2> QED BY <1>1, <1>4, <2>1, <2>2 DEF IsObject
  <1> QED BY <1>2, <1>3, <1>5 DEF o, IdsFrom

LEMMA EditIsObject ==
    ASSUME NEW h, IsObject(h), NEW o \in Edits(h)
    PROVE  /\ IsObject(o) /\ IdsFrom(o, h)
           /\ SelectedOnly => o = h /\ Known(h)
  <1>1. IdsFrom(h, h)
        BY DEF IdsFrom
  <1>2. CASE SelectedOnly
        BY <1>1, <1>2 DEF Edits
  <1>3. CASE ~SelectedOnly /\ o # h
    <2>1. PICK n \in NewObjects :
            \E f \in [DOMAIN n -> 0..Len(h)] :
               /\ \A i \in DOMAIN n : f[i] # 0 => h[f[i]].e = n[i].e
               /\ o = Remade(n, h, f)
          BY <1>3 DEF Edits
    <2> QED BY <1>3, <2>1, RemadeIsObject
  <1> QED BY <1>1, <1>2, <1>3

\* The node whose turn it is, is one of those left to visit.
LEMMA TurnIsLeft ==
    ASSUME CallOK, NEW c \in Clients, NEW i \in Turn(c)
    PROVE  /\ i \in call[c].todo /\ i \in DOMAIN call[c].obj
           /\ Entry(c, i) \in Entries /\ Entry(c, i) = call[c].obj[i].e
           /\ call[c].obj[i] \in Node
           /\ ParentId(c, i) \in 0..MaxRowid
  <1>1. i \in call[c].todo /\ i \in DOMAIN call[c].obj
        BY DEF Turn, CallOK
  <1>2. IsObject(call[c].obj)
        BY DEF CallOK
  <1>3. call[c].obj[i] \in Node
        BY <1>1, <1>2 DEF IsObject
  <1>4. Entry(c, i) \in Entries /\ Entry(c, i) = call[c].obj[i].e
        BY <1>3 DEF Entry, Node
  <1>5. ASSUME Linked(Entry(c, i))
        PROVE  call[c].obj[call[c].obj[i].up].id \in 0..MaxRowid
    <2>1. i # 1
          BY <1>2, <1>4, <1>5 DEF Linked, IsObject
    <2>2. call[c].obj[i].up \in DOMAIN call[c].obj
          BY <1>1, <1>2, <2>1 DEF IsObject
    <2>3. call[c].obj[call[c].obj[i].up] \in Node
          BY <1>2, <2>2 DEF IsObject
    <2> QED BY <2>3 DEF Node
  <1>6. 0 \in 0..MaxRowid
        BY BoundAssumption
  <1>7. ParentId(c, i) \in 0..MaxRowid
        BY <1>5, <1>6 DEF ParentId
  <1> QED BY <1>1, <1>3, <1>4, <1>7

LEMMA IdleOK == Idle \in CallRecord
                /\ IsObject(Idle.obj) /\ Idle.todo = {}
  BY SchemaIsObject DEF Idle, CallRecord, Operations, IsObject

LEMMA AdvanceKeepsCallOK ==
    ASSUME CallOK, NEW c \in Clients, NEW done, NEW o, IsObject(o),
           DOMAIN o = DOMAIN call[c].obj, NEW ok \in BOOLEAN, Advance(c, done, o, ok)
    PROVE  CallOK'
  <1> DEFINE now == [call[c] EXCEPT !.obj = o, !.todo = @ \ done, !.ok = @ /\ ok]
  <1>1. call[c] \in CallRecord /\ call[c].todo \subseteq DOMAIN call[c].obj
        BY DEF CallOK
  <1>2. o \in Seq(Node)
        BY DEF IsObject
  <1>3. now \in CallRecord /\ now.obj = o /\ now.todo \subseteq DOMAIN o
        BY <1>1, <1>2 DEF CallRecord
  <1>4. call' = [call EXCEPT ![c] = IF now.todo = {} THEN Idle ELSE now]
        BY DEF Advance
  <1>5. call \in [Clients -> CallRecord]
        BY DEF CallOK
  <1>6. call' \in [Clients -> CallRecord]
        BY <1>3, <1>4, <1>5, IdleOK
  <1>7. \A d \in Clients : IsObject(call'[d].obj) /\ call'[d].todo \subseteq DOMAIN call'[d].obj
        BY <1>3, <1>4, <1>5, IdleOK DEF CallOK
  <1>8. QED BY <1>6, <1>7 DEF CallOK, IsObject

LEMMA EnterKeepsCallOK ==
    ASSUME CallOK, NEW c \in Clients, NEW op, NEW o, IsObject(o), NEW mine \in BOOLEAN,
           Enter(c, op, o, mine)
    PROVE  CallOK'
  <1>1. op \in Operations
        BY BoundAssumption DEF Enter, Free
  <1>2. o \in Seq(Node) /\ DOMAIN o \subseteq Nat
        BY DEF IsObject
  <1>3. call' = [call EXCEPT ![c] = [op |-> op, obj |-> o, todo |-> DOMAIN o, ok |-> TRUE,
                                       mine |-> mine]]
        BY DEF Enter
  <1> QED BY <1>1, <1>2, <1>3 DEF CallOK, CallRecord, IsObject
-----------------------------------------------------------------------------
(* Statements.                                                             *)

\* A rowid SQLite hands out identifies the new row; with AUTOINCREMENT it is
\* beyond every rowid the table has used.
LEMMA RowidIsNew ==
    ASSUME DbOK, NEW e \in Entries, NEW id \in NextRowids(e)
    PROVE  /\ id \in 1..MaxRowid
           /\ \A r \in db[e].rows : r.id # id
           /\ Keyed[e] => id > db[e].seq
  <1>1. db[e].seq \in 0..MaxRowid /\ \A r \in db[e].rows : r.id \in 0..MaxRowid
        BY DEF DbOK, Table, Row
  <1>2. CASE ~Keyed[e] /\ MaxRowid \in {r.id : r \in db[e].rows}
        BY <1>2 DEF NextRowids, Autoincrement
  <1>3. CASE Keyed[e] \/ MaxRowid \notin {r.id : r \in db[e].rows}
    <2> DEFINE used == {0} \cup {r.id : r \in db[e].rows}
                         \cup (IF Keyed[e] THEN {db[e].seq} ELSE {})
    <2>1. id \in 1..MaxRowid /\ \A m \in used : m < id
          BY <1>3 DEF NextRowids, Autoincrement
    <2>2. \A r \in db[e].rows : r.id \in used
          OBVIOUS
    <2>3. Keyed[e] => db[e].seq \in used
          OBVIOUS
    <2> HIDE DEF used
    <2> QED BY <1>1, <2>1, <2>2, <2>3
  <1> QED BY <1>2, <1>3

LEMMA InsertKeepsDbOK ==
    ASSUME DbOK, NEW e \in Entries, db[e].exists, NEW row \in Row,
           \A r \in db[e].rows : r.id # row.id, db' = Inserted(e, row)
    PROVE  DbOK'
  <1> DEFINE new == [db[e] EXCEPT !.rows = @ \cup {row}, !.seq = IF Keyed[e] THEN row.id ELSE @]
  <1>1. db \in [Entries -> Table] /\ db[e] \in Table
        BY DEF DbOK
  <1>2. db' = [db EXCEPT ![e] = new]
        BY <1>1 DEF Inserted, Autoincrement
  <1>3. new \in Table /\ new.exists /\ new.rows = db[e].rows \cup {row}
        BY <1>1 DEF Table, Row
  <1>4. db' \in [Entries -> Table]
        BY <1>1, <1>2, <1>3
  <1>5. \A k \in Entries : db'[k] = IF k = e THEN new ELSE db[k]
        BY <1>1, <1>2
  <1> HIDE DEF new
  <1>6. \A r, q \in new.rows : r.id = q.id => r = q
        BY <1>3 DEF DbOK
  <1> QED BY <1>3, <1>4, <1>5, <1>6 DEF DbOK

LEMMA UpdateKeepsDbOK ==
    ASSUME DbOK, NEW e \in Entries, db[e].exists, NEW pid, NEW id \in 0..MaxRowid,
           NEW val \in Val, db' = Updated(e, pid, id, val)
    PROVE  /\ DbOK'
           /\ \A r, q \in db[e].rows \ db'[e].rows : r = q
  <1> DEFINE match == Matching(e, pid)
  <1> DEFINE hit   == IF \E r \in db[e].rows : r.id = id
                      THEN {r \in match : r.id = id}
                      ELSE {r \in match : \A q \in match : r.id <= q.id}
  <1> DEFINE put(r) == [r EXCEPT !.id = id, !.val = val]
  <1> DEFINE after == (db[e].rows \ hit) \cup {put(r) : r \in hit}
  <1>1. db \in [Entries -> Table] /\ db[e] \in Table /\ db[e].rows \subseteq Row
        BY DEF DbOK, Table
  <1>2. match \subseteq db[e].rows /\ hit \subseteq db[e].rows
        BY DEF Matching
  <1>3. db' = [db EXCEPT ![e].rows = after]
        BY DEF Updated
  <1>4. \A r \in hit : put(r) \in Row /\ put(r).id = id
        BY <1>1, <1>2 DEF Row
  <1>5. after \subseteq Row
        BY <1>1, <1>4
  <1>6. \A r, q \in hit : r = q
    <2>1. ASSUME NEW r \in hit, NEW q \in hit
          PROVE  r.id = q.id
          BY <1>1, <1>2, <2>1 DEF Row
    <2> QED BY <1>2, <2>1 DEF DbOK
  <1>7. \A r \in db[e].rows \ hit : hit # {} => r.id # id
    <2>1. SUFFICES ASSUME NEW r \in db[e].rows \ hit, NEW h \in hit, r.id = id
                   PROVE  FALSE
          OBVIOUS
    <2>2. h.id = id
          BY <2>1
    <2> QED BY <1>2, <2>1, <2>2 DEF DbOK
  <1>8. \A r, q \in after : r.id = q.id => r = q
    <2>1. SUFFICES ASSUME NEW r \in after, NEW q \in after, r.id = q.id
                   PROVE  r = q
          OBVIOUS
    <2>2. CASE r \in db[e].rows \ hit /\ q \in db[e].rows \ hit
          BY <2>1, <2>2 DEF DbOK
    <2>3. CASE r \in db[e].rows \ hit /\ q \in {put(x) : x \in hit}
          BY <1>4, <1>7, <2>1, <2>3
    <2>4. CASE r \in {put(x) : x \in hit} /\ q \in db[e].rows \ hit
          BY <1>4, <1>7, <2>1, <2>4
    <2>5. CASE r \in {put(x) : x \in hit} /\ q \in {put(x) : x \in hit}
          BY <1>6, <2>5
    <2> QED BY <2>1, <2>2, <2>3, <2>4, <2>5
  <1>9. db[e].rows \ after \subseteq hit
        OBVIOUS
  <1> HIDE DEF after, hit, match, put
  <1>10. /\ db' \in [Entries -> Table]
         /\ \A k \in Entries : k # e => db'[k] = db[k]
         /\ db'[e].rows = after /\ db'[e].exists
         BY <1>1, <1>3, <1>5 DEF Table
  <1>11. DbOK'
         BY <1>8, <1>10 DEF DbOK
  <1> QED BY <1>6, <1>9, <1>10, <1>11

LEMMA DeleteKeepsDbOK ==
    ASSUME DbOK, NEW e \in Entries, db[e].exists, NEW pid, db' = Deleted(e, pid)
    PROVE  DbOK'
  <1> DEFINE after == db[e].rows \ Matching(e, pid)
  <1>1. db \in [Entries -> Table] /\ db[e] \in Table /\ after \subseteq db[e].rows
        BY DEF DbOK
  <1>2. db' = [db EXCEPT ![e].rows = after]
        BY DEF Deleted
  <1> HIDE DEF after
  <1>3. /\ db' \in [Entries -> Table]
        /\ \A k \in Entries : k # e => db'[k] = db[k]
        /\ db'[e].rows = after /\ db'[e].exists
        BY <1>1, <1>2 DEF Table
  <1> QED BY <1>1, <1>3 DEF DbOK

-----------------------------------------------------------------------------
(* Form: TypeOK is inductive as it stands.                                 *)

LEMMA InitTypeOK == Init => TypeOK
  <1> SUFFICES ASSUME Init PROVE TypeOK
      OBVIOUS
  <1>1. PICK made \in BOOLEAN : db = [e \in Entries |-> [NoTable EXCEPT !.exists = made]]
        BY DEF Init
  <1>2. [NoTable EXCEPT !.exists = made] = [exists |-> made, seq |-> 0, rows |-> {}]
        BY DEF NoTable
  <1>3. DbOK
    <2>1. 0 \in 0..MaxRowid
          BY BoundAssumption
    <2>2. [exists |-> made, seq |-> 0, rows |-> {}] \in Table
          BY <2>1 DEF Table
    <2>3. db = [e \in Entries |-> [exists |-> made, seq |-> 0, rows |-> {}]]
          BY <1>1, <1>2
    <2> QED BY <2>2, <2>3 DEF DbOK, NoTable
  <1>4. CallOK
        BY IdleOK DEF Init, CallOK
  <1> QED BY <1>3, <1>4, BoundAssumption DEF Init, TypeOK

LEMMA CallKeepsTypeOK ==
    ASSUME TypeOK, NEW c \in Clients, Call(c)
    PROVE  TypeOK'
  <1>1. ASSUME NEW op, NEW o, IsObject(o), NEW mine \in BOOLEAN, Enter(c, op, o, mine)
        PROVE  TypeOK'
    <2>1. CallOK'
          BY <1>1, EnterKeepsCallOK DEF TypeOK
    <2>2. DbOK' /\ clock' \in Nat /\ calls' \in 0..MaxCalls /\ faults' \in Nat
          BY <1>1, BoundAssumption DEF TypeOK, DbOK, Enter, Free
    <2>3. DOMAIN held' = Clients
          BY <1>1 DEF Enter, TypeOK
    <2> QED BY <2>1, <2>2, <2>3 DEF TypeOK
  <1>2. CASE CallCreate(c)
        BY <1>1, <1>2, SchemaIsObject DEF CallCreate
  <1>3. CASE CallDrop(c)
        BY <1>1, <1>3, SchemaIsObject DEF CallDrop
  <1>4. CASE CallInsert(c)
    <2>1. PICK o \in NewObjects, mine \in BOOLEAN : Enter(c, "insert", o, mine)
          BY <1>4 DEF CallInsert
    <2> QED BY <1>1, <2>1, ObjectAssumption
  <1>5. CASE CallUpdate(c)
    <2>1. PICK h \in Edits(held[c]) : \E i \in DOMAIN h, v \in Val :
                 Enter(c, "update", [h EXCEPT ![i].val = v], TRUE)
          BY <1>5 DEF CallUpdate
    <2>2. PICK i \in DOMAIN h, v \in Val : Enter(c, "update", [h EXCEPT ![i].val = v], TRUE)
          BY <2>1
    <2>3. IsObject(h)
          BY <1>5, EditIsObject DEF CallUpdate
    <2>4. IsObject([h EXCEPT ![i].val = v])
          BY <2>3, ChangeValue
    <2> QED BY <1>1, <2>2, <2>4
  <1>6. CASE CallDelete(c)
    <2>1. PICK o \in Edits(held[c]) : Enter(c, "delete", o, TRUE)
          BY <1>6 DEF CallDelete
    <2>2. IsObject(o)
          BY <1>6, EditIsObject DEF CallDelete
    <2> QED BY <1>1, <2>1, <2>2
  <1>7. CASE Select(c)
        BY <1>7, BoundAssumption DEF Select, Free, TypeOK, DbOK, CallOK
  <1>8. CASE FailSelect(c)
        BY <1>8, BoundAssumption DEF FailSelect, Free, TypeOK, DbOK, CallOK
  <1> QED BY <1>2, <1>3, <1>4, <1>5, <1>6, <1>7, <1>8 DEF Call

LEMMA StatementKeepsTypeOK ==
    ASSUME TypeOK, NEW c \in Clients, Statement(c)
    PROVE  TypeOK'
  <1> USE DEF TypeOK
  <1>1. ASSUME NEW i \in Turn(c)
        PROVE  /\ IsObject(call[c].obj) /\ i \in DOMAIN call[c].obj
               /\ Entry(c, i) \in Entries /\ Entry(c, i) = call[c].obj[i].e
               /\ call[c].obj[i] \in Node /\ ParentId(c, i) \in 0..MaxRowid
        BY TurnIsLeft DEF CallOK
  <1>2. ASSUME NEW done, NEW ok \in BOOLEAN, Advance(c, done, call[c].obj, ok)
        PROVE  CallOK'
    <2>1. IsObject(call[c].obj)
          BY DEF CallOK
    <2> QED BY <1>2, <2>1, AdvanceKeepsCallOK
  <1>3. CASE CreateTable(c)
    <2>1. PICK i \in Turn(c) : /\ db' = [db EXCEPT ![Entry(c, i)].exists = TRUE]
                               /\ Advance(c, {i}, call[c].obj, TRUE)
          BY <1>3 DEF CreateTable
    <2>2. CallOK'
          BY <1>2, <2>1
    <2>3. DbOK'
      <3>1. Entry(c, i) \in Entries /\ db \in [Entries -> Table]
            BY <1>1 DEF DbOK
      <3>2. /\ db' \in [Entries -> Table]
            /\ \A e \in Entries : db'[e].rows = db[e].rows
            /\ \A e \in Entries : e # Entry(c, i) => db'[e] = db[e]
            /\ db'[Entry(c, i)].exists
            BY <2>1, <3>1 DEF Table
      <3> QED BY <3>1, <3>2 DEF DbOK
    <2> QED BY <1>3, <2>2, <2>3 DEF CreateTable
  <1>4. CASE DropTable(c)
    <2>1. PICK i \in Turn(c) : /\ db' = [db EXCEPT ![Entry(c, i)] = NoTable]
                               /\ Advance(c, {i}, call[c].obj, TRUE)
          BY <1>4 DEF DropTable
    <2>2. CallOK'
          BY <1>2, <2>1
    <2>3. NoTable \in Table
          BY BoundAssumption DEF NoTable, Table
    <2>4. DbOK'
          BY <1>1, <2>1, <2>3 DEF DbOK, NoTable
    <2> QED BY <1>4, <2>2, <2>4 DEF DropTable
  <1>5. CASE InsertRow(c)
    <2> DEFINE o == call[c].obj
    <2>0. PICK i \in Turn(c) :
            LET e == o[i].e
            IN  /\ db[e].exists
                /\ \E id \in NextRowids(e) :
                     LET key == IF Keyed[e] THEN id ELSE 0 IN
                     /\ db' = Inserted(e, [id |-> id, pid |-> ParentId(c, i), val |-> o[i].val,
                                           tok |-> clock + 1,
                                           ptok |-> IF Linked(e) THEN o[o[i].up].tok ELSE 0])
                     /\ Advance(c, {i}, Written(o, i, key, clock + 1), TRUE)
                     /\ held' = IF ByRef[e] /\ call[c].mine
                                THEN [held EXCEPT ![c] = Written(@, i, key, clock + 1)]
                                ELSE held
          BY <1>5 DEF InsertRow
    <2> DEFINE e == o[i].e
    <2>1. PICK id \in NextRowids(e) :
            LET key == IF Keyed[e] THEN id ELSE 0
            IN  /\ db' = Inserted(e, [id |-> id, pid |-> ParentId(c, i), val |-> o[i].val,
                                      tok |-> clock + 1,
                                      ptok |-> IF Linked(e) THEN o[o[i].up].tok ELSE 0])
                /\ Advance(c, {i}, Written(o, i, key, clock + 1), TRUE)
                /\ held' = IF ByRef[e] /\ call[c].mine
                           THEN [held EXCEPT ![c] = Written(@, i, key, clock + 1)] ELSE held
          BY <2>0
    <2> DEFINE key == IF Keyed[e] THEN id ELSE 0
               row == [id |-> id, pid |-> ParentId(c, i), val |-> o[i].val, tok |-> clock + 1,
                       ptok |-> IF Linked(e) THEN o[o[i].up].tok ELSE 0]
               w   == Written(o, i, key, clock + 1)
    <2>2. IsObject(o) /\ i \in DOMAIN o /\ e \in Entries /\ o[i] \in Node
          BY <1>1
    <2>3. id \in 1..MaxRowid /\ \A r \in db[e].rows : r.id # id
          BY <2>2, RowidIsNew
    <2>4. key \in 0..MaxRowid /\ clock + 1 \in Nat
          BY <2>3, BoundAssumption
    <2>5. IsObject(w) /\ DOMAIN w = DOMAIN o
      <3> HIDE DEF o, key, e
      <3> QED BY <2>2, <2>4, WriteBack
    <2>6. CallOK'
          BY <2>1, <2>5, AdvanceKeepsCallOK
    <2>7. (IF Linked(e) THEN o[o[i].up].tok ELSE 0) \in Nat
      <3>1. ASSUME Linked(e)
            PROVE  o[o[i].up] \in Node
            BY <2>2, <3>1 DEF Linked, IsObject
      <3> QED BY <3>1 DEF Node
    <2>8. row \in Row
          BY <1>1, <2>2, <2>3, <2>4, <2>7 DEF Row, Node
    <2>9. DbOK'
          BY <2>0, <2>1, <2>2, <2>3, <2>8, InsertKeepsDbOK
    <2>10. DOMAIN held' = Clients
          BY <2>1
    <2>11. clock' = clock + 1 /\ UNCHANGED <<calls, faults>>
          BY <1>5 DEF InsertRow
    <2> QED BY <2>4, <2>6, <2>9, <2>10, <2>11
  <1>6. CASE UpdateRows(c)
    <2>1. PICK i \in Turn(c) :
            LET n == call[c].obj[i]
            IN  /\ db[n.e].exists
                /\ db' = Updated(n.e, ParentId(c, i), n.id, n.val)
                /\ Advance(c, {i}, call[c].obj, TRUE)
          BY <1>6 DEF UpdateRows
    <2>2. CallOK'
          BY <1>2, <2>1
    <2>3. DbOK'
          BY <1>1, <2>1, UpdateKeepsDbOK DEF Node
    <2> QED BY <1>6, <2>2, <2>3 DEF UpdateRows
  <1>7. CASE DeleteRows(c)
    <2>1. PICK i \in Turn(c) : /\ db[Entry(c, i)].exists
                               /\ db' = Deleted(Entry(c, i), ParentId(c, i))
                               /\ Advance(c, {i}, call[c].obj, TRUE)
          BY <1>7 DEF DeleteRows
    <2>2. CallOK'
          BY <1>2, <2>1
    <2>3. DbOK'
          BY <1>1, <2>1, DeleteKeepsDbOK
    <2> QED BY <1>7, <2>2, <2>3 DEF DeleteRows
  <1>8. CASE FailStatement(c)
    <2>1. CallOK'
          BY <1>2, <1>8 DEF FailStatement
    <2>2. DbOK'
          BY <1>8 DEF FailStatement, DbOK
    <2> QED BY <1>8, <2>1, <2>2 DEF FailStatement
  <1>9. CASE FailInsert(c)
    <2> DEFINE o == call[c].obj
    <2>1. PICK i \in Turn(c) :
            /\ Advance(c, {i}, Written(o, i, 0, 0), FALSE)
            /\ held' = IF ByRef[o[i].e] /\ call[c].mine
                       THEN [held EXCEPT ![c] = Written(@, i, 0, 0)] ELSE held
          BY <1>9 DEF FailInsert
    <2>2. 0 \in 0..MaxRowid /\ 0 \in Nat
          BY BoundAssumption
    <2>3. IsObject(o) /\ i \in DOMAIN o
          BY <1>1
    <2> DEFINE w == Written(o, i, 0, 0)
    <2>4. IsObject(w) /\ DOMAIN w = DOMAIN o
      <3> HIDE DEF o
      <3> QED BY <2>2, <2>3, WriteBack
    <2>5. CallOK'
          BY <2>1, <2>4, AdvanceKeepsCallOK
    <2>6. DbOK' /\ clock' \in Nat /\ calls' \in 0..MaxCalls /\ faults' \in Nat
          BY <1>9 DEF FailInsert, DbOK
    <2>7. DOMAIN held' = Clients
          BY <2>1
    <2> QED BY <2>5, <2>6, <2>7
  <1> QED BY <1>3, <1>4, <1>5, <1>6, <1>7, <1>8, <1>9 DEF Statement

LEMMA NextTypeOK == TypeOK /\ [Next]_vars => TypeOK'
  <1> SUFFICES ASSUME TypeOK, [Next]_vars PROVE TypeOK'
      OBVIOUS
  <1>1. ASSUME NEW c \in Clients, Call(c) PROVE TypeOK'
        BY <1>1, CallKeepsTypeOK
  <1>2. ASSUME NEW c \in Clients, Statement(c) PROVE TypeOK'
        BY <1>2, StatementKeepsTypeOK
  <1>3. ASSUME NEW c \in Clients, Crash(c) PROVE TypeOK'
    <2>1. CallOK'
          BY <1>3, IdleOK DEF Crash, TypeOK, CallOK
    <2> QED BY <1>3, <2>1 DEF Crash, TypeOK, DbOK
  <1>4. CASE UNCHANGED vars
        BY <1>4 DEF vars, TypeOK, DbOK, CallOK
  <1> QED BY <1>1, <1>2, <1>3, <1>4 DEF Next

\* The store and the calls keep their form under every operation, crash and
\* failed statement: in particular UPDATE OR IGNORE never leaves two rows with
\* one rowid, although it rewrites rowids (OrmEngine!TypeOK; orm.cpp:1142-1612).
THEOREM TypeCorrect == Spec => []TypeOK
  BY InitTypeOK, NextTypeOK, PTL DEF Spec

-----------------------------------------------------------------------------
(* The calls that are under way.                                            *)

\* A statement leaves the operation of every call, or ends the call.
LEMMA AdvanceKeepsOp ==
    ASSUME CallOK, NEW c \in Clients, NEW done, NEW o, NEW ok \in BOOLEAN,
           Advance(c, done, o, ok)
    PROVE  /\ \A d \in Clients : d # c => call'[d] = call[d]
           /\ call'[c].op \in {"create", call[c].op}
  <1> DEFINE now == [call[c] EXCEPT !.obj = o, !.todo = @ \ done, !.ok = @ /\ ok]
  <1>1. call' = [call EXCEPT ![c] = IF now.todo = {} THEN Idle ELSE now]
        BY DEF Advance
  <1>2. call \in [Clients -> CallRecord]
        BY DEF CallOK
  <1>3. now.op = call[c].op /\ Idle.op = "create"
        BY <1>2 DEF Idle, CallRecord
  <1> HIDE DEF now
  <1> QED BY <1>1, <1>2, <1>3

\* Every statement but those of insert goes on with the object it has.
LEMMA OtherStatements ==
    ASSUME NEW c \in Clients,
           \/ CreateTable(c) \/ DropTable(c) \/ UpdateRows(c) \/ DeleteRows(c) \/ FailStatement(c)
    PROVE  /\ call[c].op # "insert" /\ UNCHANGED <<held, clock, calls>>
           /\ \E done, ok : ok \in BOOLEAN /\ Advance(c, done, call[c].obj, ok)
  <1>1. CASE CreateTable(c)
        BY <1>1 DEF CreateTable
  <1>2. CASE DropTable(c)
        BY <1>2 DEF DropTable
  <1>3. CASE UpdateRows(c)
        BY <1>3 DEF UpdateRows
  <1>4. CASE DeleteRows(c)
        BY <1>4 DEF DeleteRows
  <1>5. CASE FailStatement(c)
        BY <1>5 DEF FailStatement
  <1> QED BY <1>1, <1>2, <1>3, <1>4, <1>5

\* The calls under way are of the operations in S.
OnlyCalls(S) == \A c \in Clients : call[c].op \in S

LEMMA InitOnlyCalls == ASSUME NEW S, "create" \in S PROVE Init => OnlyCalls(S)
  BY DEF Init, Idle, OnlyCalls

LEMMA NextOnlyCalls ==
    ASSUME NEW S, "create" \in S, Calls \ {"select"} \subseteq S
    PROVE  CallOK /\ OnlyCalls(S) /\ [Next]_vars => OnlyCalls(S)'
  <1> SUFFICES ASSUME CallOK, OnlyCalls(S), [Next]_vars PROVE OnlyCalls(S)'
      OBVIOUS
  <1>1. DOMAIN call = Clients
        BY DEF CallOK
  <1>2. ASSUME NEW c \in Clients, NEW op \in S, NEW o, NEW mine, Enter(c, op, o, mine) PROVE OnlyCalls(S)'
        BY <1>1, <1>2 DEF Enter, OnlyCalls
  <1>3. ASSUME call' = call PROVE OnlyCalls(S)'
        BY <1>3 DEF OnlyCalls
  <1>4. ASSUME NEW c \in Clients, Call(c) PROVE OnlyCalls(S)'
    <2>1. CASE Select(c) \/ FailSelect(c)
          BY <1>3, <2>1 DEF Select, FailSelect
    <2>2. CASE CallCreate(c)
          BY <1>2, <2>2 DEF CallCreate
    <2>3. CASE CallDrop(c)
      <3>1. "drop" \in S
            BY <2>3 DEF CallDrop, Enter, Free
      <3> QED BY <1>2, <2>3, <3>1 DEF CallDrop
    <2>4. CASE CallInsert(c)
      <3>1. "insert" \in S
            BY <2>4 DEF CallInsert, Enter, Free
      <3> QED BY <1>2, <2>4, <3>1 DEF CallInsert
    <2>5. CASE CallUpdate(c)
      <3>1. "update" \in S
            BY <2>5 DEF CallUpdate, Enter, Free
      <3> QED BY <1>2, <2>5, <3>1 DEF CallUpdate
    <2>6. CASE CallDelete(c)
      <3>1. "delete" \in S
            BY <2>6 DEF CallDelete, Enter, Free
      <3> QED BY <1>2, <2>6, <3>1 DEF CallDelete
    <2> QED BY <1>4, <2>1, <2>2, <2>3, <2>4, <2>5, <2>6 DEF Call
  <1>5. ASSUME NEW c \in Clients, Statement(c) PROVE OnlyCalls(S)'
    <2>1. PICK done, o, ok : ok \in BOOLEAN /\ Advance(c, done, o, ok)
      <3>1. CASE InsertRow(c)
            BY <3>1 DEF InsertRow
      <3>2. CASE FailInsert(c)
            BY <3>2 DEF FailInsert
      <3> QED BY <1>5, <3>1, <3>2, OtherStatements DEF Statement
    <2>2. /\ \A d \in Clients : d # c => call'[d] = call[d]
          /\ call'[c].op \in {"create", call[c].op}
          BY <2>1, AdvanceKeepsOp
    <2> QED BY <2>2 DEF OnlyCalls
  <1>6. ASSUME NEW c \in Clients, Crash(c) PROVE OnlyCalls(S)'
        BY <1>1, <1>6 DEF Crash, Idle, OnlyCalls
  <1>7. CASE UNCHANGED vars
        BY <1>3, <1>7 DEF vars
  <1> QED BY <1>4, <1>5, <1>6, <1>7 DEF Next

-----------------------------------------------------------------------------
(* The tables of a schema come and go in an order that never leaves a child *)
(* table without the table it REFERENCES, as long as one client at a time   *)
(* creates and drops them and no DROP fails.                                *)

\* What create still has to make hangs below a table that is there or is to be
\* made first; what drop has left behind is gone.
CreateOnItsWay(c) ==
    call[c].op = "create" =>
        /\ call[c].obj = Schema
        /\ \A i \in call[c].todo \ {1} : Up[i] \in call[c].todo \/ db[Up[i]].exists

DropOnItsWay(c) ==
    call[c].op = "drop" =>
        /\ call[c].obj = Schema
        /\ \A e \in Entries \ call[c].todo : ~db[e].exists

SchemaInv ==
    /\ TypeOK /\ TablesNested
    /\ \A c \in Clients : CreateOnItsWay(c) /\ DropOnItsWay(c)

\* What is below an entry stays below it from owner to member.
LEMMA SubtreeIsClosed ==
    ASSUME NEW i \in Entries, NEW j \in Entries \ {1}, Up[j] \in Subtree(Schema, i)
    PROVE  j \in Subtree(Schema, i)
  <1>1. /\ Len(Up) \in Nat /\ Entries = 1..Len(Up) /\ DOMAIN Schema = Entries
        /\ \A k \in Entries : Schema[k].up = Up[k] /\ Up[k] \in Nat
    <2>1. Len(Up) \in Nat /\ Entries = 1..Len(Up) /\ \A k \in Entries : Up[k] \in Nat
          BY SchemaAssumption DEF Entries
    <2>2. DOMAIN Schema = Entries /\ \A k \in Entries : Schema[k].up = Up[k]
          BY DEF Schema
    <2> QED BY <2>1, <2>2
  <1>2. Up[j] \in 1..(j - 1) /\ Up[j] \in Entries /\ Up[j] >= i
        BY <1>1, SchemaAssumption DEF Subtree
  <1>3. \A k \in (i + 1)..Up[j] : Up[k] >= i
        BY <1>1, <1>2 DEF Subtree
  <1>4. \A k \in (i + 1)..j : Up[k] >= i
    <2> SUFFICES ASSUME NEW k \in (i + 1)..j, ~(k <= Up[j])
                 PROVE  Up[k] >= i
        BY <1>1, <1>2, <1>3
    <2>1. k \in Entries /\ Up[k] \in Nat /\ Up[j] < k
      <3>1. i \in Nat /\ j \in Nat /\ Up[j] \in Nat /\ i >= 1 /\ j <= Len(Up)
            BY <1>1
      <3>2. k \in Nat /\ 1 <= k /\ k <= Len(Up) /\ Up[j] < k
            BY <1>1, <3>1
      <3> QED BY <1>1, <3>2
    <2>2. CASE k = j
          BY <1>2, <2>2
    <2>3. CASE k # j
      <3>1. Up[j] < k /\ k < j
            BY <1>1, <2>1, <2>3
      <3>2. Up[k] >= Up[j]
            BY <2>1, <3>1, SchemaAssumption
      <3> QED BY <1>1, <1>2, <2>1, <3>2
    <2> QED BY <2>2, <2>3
  <1>5. i \in Nat /\ j \in DOMAIN Schema /\ j >= i
        BY <1>1, <1>2
  <1>6. \A k \in i + 1..j : Schema[k].up >= i
    <2> SUFFICES ASSUME NEW k \in i + 1..j PROVE Schema[k].up >= i
        OBVIOUS
    <2>1. k \in 1..Len(Up)
          BY <1>1
    <2>2. Up[k] >= i
          BY <1>4
    <2> QED BY ONLY <1>1, <2>1, <2>2
  <1> QED BY ONLY <1>5, <1>6 DEF Subtree

\* What a statement leaves of a call.
LEMMA Advanced ==
    ASSUME TypeOK, NEW c \in Clients, NEW done, NEW o, NEW ok \in BOOLEAN, Advance(c, done, o, ok)
    PROVE  \/ call'[c] = Idle /\ call[c].todo \subseteq done
           \/ /\ call'[c].op = call[c].op /\ call'[c].obj = o
              /\ call'[c].todo = call[c].todo \ done
  <1>1. call \in [Clients -> CallRecord]
        BY DEF TypeOK, CallOK
  <1> DEFINE now == [call[c] EXCEPT !.obj = o, !.todo = @ \ done, !.ok = @ /\ ok]
  <1>2. call' = [call EXCEPT ![c] = IF now.todo = {} THEN Idle ELSE now]
        BY DEF Advance
  <1>3. now.op = call[c].op /\ now.obj = o /\ now.todo = call[c].todo \ done
        BY <1>1 DEF CallRecord
  <1> HIDE DEF now
  <1> QED BY <1>1, <1>2, <1>3

LEMMA AdvanceKeepsMine ==
    ASSUME CallOK, NEW c \in Clients, NEW done, NEW o, NEW ok, Advance(c, done, o, ok)
    PROVE  call'[c] = Idle \/ call'[c].mine = call[c].mine
BY DEF Advance, CallOK, CallRecord

LEMMA IdleIsOnNoWay ==
    Idle.op = "create" /\ Idle.obj = Schema /\ Idle.todo = {}
BY DEF Idle

LEMMA InitSchemaInv == Init => SchemaInv
  <1> SUFFICES ASSUME Init PROVE SchemaInv
      OBVIOUS
  <1>1. TypeOK
        BY InitTypeOK
  <1>2. PICK made \in BOOLEAN : db = [e \in Entries |-> [NoTable EXCEPT !.exists = made]]
        BY DEF Init
  <1>3. \A e \in Entries : db[e].exists = made
        BY <1>2 DEF NoTable
  <1>4. \A e \in Entries \ {1} : Up[e] \in Entries
        BY SchemaAssumption DEF Entries
  <1>5. TablesNested
        BY <1>3, <1>4 DEF TablesNested
  <1>6. \A c \in Clients : call[c] = Idle
        BY DEF Init
  <1> QED BY <1>1, <1>5, <1>6, IdleIsOnNoWay DEF SchemaInv, CreateOnItsWay, DropOnItsWay

\* CREATE TABLE makes the first entry on the list, whose owner is not on it.
LEMMA CreateTableKeepsSchemaInv ==
    ASSUME NEW me, Clients = {me}, SchemaInv, TypeOK', CreateTable(me)
    PROVE  SchemaInv'
  <1>1. PICK i \in Turn(me) :
          /\ call[me].op = "create"
          /\ db' = [db EXCEPT ![Entry(me, i)].exists = TRUE]
          /\ Advance(me, {i}, call[me].obj, TRUE)
        BY DEF CreateTable
  <1> DEFINE todo == call[me].todo
  <1>2. call[me].obj = Schema /\ DOMAIN Schema = Entries /\ todo \subseteq Entries
        BY <1>1 DEF SchemaInv, TypeOK, CallOK, CreateOnItsWay, Schema
  <1>3. Entries \subseteq Nat /\ \A e \in Entries \ {1} : Up[e] \in Entries /\ Up[e] < e
        BY SchemaAssumption DEF Entries
  <1>4. i \in todo /\ i \in Entries /\ Entry(me, i) = i /\ \A j \in todo : i <= j
        BY <1>1, <1>2 DEF Turn, Entry, Schema, PostOrder
  <1>5. db'[i].exists /\ \A e \in Entries \ {i} : db'[e] = db[e]
    <2>1. db \in [Entries -> Table]
          BY DEF SchemaInv, TypeOK, DbOK
    <2> QED BY <1>1, <1>4, <2>1 DEF Table
  <1>6. \A e \in Entries : db[e].exists => db'[e].exists
        BY <1>5
  <1>7. TablesNested'
    <2> SUFFICES ASSUME NEW e \in Entries \ {1}, db'[e].exists
                 PROVE  db'[Up[e]].exists
        BY DEF TablesNested
    <2>1. CASE e = i
      <3>1. Up[i] \in Entries /\ Up[i] \notin todo
            BY <1>3, <1>4, <2>1
      <3>2. db[Up[i]].exists
            BY <1>1, <1>4, <2>1, <3>1 DEF SchemaInv, CreateOnItsWay
      <3> QED BY <1>6, <2>1, <3>1, <3>2
    <2>2. CASE e # i
          BY <1>3, <1>5, <1>6, <2>2 DEF SchemaInv, TablesNested
    <2> QED BY <2>1, <2>2
  <1>8. \/ call'[me] = Idle
        \/ call'[me].op = "create" /\ call'[me].obj = Schema /\ call'[me].todo = todo \ {i}
        BY <1>1, <1>2, Advanced DEF SchemaInv
  <1>9. CreateOnItsWay(me)'
    <2>1. CASE call'[me] = Idle
          BY <2>1, IdleIsOnNoWay DEF CreateOnItsWay
    <2>2. CASE call'[me].obj = Schema /\ call'[me].todo = todo \ {i}
      <3>1. ASSUME NEW j \in todo \ {1}
            PROVE  Up[j] \in todo \ {i} \/ db'[Up[j]].exists
        <4>1. Up[j] \in todo \/ db[Up[j]].exists
              BY <1>1 DEF SchemaInv, CreateOnItsWay
        <4>2. Up[j] \in Entries
              BY <1>2, <1>3
        <4> QED BY <1>5, <1>6, <4>1, <4>2
      <3> QED BY <2>2, <3>1 DEF CreateOnItsWay
    <2> QED BY <1>8, <2>1, <2>2
  <1>10. DropOnItsWay(me)'
        BY <1>8, IdleIsOnNoWay DEF DropOnItsWay
  <1> QED BY <1>7, <1>9, <1>10 DEF SchemaInv, CreateOnItsWay, DropOnItsWay

\* DROP TABLE removes an entry all of whose members are off the list.
LEMMA DropTableKeepsSchemaInv ==
    ASSUME NEW me, Clients = {me}, SchemaInv, TypeOK', DropTable(me)
    PROVE  SchemaInv'
  <1>1. PICK i \in Turn(me) :
          /\ call[me].op = "drop"
          /\ db' = [db EXCEPT ![Entry(me, i)] = NoTable]
          /\ Advance(me, {i}, call[me].obj, TRUE)
        BY DEF DropTable
  <1> DEFINE todo == call[me].todo
  <1>2. call[me].obj = Schema /\ DOMAIN Schema = Entries /\ todo \subseteq Entries
        BY <1>1 DEF SchemaInv, TypeOK, CallOK, DropOnItsWay, Schema
  <1>3. i \in todo /\ i \in Entries /\ Entry(me, i) = i /\ \A j \in todo : Up[j] # i
    <2>1. i \in todo /\ \A j \in todo : call[me].obj[j].up # i
          BY <1>1 DEF Turn, PostOrder
    <2> QED BY <1>2, <2>1 DEF Entry, Schema
  <1>4. ~db'[i].exists /\ \A e \in Entries \ {i} : db'[e] = db[e]
    <2>1. db \in [Entries -> Table]
          BY DEF SchemaInv, TypeOK, DbOK
    <2> QED BY <1>1, <1>3, <2>1 DEF NoTable
  <1>5. \A e \in Entries \ todo : ~db[e].exists
        BY <1>1 DEF SchemaInv, DropOnItsWay
  <1>6. TablesNested'
    <2> SUFFICES ASSUME NEW e \in Entries \ {1}, db'[e].exists
                 PROVE  db'[Up[e]].exists
        BY DEF TablesNested
    <2>1. e # i /\ db[e].exists /\ e \in todo
          BY <1>4, <1>5
    <2>2. Up[e] \in Entries \ {i} /\ db[Up[e]].exists
          BY <1>3, <2>1, SchemaAssumption DEF SchemaInv, TablesNested, Entries
    <2> QED BY <1>4, <2>2
  <1>7. \/ call'[me] = Idle
        \/ call'[me].op = "drop" /\ call'[me].obj = Schema /\ call'[me].todo = todo \ {i}
        BY <1>1, <1>2, Advanced DEF SchemaInv
  <1>8. CreateOnItsWay(me)'
        BY <1>7, IdleIsOnNoWay DEF CreateOnItsWay
  <1>9. DropOnItsWay(me)'
    <2>1. \A e \in Entries \ (todo \ {i}) : ~db'[e].exists
          BY <1>4, <1>5
    <2> QED BY <1>7, <2>1, IdleIsOnNoWay DEF DropOnItsWay
  <1> QED BY <1>6, <1>8, <1>9 DEF SchemaInv, CreateOnItsWay, DropOnItsWay

\* A failed CREATE takes the whole subtree off the list; nothing else that
\* fails concerns tables.
LEMMA FailStatementKeepsSchemaInv ==
    ASSUME NEW me, Clients = {me}, "drop" \notin Faulty, SchemaInv, TypeOK', FailStatement(me)
    PROVE  SchemaInv'
  <1>1. PICK i \in Turn(me) :
          /\ Hopeless(me, i) \/ Mishap(me)
          /\ Advance(me, IF call[me].op = "create" THEN Subtree(call[me].obj, i) ELSE {i},
                     call[me].obj, FALSE)
          /\ db' = db
        BY DEF FailStatement
  <1> DEFINE todo == call[me].todo
             done == IF call[me].op = "create" THEN Subtree(call[me].obj, i) ELSE {i}
  <1>2. call[me].op # "drop"
        BY <1>1 DEF Hopeless, Mishap
  <1>3. TablesNested'
        BY <1>1 DEF SchemaInv, TablesNested
  <1>4. \/ call'[me] = Idle
        \/ /\ call'[me].op = call[me].op /\ call'[me].obj = call[me].obj
           /\ call'[me].todo = todo \ done
    <2> HIDE DEF done
    <2> QED BY <1>1, Advanced DEF SchemaInv, done
  <1>5. CreateOnItsWay(me)'
    <2>1. CASE call'[me] = Idle
          BY <2>1, IdleIsOnNoWay DEF CreateOnItsWay
    <2>2. CASE /\ call'[me].op = call[me].op /\ call'[me].obj = call[me].obj
               /\ call'[me].todo = todo \ done
      <3> SUFFICES ASSUME call[me].op = "create", NEW j \in (todo \ done) \ {1}
                   PROVE  /\ call[me].obj = Schema
                          /\ Up[j] \in todo \ done \/ db[Up[j]].exists
          BY <1>1, <2>2 DEF CreateOnItsWay, SchemaInv
      <3>1. call[me].obj = Schema /\ (Up[j] \in todo \/ db[Up[j]].exists)
            BY DEF SchemaInv, CreateOnItsWay
      <3>2. todo \subseteq Entries /\ i \in todo
            BY <1>1, <3>1 DEF SchemaInv, TypeOK, CallOK, Schema, Turn
      <3>3. Up[j] \notin Subtree(Schema, i)
            BY <3>1, <3>2, SubtreeIsClosed
      <3> QED BY <3>1, <3>3
    <2> QED BY <1>4, <2>1, <2>2
  <1>6. DropOnItsWay(me)'
        BY <1>2, <1>4, IdleIsOnNoWay DEF DropOnItsWay
  <1> QED BY <1>3, <1>5, <1>6 DEF SchemaInv, CreateOnItsWay, DropOnItsWay

\* A call that walks an object, as it goes on or ends.
LEMMA ObjectStepKeepsSchemaInv ==
    ASSUME NEW me, Clients = {me}, SchemaInv, TypeOK',
           \A e \in Entries : db'[e].exists = db[e].exists,
           call'[me] = Idle \/ call'[me].op \notin {"create", "drop"}
    PROVE  SchemaInv'
  <1>1. TablesNested'
    <2>1. \A e \in Entries \ {1} : Up[e] \in Entries
          BY SchemaAssumption DEF Entries
    <2> QED BY <2>1 DEF SchemaInv, TablesNested
  <1>2. CreateOnItsWay(me)' /\ DropOnItsWay(me)'
        BY IdleIsOnNoWay DEF CreateOnItsWay, DropOnItsWay
  <1> QED BY <1>1, <1>2 DEF SchemaInv, CreateOnItsWay, DropOnItsWay

LEMMA StatementKeepsSchemaInv ==
    ASSUME NEW me, Clients = {me}, "drop" \notin Faulty, SchemaInv, TypeOK', Statement(me)
    PROVE  SchemaInv'
  <1>1. db \in [Entries -> Table] /\ TypeOK
        BY DEF SchemaInv, TypeOK, DbOK
  <1>2. ASSUME NEW i, NEW o, NEW ok \in BOOLEAN, Advance(me, {i}, o, ok),
               call[me].op \in {"insert", "update", "delete"}
        PROVE  call'[me] = Idle \/ call'[me].op \notin {"create", "drop"}
        BY <1>1, <1>2, Advanced
  <1>3. CASE InsertRow(me)
    <2>1. PICK i, o, e, row : /\ call[me].op = "insert" /\ Advance(me, {i}, o, TRUE)
                              /\ db' = Inserted(e, row)
          BY <1>3 DEF InsertRow
    <2>2. \A k \in Entries : db'[k].exists = db[k].exists
          BY <1>1, <2>1 DEF Inserted, Table
    <2> QED BY <1>2, <2>1, <2>2, ObjectStepKeepsSchemaInv
  <1>4. CASE UpdateRows(me)
    <2>1. PICK i : LET n == call[me].obj[i]
                   IN  /\ call[me].op = "update" /\ Advance(me, {i}, call[me].obj, TRUE)
                       /\ db' = Updated(n.e, ParentId(me, i), n.id, n.val)
          BY <1>4 DEF UpdateRows
    <2>2. \A k \in Entries : db'[k].exists = db[k].exists
          BY <1>1, <2>1 DEF Updated, Table
    <2> QED BY <1>2, <2>1, <2>2, ObjectStepKeepsSchemaInv
  <1>5. CASE DeleteRows(me)
    <2>1. PICK i : /\ call[me].op = "delete" /\ Advance(me, {i}, call[me].obj, TRUE)
                   /\ db' = Deleted(Entry(me, i), ParentId(me, i))
          BY <1>5 DEF DeleteRows
    <2>2. \A k \in Entries : db'[k].exists = db[k].exists
          BY <1>1, <2>1 DEF Deleted, Table
    <2> QED BY <1>2, <2>1, <2>2, ObjectStepKeepsSchemaInv
  <1>6. CASE FailInsert(me)
    <2>1. PICK i, o : call[me].op = "insert" /\ Advance(me, {i}, o, FALSE) /\ db' = db
          BY <1>6 DEF FailInsert
    <2> QED BY <1>2, <2>1, ObjectStepKeepsSchemaInv
  <1> QED BY <1>3, <1>4, <1>5, <1>6, CreateTableKeepsSchemaInv, DropTableKeepsSchemaInv,
             FailStatementKeepsSchemaInv DEF Statement

LEMMA CallKeepsSchemaInv ==
    ASSUME NEW me, Clients = {me}, SchemaInv, TypeOK', Call(me)
    PROVE  SchemaInv'
  <1>1. /\ db' = db /\ call \in [Clients -> CallRecord]
        BY DEF SchemaInv, TypeOK, CallOK, Call, CallCreate, CallDrop, CallInsert, CallUpdate,
               CallDelete, Select, FailSelect, Enter
  <1>2. \A e \in Entries : db'[e].exists = db[e].exists
        BY <1>1
  <1>3. TablesNested'
        BY <1>1 DEF SchemaInv, TablesNested
  <1>4. ASSUME NEW op, Enter(me, op, Schema, FALSE)
        PROVE  SchemaInv'
    <2>1. call'[me] = [op |-> op, obj |-> Schema, todo |-> DOMAIN Schema, ok |-> TRUE,
                       mine |-> FALSE]
          BY <1>1, <1>4 DEF Enter
    <2>2. call'[me].obj = Schema /\ call'[me].todo = Entries
          BY <2>1 DEF Schema
    <2>3. \A e \in Entries \ {1} : Up[e] \in Entries
          BY SchemaAssumption DEF Entries
    <2>4. CreateOnItsWay(me)' /\ DropOnItsWay(me)'
          BY <2>2, <2>3 DEF CreateOnItsWay, DropOnItsWay
    <2> QED BY <1>3, <2>4 DEF SchemaInv, CreateOnItsWay, DropOnItsWay
  <1>5. ASSUME NEW op \in {"insert", "update", "delete"}, NEW o, NEW mine, Enter(me, op, o, mine)
        PROVE  SchemaInv'
    <2>1. call'[me].op = op
          BY <1>1, <1>5 DEF Enter
    <2> QED BY <1>2, <2>1, ObjectStepKeepsSchemaInv
  <1>6. CASE Select(me) \/ FailSelect(me)
    <2>1. call' = call
          BY <1>6 DEF Select, FailSelect
    <2> QED BY <1>1, <1>3, <2>1 DEF SchemaInv, CreateOnItsWay, DropOnItsWay
  <1>7. CASE CallInsert(me)
        BY <1>5, <1>7 DEF CallInsert
  <1>8. CASE CallUpdate(me)
        BY <1>5, <1>8 DEF CallUpdate
  <1>9. CASE CallDelete(me)
        BY <1>5, <1>9 DEF CallDelete
  <1>10. CASE CallCreate(me) \/ CallDrop(me)
        BY <1>4, <1>10 DEF CallCreate, CallDrop
  <1> QED BY <1>6, <1>7, <1>8, <1>9, <1>10 DEF Call

LEMMA NextSchemaInv ==
    ASSUME NEW me, Clients = {me}, "drop" \notin Faulty
    PROVE  SchemaInv /\ [Next]_vars => SchemaInv'
  <1> SUFFICES ASSUME SchemaInv, [Next]_vars PROVE SchemaInv'
      OBVIOUS
  <1>1. TypeOK'
        BY NextTypeOK DEF SchemaInv
  <1>2. CASE UNCHANGED vars
        BY <1>1, <1>2 DEF vars, SchemaInv, TablesNested, CreateOnItsWay, DropOnItsWay
  <1>3. CASE Crash(me)
    <2>1. db' = db /\ call'[me] = Idle
          BY <1>3 DEF Crash, SchemaInv, TypeOK, CallOK
    <2> QED BY <1>1, <2>1, ObjectStepKeepsSchemaInv
  <1>4. CASE Call(me)
        BY <1>1, <1>4, CallKeepsSchemaInv
  <1>5. CASE Statement(me)
        BY <1>1, <1>5, StatementKeepsSchemaInv
  <1> QED BY <1>2, <1>3, <1>4, <1>5 DEF Next

\* With one client whose DROPs do not fail, no child table is without the table
\* it REFERENCES, whatever CREATEs fail and wherever create and drop are cut off
\* by a crash (OrmEngine!TablesNested; orm.cpp:1157-1169, 1592-1596).
THEOREM SchemaStaysNested ==
    ASSUME NEW me, Clients = {me}, "drop" \notin Faulty
    PROVE  Spec => []TablesNested
  <1>1. SchemaInv => TablesNested
        BY DEF SchemaInv
  <1> QED BY <1>1, InitSchemaInv, NextSchemaInv, PTL DEF Spec

=============================================================================
