-------------------------- MODULE OrmRoundTripProofs --------------------------
(***************************************************************************)
(* What was inserted is what select gives back: MembersAreOwn, RoundTrip   *)
(* and MembersSingle, while clients create, insert and select.  Then what  *)
(* updates and deletes leave right.                                        *)
(***************************************************************************)
EXTENDS OrmLinkProofs, OrmLoadProofs

-----------------------------------------------------------------------------
(* What a step does to the rows, the inserts under way and what is held,   *)
(* while the clients only create, insert and select.                       *)

Still ==
    /\ \A k \in Entries : db'[k].rows = db[k].rows
    /\ clock' = clock /\ saved' = saved

\* w is o with another rowid and number in node i.
Renumbered(o, w, i, tok) ==
    /\ DOMAIN w = DOMAIN o
    /\ \A j \in DOMAIN o : j # i => w[j] = o[j]
    /\ i \in DOMAIN o => /\ w[i].e = o[i].e /\ w[i].up = o[i].up /\ w[i].val = o[i].val
                         /\ w[i].tok = tok

\* Client c is done with node i of the object it inserts.
Passes(c, i, w, tok, ok) ==
    /\ call[c].op = "insert" /\ i \in DOMAIN call[c].obj /\ i \in call[c].todo
    /\ \A j \in call[c].todo : i <= j
    /\ IsObject(w) /\ Renumbered(call[c].obj, w, i, tok)
    /\ \A d \in Clients \ {c} : call'[d] = call[d] /\ held'[d] = held[d]
    /\ call'[c].op = "insert" =>
          /\ call'[c].obj = w /\ call'[c].todo = call[c].todo \ {i}
          /\ call'[c].todo # {} /\ call'[c].ok = (call[c].ok /\ ok)
          /\ call'[c].mine = call[c].mine
    /\ \A s \in saved' : \/ s \in saved
                         \/ s = w /\ call[c].todo = {i} /\ call[c].ok /\ ok /\ call'[c].op # "insert"
    /\ IF ByRef[call[c].obj[i].e] /\ call[c].mine
       THEN Renumbered(held[c], held'[c], i, tok) ELSE held'[c] = held[c]

Stores(c, i, w, row) ==
    LET o == call[c].obj IN
    /\ Passes(c, i, w, clock + 1, TRUE)
    /\ row \in Row /\ row.id \in NextRowids(o[i].e) /\ row.val = o[i].val /\ row.tok = clock + 1
    /\ row.ptok = IF Linked(o[i].e) THEN o[o[i].up].tok ELSE 0
    /\ \A k \in Entries : db'[k].rows = IF k = o[i].e THEN db[k].rows \cup {row} ELSE db[k].rows
    /\ clock' = clock + 1

Loses(c, i, w) ==
    /\ Passes(c, i, w, 0, FALSE)
    /\ \A k \in Entries : db'[k].rows = db[k].rows
    /\ clock' = clock

Begins(c, o) ==
    /\ Still /\ o \in NewObjects
    /\ held' = IF call'[c].mine THEN [held EXCEPT ![c] = o] ELSE held
    /\ call'[c].op = "insert" /\ call'[c].obj = o /\ call'[c].todo = DOMAIN o /\ call'[c].ok
    /\ \A d \in Clients \ {c} : call'[d] = call[d]

Reads(c, lost, r) ==
    /\ Still /\ call' = call /\ ~Busy(c) /\ r \in db[1].rows
    /\ held' = [held EXCEPT ![c] = LoadWithout(lost)[r]]

Stops(c) ==
    /\ Still /\ held' = [held EXCEPT ![c] = <<>>]
    /\ \A d \in Clients : call'[d].op = "insert" => d # c /\ call'[d] = call[d]

Calm ==
    /\ Still /\ held' = held
    /\ \A d \in Clients : call'[d].op = "insert" => call'[d] = call[d]

\* Writing back changes one node's rowid and number.
LEMMA WrittenRenumbers ==
    ASSUME NEW o, NEW i, NEW id, NEW tok, i \in DOMAIN o => o[i] \in Node
    PROVE  Renumbered(o, Written(o, i, id, tok), i, tok)
  <1> DEFINE w == Written(o, i, id, tok)
  <1>1. DOMAIN w = DOMAIN o /\ \A j \in DOMAIN o : j # i => w[j] = o[j]
        BY DEF Written
  <1>2. ASSUME i \in DOMAIN o
        PROVE  w[i].e = o[i].e /\ w[i].up = o[i].up /\ w[i].val = o[i].val /\ w[i].tok = tok
    <2>1. w[i] = [o[i] EXCEPT !.id = id, !.tok = tok]
          BY <1>2 DEF Written
    <2> HIDE DEF w
    <2> QED BY <1>2, <2>1 DEF Node
  <1> QED BY <1>1, <1>2 DEF Renumbered

LEMMA InsertPasses ==
    ASSUME LinkInv, HeldIsObject, NEW c \in Clients, NEW i \in Turn(c), call[c].op = "insert",
           NEW id \in 0..MaxRowid, NEW tok \in Nat, NEW ok \in BOOLEAN,
           NEW w, w = Written(call[c].obj, i, id, tok), Advance(c, {i}, w, ok),
           held' = IF ByRef[call[c].obj[i].e] /\ call[c].mine
                   THEN [held EXCEPT ![c] = Written(@, i, id, tok)] ELSE held
    PROVE  Passes(c, i, w, tok, ok)
  <1> DEFINE o == call[c].obj
             now == [call[c] EXCEPT !.obj = w, !.todo = @ \ {i}, !.ok = @ /\ ok]
  <1>1. /\ CallOK /\ DOMAIN held = Clients
        /\ call \in [Clients -> CallRecord]
        BY DEF LinkInv, TypeOK, CallOK
  <1>2. /\ IsObject(o) /\ i \in DOMAIN o /\ i \in call[c].todo /\ o[i] \in Node
        /\ \A j \in call[c].todo : i <= j
    <2>1. \A j \in call[c].todo : i <= j
          BY DEF Turn, PostOrder
    <2> QED BY <1>1, <2>1, TurnIsLeft DEF CallOK
  <1>3. IsObject(w) /\ Renumbered(o, w, i, tok)
    <2> HIDE DEF o
    <2>1. IsObject(Written(o, i, id, tok))
          BY <1>2, WriteBack
    <2>2. Renumbered(o, Written(o, i, id, tok), i, tok)
          BY <1>2, WrittenRenumbers
    <2> QED BY <2>1, <2>2 DEF o
  <1>4. call' = [call EXCEPT ![c] = IF now.todo = {} THEN Idle ELSE now]
        BY DEF Advance
  <1>5. /\ now.op = "insert" /\ now.obj = w /\ now.todo = call[c].todo \ {i}
        /\ now.ok = (call[c].ok /\ ok) /\ now.mine = call[c].mine
        BY <1>1
  <1>6. saved' = IF now.todo = {} /\ now.ok /\ w[1].tok # 0 THEN saved \cup {w} ELSE saved
        BY <1>5 DEF Advance
  <1> HIDE DEF now, o
  <1>7. /\ \A d \in Clients \ {c} : call'[d] = call[d]
        /\ call'[c] = IF now.todo = {} THEN Idle ELSE now
        BY <1>1, <1>4
  <1>8. Idle.op # "insert"
        BY DEF Idle
  <1>9. call'[c].op = "insert" =>
          /\ call'[c].obj = w /\ call'[c].todo = call[c].todo \ {i}
          /\ call'[c].todo # {} /\ call'[c].ok = (call[c].ok /\ ok)
          /\ call'[c].mine = call[c].mine
        BY <1>5, <1>7, <1>8
  <1>10. \A s \in saved' : \/ s \in saved
                           \/ s = w /\ call[c].todo = {i} /\ call[c].ok /\ ok /\ call'[c].op # "insert"
    <2> SUFFICES ASSUME NEW s \in saved', s \notin saved
                 PROVE  s = w /\ call[c].todo = {i} /\ call[c].ok /\ ok /\ call'[c].op # "insert"
        OBVIOUS
    <2>1. now.todo = {} /\ now.ok /\ s = w
          BY <1>6
    <2> QED BY <1>2, <1>5, <1>7, <1>8, <2>1
  <1>11. \A d \in Clients \ {c} : held'[d] = held[d]
         BY <1>1
  <1>12. IF ByRef[o[i].e] /\ call[c].mine
         THEN Renumbered(held[c], held'[c], i, tok) ELSE held'[c] = held[c]
    <2>1. CASE ByRef[o[i].e] /\ call[c].mine
      <3>1. held'[c] = Written(held[c], i, id, tok)
            BY <1>1, <2>1 DEF o
      <3>2. i \in DOMAIN held[c] => held[c][i] \in Node
            BY DEF HeldIsObject, IsObject
      <3>3. Renumbered(held[c], Written(held[c], i, id, tok), i, tok)
            BY <3>2, WrittenRenumbers
      <3> QED BY <2>1, <3>1, <3>3
    <2>2. CASE ~(ByRef[o[i].e] /\ call[c].mine)
          BY <2>2 DEF o
    <2> QED BY <2>1, <2>2
  <1> QED BY <1>2, <1>3, <1>7, <1>9, <1>10, <1>11, <1>12 DEF Passes, o

\* While the clients only create, insert and select a step is one of these.
LEMMA StatementKinds ==
    ASSUME LinkInv, Growing, HeldIsObject, NEW c \in Clients, Statement(c)
    PROVE  \/ Calm
           \/ \E i, w, row : Stores(c, i, w, row)
           \/ \E i, w : Loses(c, i, w)
  <1> DEFINE o == call[c].obj
  <1>1. /\ DbOK /\ CallOK /\ clock \in Nat /\ call[c].op \in {"create", "insert"}
        /\ db \in [Entries -> Table]
        /\ call \in [Clients -> CallRecord]
        BY DEF LinkInv, TypeOK, DbOK, CallOK, Growing, OnlyCalls
  <1>2. CASE InsertRow(c)
    <2>1. PICK i \in Turn(c) :
             LET e == o[i].e IN
             /\ call[c].op = "insert" /\ db[e].exists
             /\ \E id \in NextRowids(e) :
                  LET key == IF Keyed[e] THEN id ELSE 0 IN
                  /\ db' = Inserted(e, [id |-> id, pid |-> ParentId(c, i), val |-> o[i].val,
                                        tok |-> clock + 1,
                                        ptok |-> IF Linked(e) THEN o[o[i].up].tok ELSE 0])
                  /\ Advance(c, {i}, Written(o, i, key, clock + 1), TRUE)
                  /\ held' = IF ByRef[e] /\ call[c].mine
                             THEN [held EXCEPT ![c] = Written(@, i, key, clock + 1)] ELSE held
             /\ clock' = clock + 1
          BY <1>2 DEF InsertRow
    <2> DEFINE e == o[i].e
    <2>2. i \in DOMAIN o /\ e \in Entries /\ o[i] \in Node /\ ParentId(c, i) \in 0..MaxRowid
          BY <1>1, TurnIsLeft
    <2>3. PICK id \in NextRowids(e) :
             /\ db' = Inserted(e, [id |-> id, pid |-> ParentId(c, i), val |-> o[i].val,
                                   tok |-> clock + 1,
                                   ptok |-> IF Linked(e) THEN o[o[i].up].tok ELSE 0])
             /\ Advance(c, {i}, Written(o, i, IF Keyed[e] THEN id ELSE 0, clock + 1), TRUE)
             /\ held' = IF ByRef[e] /\ call[c].mine
                        THEN [held EXCEPT ![c] = Written(@, i, IF Keyed[e] THEN id ELSE 0, clock + 1)]
                        ELSE held
          BY <2>1
    <2>4. PICK row : row = [id |-> id, pid |-> ParentId(c, i), val |-> o[i].val,
                            tok |-> clock + 1,
                            ptok |-> IF Linked(e) THEN o[o[i].up].tok ELSE 0]
          OBVIOUS
    <2>5. PICK w : w = Written(o, i, IF Keyed[e] THEN id ELSE 0, clock + 1)
          OBVIOUS
    <2>6. (IF Keyed[e] THEN id ELSE 0) \in 0..MaxRowid /\ id \in 0..MaxRowid
      <3>1. id \in 1..MaxRowid
            BY <1>1, <2>2, RowidIsNew
      <3> QED BY <3>1, BoundAssumption
    <2>7. Passes(c, i, w, clock + 1, TRUE)
      <3>1. clock + 1 \in Nat
            BY <1>1
      <3> QED BY <2>1, <2>3, <2>5, <2>6, <3>1, InsertPasses
    <2>8. (IF Linked(e) THEN o[o[i].up].tok ELSE 0) \in Nat
      <3>1. CASE Linked(e)
        <4>1. o[o[i].up] \in Node
              BY <2>1, <3>1, OwnerIsDone DEF LinkInv
        <4> QED BY <3>1, <4>1 DEF Node
      <3>2. CASE ~Linked(e)
            BY <3>2
      <3> QED BY <3>1, <3>2
    <2>9. row \in Row
          BY <1>1, <2>2, <2>4, <2>6, <2>8 DEF Row, Node
    <2>10. /\ row.id \in NextRowids(e) /\ row.val = o[i].val /\ row.tok = clock + 1
           /\ row.ptok = IF Linked(e) THEN o[o[i].up].tok ELSE 0
           BY <2>4
    <2>11. \A k \in Entries : db'[k].rows = IF k = e THEN db[k].rows \cup {row} ELSE db[k].rows
      <3>1. db' = Inserted(e, row)
            BY <2>3, <2>4
      <3>2. db[e] \in Table
            BY <1>1, <2>2
      <3> HIDE DEF e
      <3> QED BY <1>1, <2>2, <3>1, <3>2 DEF Inserted, Table
    <2>12. Stores(c, i, w, row)
      <3> HIDE DEF o
      <3> QED BY <2>1, <2>7, <2>9, <2>10, <2>11 DEF Stores, o
    <2> QED BY <2>12
  <1>3. CASE FailInsert(c)
    <2>1. PICK i \in Turn(c) :
             /\ call[c].op = "insert"
             /\ Advance(c, {i}, Written(o, i, 0, 0), FALSE)
             /\ held' = IF ByRef[o[i].e] /\ call[c].mine
                        THEN [held EXCEPT ![c] = Written(@, i, 0, 0)] ELSE held
             /\ UNCHANGED <<db, clock, calls>>
          BY <1>3 DEF FailInsert
    <2>2. PICK w : w = Written(o, i, 0, 0)
          OBVIOUS
    <2>3. Passes(c, i, w, 0, FALSE)
      <3>1. 0 \in 0..MaxRowid /\ 0 \in Nat
            BY BoundAssumption
      <3> QED BY <2>1, <2>2, <3>1, InsertPasses
    <2>4. Loses(c, i, w)
          BY <2>1, <2>3 DEF Loses
    <2> QED BY <2>4
  <1>4. ASSUME CreateTable(c) \/ FailStatement(c)
        PROVE  Calm
    <2>1. PICK done, ok : ok \in BOOLEAN /\ Advance(c, done, o, ok)
      <3>1. CASE CreateTable(c)
            BY <3>1 DEF CreateTable
      <3>2. CASE FailStatement(c)
            BY <3>2 DEF FailStatement
      <3> QED BY <1>4, <3>1, <3>2
    <2>2. call[c].op = "create" /\ held' = held /\ clock' = clock
          BY <1>1, <1>4 DEF CreateTable, FailStatement
    <2>3. \A k \in Entries : db'[k].rows = db[k].rows
      <3>1. CASE FailStatement(c)
            BY <3>1 DEF FailStatement
      <3>2. CASE CreateTable(c)
        <4>1. PICK i \in Turn(c) : db' = [db EXCEPT ![Entry(c, i)].exists = TRUE]
              BY <3>2 DEF CreateTable
        <4>2. \A k \in Entries : db[k] \in [exists : BOOLEAN, seq : 0..MaxRowid, rows : SUBSET Row]
              BY <1>1 DEF Table
        <4> QED BY <1>1, <4>1, <4>2
      <3> QED BY <1>4, <3>1, <3>2
    <2> DEFINE now == [call[c] EXCEPT !.obj = o, !.todo = @ \ done, !.ok = @ /\ ok]
    <2>4. call' = [call EXCEPT ![c] = IF now.todo = {} THEN Idle ELSE now]
          BY <2>1 DEF Advance
    <2>5. now.op = "create" /\ Idle.op = "create"
          BY <1>1, <2>2 DEF Idle
    <2>6. saved' = saved
      <3>1. ~(now.op \in {"insert", "update"})
            BY <2>5
      <3> QED BY <2>1, <3>1 DEF Advance
    <2> HIDE DEF now
    <2>7. \A d \in Clients : call'[d].op = "insert" => call'[d] = call[d]
          BY <1>1, <2>4, <2>5
    <2> QED BY <2>2, <2>3, <2>6, <2>7 DEF Calm, Still
  <1>5. ~DropTable(c) /\ ~UpdateRows(c) /\ ~DeleteRows(c)
        BY <1>1 DEF DropTable, UpdateRows, DeleteRows
  <1> QED BY <1>2, <1>3, <1>4, <1>5 DEF Statement

LEMMA CallKinds ==
    ASSUME Calls \subseteq {"create", "insert", "select"}, LinkInv, NEW c \in Clients, Call(c)
    PROVE  Calm \/ (\E o : Begins(c, o)) \/ (\E lost, r : Reads(c, lost, r))
  <1>1. /\ call \in [Clients -> CallRecord]
        BY DEF LinkInv, TypeOK, CallOK
  <1>2. CASE CallCreate(c)
    <2>1. /\ call' = [call EXCEPT ![c] = [op |-> "create", obj |-> Schema, todo |-> DOMAIN Schema,
                                          ok |-> TRUE, mine |-> FALSE]]
          /\ UNCHANGED <<db, clock, held, saved>>
          BY <1>2 DEF CallCreate, Enter
    <2>2. \A d \in Clients : call'[d].op = "insert" => call'[d] = call[d]
          BY <1>1, <2>1
    <2> QED BY <2>1, <2>2 DEF Calm, Still
  <1>3. CASE CallInsert(c)
    <2>1. PICK o \in NewObjects, mine \in BOOLEAN :
             /\ call' = [call EXCEPT ![c] = [op |-> "insert", obj |-> o, todo |-> DOMAIN o,
                                             ok |-> TRUE, mine |-> mine]]
             /\ UNCHANGED <<db, clock, saved>>
             /\ held' = IF mine THEN [held EXCEPT ![c] = o] ELSE held
          BY <1>3 DEF CallInsert, Enter
    <2>2. /\ call'[c] = [op |-> "insert", obj |-> o, todo |-> DOMAIN o, ok |-> TRUE,
                         mine |-> mine]
          /\ \A d \in Clients \ {c} : call'[d] = call[d]
          BY <1>1, <2>1
    <2>3. Begins(c, o)
          BY <2>1, <2>2 DEF Begins, Still
    <2> QED BY <2>3
  <1>4. CASE Select(c)
        BY <1>4 DEF Select, Free, Load, Reads, Still
  <1>5. CASE FailSelect(c)
    <2>1. PICK lost, r : r \in db[1].rows /\ held' = [held EXCEPT ![c] = LoadWithout(lost)[r]]
          BY <1>5 DEF FailSelect
    <2> QED BY <1>5, <2>1 DEF FailSelect, Free, Reads, Still
  <1>6. ~CallDrop(c) /\ ~CallUpdate(c) /\ ~CallDelete(c)
        BY DEF CallDrop, CallUpdate, CallDelete, Enter, Free
  <1> QED BY <1>2, <1>3, <1>4, <1>5, <1>6 DEF Call

LEMMA StepKinds ==
    ASSUME Calls \subseteq {"create", "insert", "select"}, LinkInv, Growing, HeldIsObject,
           [Next]_vars
    PROVE  \/ Calm
           \/ \E c \in Clients :
                 \/ Stops(c)
                 \/ \E o : Begins(c, o)
                 \/ \E lost, r : Reads(c, lost, r)
                 \/ \E i, w, row : Stores(c, i, w, row)
                 \/ \E i, w : Loses(c, i, w)
  <1>1. ASSUME NEW c \in Clients, Crash(c) PROVE Stops(c)
    <2>1. Idle.op # "insert"
          BY DEF Idle
    <2>2. /\ UNCHANGED <<db, clock, saved>> /\ held' = [held EXCEPT ![c] = <<>>]
          /\ call' = [call EXCEPT ![c] = Idle]
          BY <1>1 DEF Crash
    <2>3. \A d \in Clients : call'[d].op = "insert" => d # c /\ call'[d] = call[d]
          BY <2>1, <2>2 DEF LinkInv, TypeOK, CallOK
    <2> QED BY <2>2, <2>3 DEF Stops, Still
  <1>2. CASE UNCHANGED vars
        BY <1>2 DEF vars, Calm, Still
  <1>3. ASSUME NEW c \in Clients, Call(c)
        PROVE  Calm \/ (\E o : Begins(c, o)) \/ (\E lost, r : Reads(c, lost, r))
        BY <1>3, CallKinds
  <1>4. ASSUME NEW c \in Clients, Statement(c)
        PROVE  \/ Calm
               \/ \E i, w, row : Stores(c, i, w, row)
               \/ \E i, w : Loses(c, i, w)
        BY <1>4, StatementKinds
  <1> QED BY <1>1, <1>2, <1>3, <1>4 DEF Next

-----------------------------------------------------------------------------
(* An insert under way: it goes through its object from the front, and the *)
(* program that goes on holding that object has it with the numbers of the *)
(* values that are done and handed over by reference.                      *)

AtFront(o, todo) ==
    /\ WholeObject(o) /\ todo # {} /\ todo \subseteq DOMAIN o
    /\ \A j \in DOMAIN o \ todo, i \in todo : j < i

HeldAlong(h, o, todo) ==
    /\ DOMAIN h = DOMAIN o
    /\ \A j \in DOMAIN o : /\ h[j].e = o[j].e /\ h[j].up = o[j].up /\ h[j].val = o[j].val
                           /\ h[j].tok = IF ByRef[o[j].e] /\ j \notin todo THEN o[j].tok ELSE 0

UnderWay ==
    \A c \in Clients : call[c].op = "insert" =>
        /\ AtFront(call[c].obj, call[c].todo)
        /\ call[c].mine => HeldAlong(held[c], call[c].obj, call[c].todo)

\* What the steps below preserve while nothing is updated, deleted or dropped.
GrowInv == LinkInv /\ Growing /\ HeldIsObject /\ UnderWay

LEMMA PassesKeepsUnderWay ==
    ASSUME GrowInv, NEW c \in Clients, NEW i, NEW w, NEW tok, NEW ok, Passes(c, i, w, tok, ok)
    PROVE  UnderWay'
  <1> DEFINE o == call[c].obj
             d == call[c].todo
  <1>1. AtFront(o, d) /\ (call[c].mine => HeldAlong(held[c], o, d))
        BY DEF GrowInv, UnderWay, Passes
  <1>2. /\ i \in DOMAIN o /\ i \in d /\ \A j \in d : i <= j
        /\ IsObject(w) /\ Renumbered(o, w, i, tok)
        /\ \A x \in Clients \ {c} : call'[x] = call[x] /\ held'[x] = held[x]
        /\ IF ByRef[o[i].e] /\ call[c].mine
           THEN Renumbered(held[c], held'[c], i, tok) ELSE held'[c] = held[c]
        BY DEF Passes
  <1>3. ASSUME call'[c].op = "insert"
        PROVE  /\ AtFront(call'[c].obj, call'[c].todo)
               /\ call'[c].mine => HeldAlong(held'[c], call'[c].obj, call'[c].todo)
    <2>1. /\ call'[c].obj = w /\ call'[c].todo = d \ {i} /\ call'[c].todo # {}
          /\ call'[c].mine = call[c].mine
          BY <1>3 DEF Passes
    <2> HIDE DEF o, d
    <2>2. DOMAIN w = DOMAIN o /\ \A j \in DOMAIN o : w[j].e = o[j].e /\ w[j].up = o[j].up
          BY <1>2 DEF Renumbered
    <2>3. WholeObject(w)
          BY <1>1, <1>2, <2>2, SameTreeIsWhole DEF AtFront
    <2>4. ASSUME NEW j \in DOMAIN w \ (d \ {i}), NEW x \in d \ {i}
          PROVE  j < x
      <3>1. j \in DOMAIN o /\ x \in DOMAIN o /\ x \in d /\ x # i /\ DOMAIN o \subseteq Nat
            BY <1>1, <2>2, <2>4 DEF AtFront, WholeObject, IsObject
      <3>2. CASE j = i
        <4>1. i <= x /\ i \in Nat /\ x \in Nat
              BY <1>2, <3>1
        <4> QED BY <3>1, <3>2, <4>1
      <3>3. CASE j # i
            BY <1>1, <2>2, <2>4, <3>1, <3>3 DEF AtFront
      <3> QED BY <3>2, <3>3
    <2>5. AtFront(w, d \ {i})
          BY <1>1, <2>1, <2>2, <2>3, <2>4 DEF AtFront
    <2>6. ASSUME call[c].mine PROVE HeldAlong(held'[c], w, d \ {i})
      <3>0. HeldAlong(held[c], o, d)
            BY <1>1, <2>6
      <3>1. DOMAIN held[c] = DOMAIN o
            BY <3>0 DEF HeldAlong
      <3>2. DOMAIN held'[c] = DOMAIN w
            BY <1>2, <2>2, <3>1 DEF Renumbered
      <3>3. ASSUME NEW j \in DOMAIN w, j # i
            PROVE  /\ held'[c][j].e = w[j].e /\ held'[c][j].up = w[j].up /\ held'[c][j].val = w[j].val
                   /\ held'[c][j].tok = IF ByRef[w[j].e] /\ j \notin d \ {i} THEN w[j].tok ELSE 0
        <4>1. held'[c][j] = held[c][j] /\ w[j] = o[j] /\ j \in DOMAIN o
              BY <1>2, <2>2, <3>1, <3>3 DEF Renumbered
        <4> QED BY <3>0, <3>3, <4>1 DEF HeldAlong
      <3>4. /\ held'[c][i].e = w[i].e /\ held'[c][i].up = w[i].up /\ held'[c][i].val = w[i].val
            /\ held'[c][i].tok = IF ByRef[w[i].e] THEN w[i].tok ELSE 0
        <4>1. /\ w[i].e = o[i].e /\ w[i].up = o[i].up /\ w[i].val = o[i].val /\ w[i].tok = tok
              BY <1>2 DEF Renumbered
        <4>2. /\ held[c][i].e = o[i].e /\ held[c][i].up = o[i].up /\ held[c][i].val = o[i].val
              /\ held[c][i].tok = 0
              BY <1>2, <3>0 DEF HeldAlong
        <4>3. CASE ByRef[o[i].e]
          <5>1. /\ held'[c][i].e = held[c][i].e /\ held'[c][i].up = held[c][i].up
                /\ held'[c][i].val = held[c][i].val /\ held'[c][i].tok = tok
                BY <1>2, <2>6, <3>1, <4>3 DEF Renumbered
          <5> QED BY <4>1, <4>2, <4>3, <5>1
        <4>4. CASE ~ByRef[o[i].e]
              BY <1>2, <4>1, <4>2, <4>4
        <4> QED BY <4>3, <4>4
      <3>5. \A j \in DOMAIN w :
              /\ held'[c][j].e = w[j].e /\ held'[c][j].up = w[j].up /\ held'[c][j].val = w[j].val
              /\ held'[c][j].tok = IF ByRef[w[j].e] /\ j \notin d \ {i} THEN w[j].tok ELSE 0
            BY <3>3, <3>4
      <3> QED BY <3>2, <3>5 DEF HeldAlong
    <2> QED BY <2>1, <2>5, <2>6
  <1>4. ASSUME NEW x \in Clients \ {c}, call'[x].op = "insert"
        PROVE  /\ AtFront(call'[x].obj, call'[x].todo)
               /\ call'[x].mine => HeldAlong(held'[x], call'[x].obj, call'[x].todo)
    <2>1. call'[x] = call[x] /\ held'[x] = held[x]
          BY <1>2
    <2> QED BY <1>4, <2>1 DEF GrowInv, UnderWay
  <1> HIDE DEF o, d
  <1> QED BY <1>3, <1>4 DEF UnderWay

LEMMA NextGrowInv ==
    ASSUME Calls \subseteq {"create", "insert", "select"}
    PROVE  GrowInv /\ [Next]_vars => GrowInv'
  <1> SUFFICES ASSUME GrowInv, [Next]_vars PROVE GrowInv'
      OBVIOUS
  <1>1. LinkInv' /\ Growing' /\ HeldIsObject'
        BY NextGrowing, NextHeldIsObject DEF GrowInv, LinkInv
  <1>2. DOMAIN held = Clients
        BY DEF GrowInv, LinkInv, TypeOK
  <1>3. ASSUME Calm PROVE UnderWay'
    <2>1. \A d \in Clients : call'[d].op = "insert" => call'[d] = call[d] /\ held'[d] = held[d]
          BY <1>3 DEF Calm
    <2> QED BY <2>1 DEF GrowInv, UnderWay
  <1>4. ASSUME NEW c \in Clients, Stops(c) PROVE UnderWay'
    <2>1. \A d \in Clients : call'[d].op = "insert" => call'[d] = call[d] /\ held'[d] = held[d]
          BY <1>2, <1>4 DEF Stops
    <2> QED BY <2>1 DEF GrowInv, UnderWay
  <1>5. ASSUME NEW c \in Clients, NEW o, Begins(c, o) PROVE UnderWay'
    <2>1. /\ call'[c].mine => held'[c] = o
          /\ o \in NewObjects
          /\ call'[c].obj = o /\ call'[c].todo = DOMAIN o
          /\ \A d \in Clients \ {c} : call'[d] = call[d] /\ held'[d] = held[d]
          BY <1>2, <1>5 DEF Begins
    <2>2. WholeObject(o) /\ \A j \in DOMAIN o : o[j].tok = 0
          BY <2>1, ObjectAssumption DEF WholeObject
    <2>3. DOMAIN o # {} /\ DOMAIN o \subseteq Nat
          BY <2>2 DEF WholeObject, IsObject
    <2>4. AtFront(o, DOMAIN o)
          BY <2>2, <2>3 DEF AtFront
    <2>5. HeldAlong(o, o, DOMAIN o)
          BY <2>2 DEF HeldAlong
    <2>6. /\ AtFront(call'[c].obj, call'[c].todo)
          /\ call'[c].mine => HeldAlong(held'[c], call'[c].obj, call'[c].todo)
          BY <2>1, <2>4, <2>5
    <2>7. \A d \in Clients \ {c} : call'[d].op = "insert" =>
            /\ AtFront(call'[d].obj, call'[d].todo)
            /\ call'[d].mine => HeldAlong(held'[d], call'[d].obj, call'[d].todo)
          BY <2>1 DEF GrowInv, UnderWay
    <2> QED BY <2>6, <2>7 DEF UnderWay
  <1>6. ASSUME NEW c \in Clients, NEW lost, NEW r, Reads(c, lost, r) PROVE UnderWay'
    <2>1. /\ call' = call /\ call[c].todo = {} /\ held' = [held EXCEPT ![c] = LoadWithout(lost)[r]]
          BY <1>6 DEF Reads, Busy
    <2>2. call[c].op # "insert"
          BY <2>1 DEF GrowInv, UnderWay, AtFront
    <2>3. \A d \in Clients : call'[d].op = "insert" => call'[d] = call[d] /\ held'[d] = held[d]
          BY <1>2, <2>1, <2>2
    <2> QED BY <2>3 DEF GrowInv, UnderWay
  <1>7. ASSUME NEW c \in Clients, NEW i, NEW w, NEW row, Stores(c, i, w, row) PROVE UnderWay'
        BY <1>7, PassesKeepsUnderWay DEF Stores
  <1>8. ASSUME NEW c \in Clients, NEW i, NEW w, Loses(c, i, w) PROVE UnderWay'
        BY <1>8, PassesKeepsUnderWay DEF Loses
  <1>9. UnderWay'
        BY <1>3, <1>4, <1>5, <1>6, <1>7, <1>8, StepKinds DEF GrowInv
  <1> QED BY <1>1, <1>9 DEF GrowInv

LEMMA InitGrowInv == Init => GrowInv
  <1> SUFFICES ASSUME Init PROVE GrowInv
      OBVIOUS
  <1>1. \A c \in Clients : held[c] = <<>> /\ call[c].op # "insert"
        BY DEF Init, Idle
  <1> QED BY <1>1, InitGrowing DEF GrowInv, HeldIsObject, UnderWay

-----------------------------------------------------------------------------
(* What a client holds is what was inserted.                               *)

\* The node h[j] of what a client holds is the row it was written to.
Own(h, j) ==
    LET n == h[j] IN
    n.tok # 0 => \E r \in db[n.e].rows :
        /\ r.tok = n.tok /\ r.val = n.val
        /\ n.up # 0 /\ Linked(n.e) /\ (ByRef[n.e] => ByRef[Up[n.e]]) => r.ptok = h[n.up].tok

\* select pairs a value with the rows its members were inserted into.
LEMMA SelectedIsOwn ==
    ASSUME DbOK, LinkIntegrity, NEW lost, NEW r \in db[1].rows,
           NEW h, h = LoadWithout(lost)[r], NEW j \in DOMAIN h
    PROVE  Own(h, j)
  <1>1. 1 \in Entries
        BY SchemaAssumption DEF Entries
  <1>2. PICK src : Faithful(lost, h, src, 1, r)
    <2>1. r \in SourceOf(1)
          BY DEF SourceOf
    <2> QED BY <1>1, <2>1, LoadedFaithful DEF LoadWithout
  <1>3. Mirrors(h, src) /\ Shaped(h, src, 1, r) /\ \A i \in DOMAIN h : Nested(lost, h, src, i)
        BY <1>2 DEF Faithful, Grown
  <1>4. /\ src[j] \in SourceOf(h[j].e) /\ h[j].val = src[j].val /\ h[j].tok = src[j].tok
        BY <1>3 DEF Mirrors
  <1>5. SUFFICES ASSUME h[j].tok # 0
                 PROVE  \E q \in db[h[j].e].rows :
                           /\ q.tok = h[j].tok /\ q.val = h[j].val
                           /\ h[j].up # 0 /\ Linked(h[j].e) => q.ptok = h[h[j].up].tok
        BY DEF Own
  <1>6. src[j] # NoRow
        BY <1>4, <1>5 DEF NoRow
  <1>7. src[j] \in db[h[j].e].rows
        BY <1>4, <1>6 DEF SourceOf
  <1>8. ASSUME h[j].up # 0, Linked(h[j].e)
        PROVE  src[j].ptok = h[h[j].up].tok
    <2> DEFINE i == h[j].up
               e == h[j].e
    <2>1. j # 1
          BY <1>3, <1>8 DEF Shaped
    <2>2. i \in DOMAIN h /\ Up[e] = h[i].e /\ e \in Entries
      <3>1. i \in 1..(j - 1) /\ Up[e] = h[i].e
            BY <1>3, <2>1 DEF Shaped
      <3>2. h \in Seq(Node) /\ h[j] \in Node
            BY <1>3 DEF Mirrors
      <3>3. DOMAIN h = 1..Len(h) /\ Len(h) \in Nat
            BY <3>2
      <3>4. e \in Entries
            BY <3>2 DEF Node
      <3> HIDE DEF i, e
      <3> QED BY <3>1, <3>3, <3>4
    <2>3. PICK m \in DOMAIN Sources(lost, e, src[i]) : src[j] = Sources(lost, e, src[i])[m]
          BY <1>3, <2>2 DEF Nested
    <2>4. MadeFrom(lost, e, src[i], Sources(lost, e, src[i]))
          BY <2>2, SourcesRows
    <2>5. src[i] # NoRow /\ src[j] \in Children(e, src[i])
          BY <1>6, <2>3, <2>4 DEF MadeFrom
    <2>6. src[j].pid = src[i].id
          BY <2>5 DEF Children
    <2>7. src[i] \in db[Up[e]].rows /\ h[i].tok = src[i].tok
          BY <1>3, <2>2, <2>5 DEF Mirrors, SourceOf
    <2> HIDE DEF i, e
    <2>8. src[i].tok = src[j].ptok
          BY <1>7, <1>8, <2>2, <2>6, <2>7 DEF LinkIntegrity, e
    <2> QED BY <2>7, <2>8 DEF i, e
  <1> QED BY <1>4, <1>7, <1>8

\* The owner's number does not change, and no row goes away.
LEMMA StaysOwn ==
    ASSUME NEW h, NEW j, Own(h, j), \A k \in Entries : db[k].rows \subseteq db'[k].rows,
           NEW g, g[j] = h[j], h[j].e \in Entries, h[j].up # 0 => g[h[j].up] = h[h[j].up]
    PROVE  (h[j].tok # 0 => \E r \in db'[h[j].e].rows :
              /\ r.tok = h[j].tok /\ r.val = h[j].val
              /\ h[j].up # 0 /\ Linked(h[j].e) /\ (ByRef[h[j].e] => ByRef[Up[h[j].e]]) =>
                    r.ptok = g[h[j].up].tok)
  BY DEF Own

LEMMA PassesKeepsOwn ==
    ASSUME GrowInv, MembersAreOwn, NEW c \in Clients, NEW i, NEW w, NEW tok, NEW ok,
           Passes(c, i, w, tok, ok), GrowInv',
           \A k \in Entries : db[k].rows \subseteq db'[k].rows,
           tok # 0 =>
             \E row \in db'[call[c].obj[i].e].rows :
                /\ row.tok = tok /\ row.val = call[c].obj[i].val
                /\ Linked(call[c].obj[i].e) => row.ptok = call[c].obj[call[c].obj[i].up].tok
    PROVE  MembersAreOwn'
  <1> DEFINE o == call[c].obj
             d == call[c].todo
             h == held[c]
             g == held'[c]
  <1>1. AtFront(o, d) /\ (call[c].mine => HeldAlong(h, o, d))
        BY DEF GrowInv, UnderWay, Passes
  <1>2. /\ i \in DOMAIN o /\ i \in d /\ \A j \in d : i <= j
        /\ \A x \in Clients \ {c} : held'[x] = held[x]
        /\ IF ByRef[o[i].e] /\ call[c].mine THEN Renumbered(h, g, i, tok) ELSE g = h
        BY DEF Passes
  <1>3. IsObject(o) /\ DOMAIN o \subseteq Nat /\ d \subseteq DOMAIN o
        BY <1>1 DEF AtFront, WholeObject, IsObject
  <1>4. DOMAIN g = DOMAIN h /\ \A j \in DOMAIN h : j # i => g[j] = h[j]
        BY <1>2, <1>3 DEF Renumbered
  <1>5. \A x \in Clients : \A j \in DOMAIN held[x] :
           /\ held[x][j].e \in Entries
           /\ held[x][j].up # 0 => held[x][j].up \in 1..(j - 1)
    <2> SUFFICES ASSUME NEW x \in Clients, NEW j \in DOMAIN held[x]
                 PROVE  /\ held[x][j].e \in Entries
                        /\ held[x][j].up # 0 => held[x][j].up \in 1..(j - 1)
        OBVIOUS
    <2>1. held[x] # <<>>
          OBVIOUS
    <2>2. IsObject(held[x])
          BY <2>1 DEF GrowInv, HeldIsObject
    <2>3. held[x][j].e \in Entries
      <3>1. held[x] \in Seq(Node)
            BY <2>2 DEF IsObject
      <3>2. held[x][j] \in Node
            BY <3>1
      <3> QED BY <3>2 DEF Node
    <2>4. CASE j = 1
          BY <2>2, <2>3, <2>4 DEF IsObject
    <2>5. CASE j # 1
          BY <2>2, <2>3, <2>5 DEF IsObject
    <2> QED BY <2>4, <2>5
  <1>6. \A x \in Clients : \A j \in DOMAIN held[x] : Own(held[x], j)
        BY DEF MembersAreOwn, Own
  <1>7. ASSUME NEW x \in Clients \ {c}, NEW j \in DOMAIN held[x]
        PROVE  held[x][j].tok # 0 => \E r \in db'[held[x][j].e].rows :
                  /\ r.tok = held[x][j].tok /\ r.val = held[x][j].val
                  /\ held[x][j].up # 0 /\ Linked(held[x][j].e)
                        /\ (ByRef[held[x][j].e] => ByRef[Up[held[x][j].e]]) =>
                        r.ptok = held[x][held[x][j].up].tok
        BY <1>5, <1>6, StaysOwn
  <1>8. ASSUME NEW j \in DOMAIN g
        PROVE  g[j].tok # 0 => \E r \in db'[g[j].e].rows :
                  /\ r.tok = g[j].tok /\ r.val = g[j].val
                  /\ g[j].up # 0 /\ Linked(g[j].e) /\ (ByRef[g[j].e] => ByRef[Up[g[j].e]]) =>
                        r.ptok = g[g[j].up].tok
    <2>4. CASE ~(ByRef[o[i].e] /\ call[c].mine)
      <3>1. g = h /\ Own(h, j) /\ h[j].e \in Entries
            BY <1>2, <1>5, <1>6, <2>4
      <3> HIDE DEF o, d, h, g
      <3> QED BY <3>1, StaysOwn
    <2>5. SUFFICES ASSUME ByRef[o[i].e], call[c].mine
                   PROVE  g[j].tok # 0 => \E r \in db'[g[j].e].rows :
                            /\ r.tok = g[j].tok /\ r.val = g[j].val
                            /\ g[j].up # 0 /\ Linked(g[j].e) /\ (ByRef[g[j].e] => ByRef[Up[g[j].e]]) =>
                                  r.ptok = g[g[j].up].tok
          BY <2>4
    <2>6. HeldAlong(h, o, d) /\ DOMAIN h = DOMAIN o
          BY <1>1, <2>5 DEF HeldAlong
    <2>1. CASE j # i /\ h[j].tok # 0
      <3>1. j \in DOMAIN o /\ g[j] = h[j] /\ h[j].up = o[j].up
        <4>1. j \in DOMAIN o /\ g[j] = h[j]
              BY <1>3, <1>4, <2>1, <2>6
        <4> HIDE DEF o, h, d, g
        <4> QED BY <2>6, <4>1 DEF HeldAlong
      <3>2. j \notin d
            BY <1>3, <2>1, <2>6, <3>1 DEF HeldAlong
      <3>3. j < i
            BY <1>1, <1>2, <3>1, <3>2 DEF AtFront
      <3>4. h[j].up # 0 => g[h[j].up] = h[h[j].up]
        <4>1. SUFFICES ASSUME h[j].up # 0 PROVE g[h[j].up] = h[h[j].up]
              OBVIOUS
        <4>2. h[j].up \in 1..(j - 1)
              BY <1>3, <1>5, <2>6, <3>1, <4>1
        <4>3. j \in Nat /\ i \in Nat
              BY <1>2, <1>3, <3>1
        <4>4. PICK u : u = h[j].up
              OBVIOUS
        <4>5. u # i /\ u \in Nat /\ u < j /\ 1 <= u
              BY ONLY <3>3, <4>2, <4>3, <4>4
        <4>6. DOMAIN o = 1..Len(o) /\ Len(o) \in Nat
              BY <1>3 DEF IsObject
        <4>7. u \in DOMAIN h
              BY <2>6, <3>1, <4>3, <4>5, <4>6
        <4> QED BY <1>4, <4>4, <4>5, <4>7
      <3>5. Own(h, j) /\ h[j].e \in Entries
            BY <1>5, <1>6, <2>6, <3>1
      <3> HIDE DEF o, d, h, g
      <3> QED BY <3>1, <3>4, <3>5, StaysOwn
    <2>2. CASE j # i /\ h[j].tok = 0
          BY <1>4, <2>2
    <2>3. CASE j = i
      <3>1. g[i].e = h[i].e /\ g[i].up = h[i].up /\ g[i].val = h[i].val /\ g[i].tok = tok
            BY <1>2, <2>5, <2>6 DEF Renumbered
      <3>2. h[i].e = o[i].e /\ h[i].up = o[i].up /\ h[i].val = o[i].val
            BY <1>2, <2>6 DEF HeldAlong
      <3>3. SUFFICES ASSUME tok # 0
                     PROVE  \E r \in db'[o[i].e].rows :
                              /\ r.tok = tok /\ r.val = o[i].val
                              /\ o[i].up # 0 /\ Linked(o[i].e) /\ (ByRef[o[i].e] => ByRef[Up[o[i].e]]) =>
                                    r.ptok = g[o[i].up].tok
            BY <2>3, <3>1, <3>2
      <3>4. PICK row \in db'[o[i].e].rows :
               /\ row.tok = tok /\ row.val = o[i].val
               /\ Linked(o[i].e) => row.ptok = o[o[i].up].tok
            BY <3>3
      <3>5. ASSUME o[i].up # 0, ByRef[Up[o[i].e]]
            PROVE  g[o[i].up].tok = o[o[i].up].tok
        <4>1. i # 1
              BY <1>3, <3>5 DEF IsObject
        <4>2. o[i].up \in 1..(i - 1) /\ Up[o[i].e] = o[o[i].up].e
              BY <1>2, <1>3, <4>1 DEF IsObject
        <4>3. DOMAIN o = 1..Len(o) /\ Len(o) \in Nat /\ i \in Nat /\ i <= Len(o)
              BY <1>2, <1>3 DEF IsObject
        <4>4. o[i].up \in DOMAIN o /\ o[i].up # i /\ o[i].up \in Nat /\ o[i].up < i
              BY <4>2, <4>3
        <4>5. o[i].up \notin d
              BY <1>2, <1>3, <4>4
        <4>6. h[o[i].up].tok = o[o[i].up].tok
              BY <2>6, <3>5, <4>2, <4>4, <4>5 DEF HeldAlong
        <4> QED BY <1>4, <2>6, <4>4, <4>6
      <3> QED BY <2>3, <2>5, <3>4, <3>5
    <2> QED BY <1>4, <2>1, <2>2, <2>3
  <1> HIDE DEF o, d, h
  <1>9. \A x \in Clients \ {c} : held'[x] = held[x]
        BY <1>2
  <1> QED BY <1>7, <1>8, <1>9 DEF MembersAreOwn

\* A row a statement writes has the values and the owner of its node.
LEMMA StoresOwnRow ==
    ASSUME NEW c, NEW i, NEW w, NEW row, Stores(c, i, w, row), LinkInv, c \in Clients,
           call[c].obj[i].e \in Entries
    PROVE  \E r \in db'[call[c].obj[i].e].rows :
              /\ r.tok = clock + 1 /\ r.val = call[c].obj[i].val
              /\ Linked(call[c].obj[i].e) => r.ptok = call[c].obj[call[c].obj[i].up].tok
  <1>1. row \in db'[call[c].obj[i].e].rows
        BY DEF Stores
  <1> QED BY <1>1 DEF Stores

LEMMA NextOwn ==
    ASSUME Calls \subseteq {"create", "insert", "select"}
    PROVE  GrowInv /\ MembersAreOwn /\ [Next]_vars => MembersAreOwn'
  <1> SUFFICES ASSUME GrowInv, MembersAreOwn, [Next]_vars PROVE MembersAreOwn'
      OBVIOUS
  <1>1. GrowInv'
        BY NextGrowInv
  <1>2. DOMAIN held = Clients /\ DbOK /\ LinkIntegrity /\ clock \in Nat
        BY DEF GrowInv, LinkInv, TypeOK
  <1>3. \A x \in Clients : \A j \in DOMAIN held[x] : Own(held[x], j) /\ held[x][j].e \in Entries
    <2> SUFFICES ASSUME NEW x \in Clients, NEW j \in DOMAIN held[x]
                 PROVE  Own(held[x], j) /\ held[x][j].e \in Entries
        OBVIOUS
    <2>1. held[x] # <<>>
          OBVIOUS
    <2>2. held[x] \in Seq(Node)
          BY <2>1 DEF GrowInv, HeldIsObject, IsObject
    <2>3. held[x][j] \in Node
          BY <2>2
    <2> QED BY <2>3 DEF MembersAreOwn, Own, Node
  <1>4. ASSUME Still, \A x \in Clients : held'[x] = held[x] \/ \A j \in DOMAIN held'[x] :
                         Own(held'[x], j) /\ held'[x][j].e \in Entries
        PROVE  MembersAreOwn'
    <2>1. \A x \in Clients : \A j \in DOMAIN held'[x] :
             Own(held'[x], j) /\ held'[x][j].e \in Entries
          BY <1>3, <1>4
    <2>2. \A k \in Entries : db'[k].rows = db[k].rows
          BY <1>4 DEF Still
    <2> QED BY <2>1, <2>2 DEF MembersAreOwn, Own
  <1>5. CASE Calm
        BY <1>4, <1>5 DEF Calm
  <1>6. ASSUME NEW c \in Clients, Stops(c) PROVE MembersAreOwn'
    <2>1. Still /\ \A x \in Clients : held'[x] = held[x] \/ held'[x] = <<>>
          BY <1>2, <1>6 DEF Stops
    <2> QED BY <1>4, <2>1
  <1>7. ASSUME NEW c \in Clients, NEW o, Begins(c, o) PROVE MembersAreOwn'
    <2>1. Still /\ o \in NewObjects /\ \A x \in Clients : held'[x] = held[x] \/ held'[x] = o
          BY <1>2, <1>7 DEF Begins
    <2>2. IsObject(o) /\ \A j \in DOMAIN o : o[j].tok = 0
          BY <2>1, ObjectAssumption
    <2>3. \A j \in DOMAIN o : Own(o, j) /\ o[j].e \in Entries
      <3> TAKE j \in DOMAIN o
      <3>1. o[j] \in Node
            BY <2>2 DEF IsObject
      <3> QED BY <2>2, <3>1 DEF Own, Node
    <2> QED BY <1>4, <2>1, <2>3
  <1>8. ASSUME NEW c \in Clients, NEW lost, NEW r, Reads(c, lost, r) PROVE MembersAreOwn'
    <2> DEFINE h == LoadWithout(lost)[r]
    <2>1. Still /\ r \in db[1].rows /\ \A x \in Clients : held'[x] = held[x] \/ held'[x] = h
          BY <1>2, <1>8 DEF Reads
    <2> HIDE DEF h
    <2>2. \A j \in DOMAIN h : Own(h, j)
          BY <1>2, <2>1, SelectedIsOwn DEF h
    <2>3. h \in Seq(Node)
          BY <1>2, <2>1, SelectedIsWhole DEF h, WholeObject, IsObject
    <2>4. \A j \in DOMAIN h : h[j].e \in Entries
      <3> TAKE j \in DOMAIN h
      <3>1. h[j] \in Node
            BY <2>3
      <3> QED BY <3>1 DEF Node
    <2> QED BY <1>4, <2>1, <2>2, <2>4
  <1>9. ASSUME NEW c \in Clients, NEW i, NEW w, NEW row, Stores(c, i, w, row) PROVE MembersAreOwn'
    <2>1. Passes(c, i, w, clock + 1, TRUE) /\ \A k \in Entries : db[k].rows \subseteq db'[k].rows
          BY <1>9 DEF Stores
    <2>2. call[c].obj[i].e \in Entries
      <3>0. IsObject(call[c].obj)
            BY DEF GrowInv, LinkInv, TypeOK, CallOK
      <3>1. call[c].obj \in Seq(Node) /\ i \in DOMAIN call[c].obj
            BY <2>1, <3>0 DEF Passes, IsObject
      <3>2. call[c].obj[i] \in Node
            BY <3>1
      <3> QED BY <3>2 DEF Node
    <2>3. \E r \in db'[call[c].obj[i].e].rows :
              /\ r.tok = clock + 1 /\ r.val = call[c].obj[i].val
              /\ Linked(call[c].obj[i].e) => r.ptok = call[c].obj[call[c].obj[i].up].tok
          BY <1>9, <2>2, StoresOwnRow DEF GrowInv
    <2> QED BY <1>1, <2>1, <2>3, PassesKeepsOwn
  <1>10. ASSUME NEW c \in Clients, NEW i, NEW w, Loses(c, i, w) PROVE MembersAreOwn'
    <2>1. Passes(c, i, w, 0, FALSE) /\ \A k \in Entries : db[k].rows \subseteq db'[k].rows
          BY <1>10 DEF Loses
    <2> QED BY <1>1, <2>1, PassesKeepsOwn
  <1> QED BY <1>5, <1>6, <1>7, <1>8, <1>9, <1>10, StepKinds DEF GrowInv

\* As long as the clients only create, insert and select, what a client holds
\* was inserted with the columns it has, as a member of the value it is found
\* in, whichever queries or statements fail and whoever crashes
\* (OrmEngine!MembersAreOwn; meta_select, orm.cpp:1278-1387).
THEOREM MembersCorrect ==
    ASSUME Calls \subseteq {"create", "insert", "select"}
    PROVE  Spec => []MembersAreOwn
  <1>1. Init => MembersAreOwn
        BY DEF Init, MembersAreOwn
  <1>2. GrowInv /\ MembersAreOwn /\ [Next]_vars => GrowInv' /\ MembersAreOwn'
        BY NextGrowInv, NextOwn
  <1> QED BY <1>1, <1>2, InitGrowInv, PTL DEF Spec

-----------------------------------------------------------------------------
(* What is stored is what select gives back.                               *)

\* The values of o in D are stored: each has its row, that row is a member of
\* its owner's, a row that is a member of one of them is one of them, and of
\* two values of one class the later one has the larger rowid.
Settled(d, clk, o, D) ==
    /\ \A i \in D : /\ o[i].tok \in 1..clk
                    /\ \E r \in d[o[i].e].rows :
                          /\ r.tok = o[i].tok /\ r.val = o[i].val
                          /\ i # 1 => r.ptok = o[o[i].up].tok
    /\ \A i \in D, k \in Entries : Up[k] = o[i].e =>
          \A r \in d[k].rows : r.ptok = o[i].tok =>
             \E j \in D : o[j].up = i /\ o[j].e = k /\ o[j].tok = r.tok
    /\ \A i, j \in D : i < j /\ o[i].e = o[j].e =>
          \A r, q \in d[o[i].e].rows : r.tok = o[i].tok /\ q.tok = o[j].tok => r.id < q.id

\* No value is written to the same row twice.
Apart(o, D, p, E) == \A i \in D, j \in E : o[i].tok # 0 => o[i].tok # p[j].tok

Inserts(c) == call[c].op = "insert"
Done(c) == DOMAIN call[c].obj \ call[c].todo

\* Rowids are handed out in order: a table without AUTOINCREMENT has no gaps.
RowsGrow ==
    \A e \in Entries :
       /\ \A r, q \in db[e].rows : r.tok = q.tok => r = q
       /\ ~Keyed[e] => \A r \in db[e].rows : \A n \in 1..r.id : \E q \in db[e].rows : q.id = n

TreeInv ==
    /\ RowsGrow
    /\ \A c \in Clients : Inserts(c) =>
          /\ \A i \in Done(c) : call[c].obj[i].tok \in 0..clock
          /\ call[c].ok => Settled(db, clock, call[c].obj, Done(c))
    /\ \A c, x \in Clients : c # x /\ Inserts(c) /\ Inserts(x) =>
          Apart(call[c].obj, Done(c), call[x].obj, Done(x))
    /\ \A s \in saved : /\ WholeObject(s) /\ Settled(db, clock, s, DOMAIN s)
                        /\ \A c \in Clients : Inserts(c) => Apart(s, DOMAIN s, call[c].obj, Done(c))

\* Two lists of the same tree.  Lists(o, src, C): o lists the tree whose nodes
\* are rows, C(k, x) the members of class k of row x, owners before members,
\* members by entry and rowid.  The rows of C are given as C[k][x].
Members == [k \in Entries |-> [x \in Row |-> {q \in db[k].rows : q.ptok = x.tok}]]

Lists(o, src) ==
    /\ o \in Seq(Node) /\ DOMAIN src = DOMAIN o /\ \A i \in DOMAIN o : src[i] \in Row
    /\ o[1].e = 1 /\ o[1].up = 0
    /\ \A i \in DOMAIN o \ {1} : o[i].up \in 1..(i - 1) /\ Up[o[i].e] = o[o[i].up].e
    /\ \A i, j \in DOMAIN o : o[j].up < i /\ i < j => o[i].up >= o[j].up
    /\ \A i, j \in DOMAIN o : i < j /\ o[i].up = o[j].up =>
          o[i].e <= o[j].e /\ (o[i].e = o[j].e => src[i].id < src[j].id)
    /\ \A i \in DOMAIN o \ {1} : src[i] \in Members[o[i].e][src[o[i].up]]
    /\ \A i \in DOMAIN o, k \in Entries : Up[k] = o[i].e =>
          \A q \in Members[k][src[i]] : \E j \in DOMAIN o : o[j].up = i /\ o[j].e = k /\ src[j] = q

SameNode(o, so, p, sp, n) ==
    n \in DOMAIN p /\ o[n].e = p[n].e /\ o[n].up = p[n].up /\ so[n] = sp[n]

\* A member of u in list o, at n, is at or behind n in every list that agrees
\* with o up to there.
LEMMA MemberBehind ==
    ASSUME NEW o, NEW so, NEW p, NEW sp, Lists(o, so), Lists(p, sp),
           NEW n \in DOMAIN o, n # 1, \A m \in DOMAIN o : m < n => SameNode(o, so, p, sp, m)
    PROVE  \E j \in DOMAIN p : /\ j >= n /\ p[j].up = o[n].up /\ p[j].e = o[n].e /\ sp[j] = so[n]
  <1> DEFINE u == o[n].up
             k == o[n].e
  <1>1. n \in Nat /\ DOMAIN o = 1..Len(o) /\ DOMAIN p = 1..Len(p) /\ Len(o) \in Nat /\ Len(p) \in Nat
        BY DEF Lists
  <1>2. u \in 1..(n - 1) /\ Up[k] = o[u].e
        BY DEF Lists
  <1>3. u \in DOMAIN o /\ u < n
        BY <1>1, <1>2
  <1>4. SameNode(o, so, p, sp, u)
        BY <1>3
  <1>5. k \in Entries
    <2>1. o[n] \in Node
          BY DEF Lists
    <2> QED BY <2>1 DEF Node
  <1>6. so[n] \in Members[k][sp[u]]
    <2>1. so[n] \in Members[k][so[u]]
          BY DEF Lists
    <2> QED BY <1>4, <2>1 DEF SameNode
  <1>7. u \in DOMAIN p /\ Up[k] = p[u].e
        BY <1>2, <1>4 DEF SameNode
  <1> HIDE DEF u, k
  <1>8. PICK j \in DOMAIN p : p[j].up = u /\ p[j].e = k /\ sp[j] = so[n]
        BY <1>5, <1>6, <1>7 DEF Lists
  <1>9. ASSUME j < n PROVE FALSE
    <2>1. j \in DOMAIN o
          BY <1>1, <1>9
    <2>2. SameNode(o, so, p, sp, j)
          BY <1>9, <2>1
    <2>3. o[j].up = u /\ o[j].e = k /\ so[j] = so[n]
          BY <1>8, <2>2 DEF SameNode
    <2>4. o[n].up = u /\ o[n].e = k
          BY DEF u, k
    <2>5. so[j].id < so[n].id
          BY <1>9, <2>1, <2>3, <2>4 DEF Lists
    <2>6. so[n].id \in Nat
          BY DEF Lists, Row
    <2> QED BY <2>3, <2>5, <2>6
  <1>10. j >= n
         BY <1>1, <1>9
  <1> QED BY <1>8, <1>10 DEF u, k

\* Two lists from the same row agree as far as the first one goes.
LEMMA ListsAgree ==
    ASSUME NEW o, NEW so, NEW p, NEW sp, Lists(o, so), Lists(p, sp), so[1] = sp[1],
           1 \in DOMAIN p
    PROVE  \A n \in DOMAIN o : SameNode(o, so, p, sp, n)
  <1> DEFINE T == {n \in DOMAIN o : ~SameNode(o, so, p, sp, n)}
  <1>1. DOMAIN o = 1..Len(o) /\ DOMAIN p = 1..Len(p) /\ Len(o) \in Nat /\ Len(p) \in Nat
        BY DEF Lists
  <1> SUFFICES ASSUME T # {} PROVE FALSE
      OBVIOUS
  <1>2. T \subseteq Nat
        BY <1>1
  <1> HIDE DEF T
  <1>3. PICK n \in T : \A y \in T : ~(y < n)
        BY <1>2, LeastNumber
  <1>4. n \in DOMAIN o /\ ~SameNode(o, so, p, sp, n) /\ n \in Nat
        BY <1>2 DEF T
  <1>5. \A m \in DOMAIN o : m < n => SameNode(o, so, p, sp, m)
        BY <1>3 DEF T
  <1>6. n # 1
    <2>1. SUFFICES ASSUME n = 1 PROVE FALSE
          OBVIOUS
    <2>2. o[1].e = p[1].e /\ o[1].up = p[1].up
          BY DEF Lists
    <2> QED BY <1>4, <2>1, <2>2 DEF SameNode
  <1>7. PICK j \in DOMAIN p : /\ j >= n /\ p[j].up = o[n].up /\ p[j].e = o[n].e /\ sp[j] = so[n]
        BY <1>4, <1>5, <1>6, MemberBehind
  <1>8. n \in DOMAIN p /\ j \in Nat
        BY <1>1, <1>4, <1>7
  <1>9. j > n
    <2>1. SUFFICES ASSUME j = n PROVE FALSE
          BY <1>4, <1>7, <1>8
    <2> QED BY <1>4, <1>7, <1>8, <2>1 DEF SameNode
  <1>10. \A m \in DOMAIN p : m < n => SameNode(p, sp, o, so, m)
    <2> SUFFICES ASSUME NEW m \in DOMAIN p, m < n PROVE SameNode(p, sp, o, so, m)
        OBVIOUS
    <2>1. m \in DOMAIN o
          BY <1>1, <1>4
    <2> QED BY <1>5, <2>1 DEF SameNode
  <1>11. PICK i \in DOMAIN o : /\ i >= n /\ o[i].up = p[n].up /\ o[i].e = p[n].e /\ so[i] = sp[n]
         BY <1>6, <1>8, <1>10, MemberBehind
  <1>12. i > n /\ i \in Nat
    <2>1. i \in Nat
          BY <1>1
    <2>2. SUFFICES ASSUME i = n PROVE FALSE
          BY <1>4, <1>11, <2>1
    <2> QED BY <1>4, <1>8, <1>11, <2>2 DEF SameNode
  <1>13. PICK u, v : u = o[n].up /\ v = p[n].up
         OBVIOUS
  <1>14. u \in Nat /\ v \in Nat /\ u < n /\ v < n
    <2>1. o[n].up \in 1..(n - 1) /\ p[n].up \in 1..(n - 1)
          BY <1>4, <1>6, <1>8 DEF Lists
    <2> QED BY <1>4, <1>13, <2>1
  <1>15. v >= u
    <2>1. p[j].up < n /\ n < j
          BY <1>7, <1>9, <1>13, <1>14
    <2>2. p[n].up >= p[j].up
          BY <1>8, <2>1 DEF Lists
    <2> QED BY <1>7, <1>13, <2>2
  <1>16. u >= v
    <2>1. o[i].up < n /\ n < i
          BY <1>11, <1>12, <1>13, <1>14
    <2>2. o[n].up >= o[i].up
          BY <1>4, <2>1 DEF Lists
    <2> QED BY <1>11, <1>13, <2>2
  <1>17. u = v
         BY <1>14, <1>15, <1>16
  <1>18. p[n].e <= p[j].e /\ (p[n].e = p[j].e => sp[n].id < sp[j].id)
    <2>1. p[n].up = p[j].up /\ n < j
          BY <1>7, <1>9, <1>13, <1>17
    <2> QED BY <1>8, <2>1 DEF Lists
  <1>19. o[n].e <= o[i].e /\ (o[n].e = o[i].e => so[n].id < so[i].id)
    <2>1. o[n].up = o[i].up /\ n < i
          BY <1>11, <1>12, <1>13, <1>17
    <2> QED BY <1>4, <2>1 DEF Lists
  <1>20. o[n].e \in Nat /\ p[n].e \in Nat
    <2>1. o[n] \in Node /\ p[n] \in Node
          BY <1>4, <1>8 DEF Lists
    <2> QED BY <2>1 DEF Node, Entries
  <1>21. o[n].e = p[n].e
         BY <1>7, <1>11, <1>18, <1>19, <1>20
  <1>22. sp[n].id < so[n].id /\ so[n].id < sp[n].id
         BY <1>7, <1>11, <1>18, <1>19, <1>21
  <1>23. sp[n].id \in Nat /\ so[n].id \in Nat
    <2>1. sp[n] \in Row /\ so[n] \in Row
          BY <1>4, <1>8 DEF Lists
    <2> QED BY <2>1 DEF Row
  <1> QED BY <1>22, <1>23

\* The rows of a saved object list it.
LEMMA SavedLists ==
    ASSUME DbOK, RowsGrow, NEW s, WholeObject(s), Settled(db, clock, s, DOMAIN s)
    PROVE  \E src : /\ Lists(s, src)
                    /\ \A i \in DOMAIN s : /\ src[i] \in db[s[i].e].rows
                                           /\ src[i].tok = s[i].tok /\ src[i].val = s[i].val
  <1> DEFINE D == DOMAIN s
             src == [i \in D |-> CHOOSE r \in db[s[i].e].rows : r.tok = s[i].tok]
  <1>1. IsObject(s) /\ InOrder(s) /\ s \in Seq(Node) /\ DOMAIN s = 1..Len(s) /\ Len(s) \in Nat
        BY DEF WholeObject, IsObject
  <1>2. \A i \in D : s[i] \in Node /\ s[i].e \in Entries
    <2> TAKE i \in D
    <2>1. s[i] \in Node
          BY <1>1
    <2> QED BY <2>1 DEF Node
  <1>3. \A i \in D : /\ src[i] \in db[s[i].e].rows /\ src[i].tok = s[i].tok
                     /\ src[i].val = s[i].val /\ (i # 1 => src[i].ptok = s[s[i].up].tok)
    <2> SUFFICES ASSUME NEW i \in D
                 PROVE  /\ src[i] \in db[s[i].e].rows /\ src[i].tok = s[i].tok
                        /\ src[i].val = s[i].val /\ (i # 1 => src[i].ptok = s[s[i].up].tok)
        OBVIOUS
    <2>1. PICK r \in db[s[i].e].rows : /\ r.tok = s[i].tok /\ r.val = s[i].val
                                       /\ i # 1 => r.ptok = s[s[i].up].tok
          BY DEF Settled
    <2>2. src[i] \in db[s[i].e].rows /\ src[i].tok = s[i].tok
          BY <2>1
    <2> HIDE DEF src
    <2>3. src[i] = r
          BY <1>2, <2>1, <2>2 DEF RowsGrow
    <2> QED BY <2>1, <2>2, <2>3
  <1>4. DOMAIN src = D
        OBVIOUS
  <1> HIDE DEF src
  <1>5. \A i \in D : src[i] \in Row
        BY <1>2, <1>3, RowsFinite
  <1>6. \A i \in D \ {1} : /\ s[i].up \in 1..(i - 1) /\ Up[s[i].e] = s[s[i].up].e /\ s[i].up \in D
    <2> SUFFICES ASSUME NEW i \in D \ {1}
                 PROVE  s[i].up \in 1..(i - 1) /\ Up[s[i].e] = s[s[i].up].e /\ s[i].up \in D
        OBVIOUS
    <2>1. s[i].up \in 1..(i - 1) /\ Up[s[i].e] = s[s[i].up].e
          BY <1>1 DEF IsObject
    <2>2. i \in 1..Len(s)
          BY <1>1
    <2>3. s[i].up \in 1..Len(s)
          BY ONLY <1>1, <2>1, <2>2
    <2> QED BY <1>1, <2>1, <2>3
  <1>7. \A i \in D \ {1} : src[i] \in Members[s[i].e][src[s[i].up]]
    <2> SUFFICES ASSUME NEW i \in D \ {1} PROVE src[i] \in Members[s[i].e][src[s[i].up]]
        OBVIOUS
    <2>1. src[i] \in db[s[i].e].rows /\ src[i].ptok = src[s[i].up].tok
          BY <1>3, <1>6
    <2>2. s[i].e \in Entries /\ src[s[i].up] \in Row
          BY <1>2, <1>5, <1>6
    <2> QED BY <2>1, <2>2 DEF Members
  <1>8. \A i \in D, k \in Entries : Up[k] = s[i].e =>
          \A q \in Members[k][src[i]] : \E j \in D : s[j].up = i /\ s[j].e = k /\ src[j] = q
    <2> SUFFICES ASSUME NEW i \in D, NEW k \in Entries, Up[k] = s[i].e, NEW q \in Members[k][src[i]]
                 PROVE  \E j \in D : s[j].up = i /\ s[j].e = k /\ src[j] = q
        OBVIOUS
    <2>1. q \in db[k].rows /\ q.ptok = s[i].tok
          BY <1>3, <1>5 DEF Members
    <2>2. PICK j \in D : s[j].up = i /\ s[j].e = k /\ s[j].tok = q.tok
          BY <2>1 DEF Settled
    <2>3. src[j] = q
          BY <1>3, <2>1, <2>2 DEF RowsGrow
    <2> QED BY <2>2, <2>3
  <1>9. \A i, j \in D : i < j /\ s[i].up = s[j].up =>
          s[i].e <= s[j].e /\ (s[i].e = s[j].e => src[i].id < src[j].id)
    <2> SUFFICES ASSUME NEW i \in D, NEW j \in D, i < j, s[i].up = s[j].up
                 PROVE  s[i].e <= s[j].e /\ (s[i].e = s[j].e => src[i].id < src[j].id)
        OBVIOUS
    <2>1. s[i].e <= s[j].e
          BY <1>1 DEF InOrder
    <2>2. ASSUME s[i].e = s[j].e PROVE src[i].id < src[j].id
      <3>1. src[i] \in db[s[i].e].rows /\ src[j] \in db[s[i].e].rows
            BY <1>3, <2>2
      <3>2. src[i].tok = s[i].tok /\ src[j].tok = s[j].tok
            BY <1>3
      <3> QED BY <2>2, <3>1, <3>2 DEF Settled
    <2> QED BY <2>1, <2>2
  <1>10. s[1].e = 1 /\ s[1].up = 0
         BY <1>1 DEF IsObject
  <1>11. \A i, j \in D : s[j].up < i /\ i < j => s[i].up >= s[j].up
         BY <1>1 DEF InOrder
  <1>12. Lists(s, src)
         BY <1>1, <1>4, <1>5, <1>6, <1>7, <1>8, <1>9, <1>10, <1>11 DEF Lists
  <1> QED BY <1>3, <1>12

\* While nothing was deleted the rowid join finds the members of a row.
LEMMA ChildrenAreMembers ==
    ASSUME LinkInv, NEW k \in Entries, Linked(k), NEW x \in db[Up[k]].rows
    PROVE  Children(k, x) = Members[k][x]
  <1>1. x \in Row
        BY OwnerIsAnotherEntry, RowsFinite DEF LinkInv, TypeOK
  <1>2. \A q \in db[k].rows : x.id = q.pid <=> x.tok = q.ptok
        BY DEF LinkInv, LinkIntegrity
  <1>3. Members[k][x] = {q \in db[k].rows : q.ptok = x.tok}
        BY <1>1 DEF Members
  <1> QED BY <1>2, <1>3 DEF Children

LEMMA SettledMember ==
    ASSUME NEW s, WholeObject(s), Settled(db, clock, s, DOMAIN s),
           NEW i \in DOMAIN s, NEW k \in Entries, Up[k] = s[i].e,
           RowsGrow, DbOK, NEW x \in Row, x.tok = s[i].tok
    PROVE  /\ \A q \in Members[k][x] : \E j \in DOMAIN s : s[j].e = k /\ s[j].tok = q.tok
           /\ Kind[k] = "one" => Members[k][x] # {}
           /\ Kind[k] # "many" => \A q, t \in Members[k][x] : q = t
  <1> DEFINE D == DOMAIN s
             there == {j \in D : s[j].up = i /\ s[j].e = k}
  <1>1. Members[k][x] = {q \in db[k].rows : q.ptok = s[i].tok}
        BY DEF Members
  <1>2. \A q \in Members[k][x] : \E j \in there : s[j].tok = q.tok
        BY <1>1 DEF Settled
  <1>3. /\ Kind[k] = "one" => there # {}
        /\ Kind[k] # "many" => \A j, n \in there : j = n
        BY DEF WholeObject, IsWhole
  <1>4. ASSUME Kind[k] = "one" PROVE Members[k][x] # {}
    <2>1. PICK j \in there : TRUE
          BY <1>3, <1>4
    <2>2. s[j].up # 0
      <3>1. IsObject(s)
            BY DEF WholeObject
      <3>2. DOMAIN s = 1..Len(s)
            BY <3>1 DEF IsObject
      <3> QED BY <2>1, <3>2
    <2>3. j # 1
          BY <2>2 DEF WholeObject, IsObject
    <2>4. PICK r \in db[k].rows : r.ptok = s[i].tok
          BY <2>1, <2>3 DEF Settled
    <2> QED BY <1>1, <2>4
  <1>5. ASSUME Kind[k] # "many", NEW q \in Members[k][x], NEW t \in Members[k][x]
        PROVE  q = t
    <2>1. PICK j \in there : s[j].tok = q.tok
          BY <1>2
    <2>2. PICK n \in there : s[n].tok = t.tok
          BY <1>2
    <2>3. j = n
          BY <1>3, <1>5, <2>1, <2>2
    <2> QED BY <1>1, <2>1, <2>2, <2>3 DEF RowsGrow
  <1> QED BY <1>2, <1>4, <1>5

\* Node j of the object select builds was made from a row of the saved object.
FromSaved(s, o, src, j) ==
    /\ src[j] \in db[o[j].e].rows
    /\ \E i \in DOMAIN s : s[i].e = o[j].e /\ s[i].tok = src[j].tok

LEMMA AllFromSaved ==
    ASSUME LinkInv, RowsGrow, \A e \in Entries \ {1} : Linked(e),
           NEW s, WholeObject(s), Settled(db, clock, s, DOMAIN s),
           NEW o, NEW src, NEW r \in db[1].rows, r.tok = s[1].tok, Faithful({}, o, src, 1, r)
    PROVE  \A j \in DOMAIN o : FromSaved(s, o, src, j)
  <1> DEFINE T == {j \in DOMAIN o : ~FromSaved(s, o, src, j)}
  <1>1. Mirrors(o, src) /\ Shaped(o, src, 1, r) /\ \A i \in DOMAIN o : Nested({}, o, src, i)
        BY DEF Faithful, Grown
  <1>2. o \in Seq(Node) /\ DOMAIN o = 1..Len(o) /\ Len(o) \in Nat /\ DbOK
        BY <1>1 DEF Mirrors, LinkInv, TypeOK
  <1> SUFFICES ASSUME T # {} PROVE FALSE
      OBVIOUS
  <1>3. T \subseteq Nat
        BY <1>2
  <1> HIDE DEF T
  <1>4. PICK j \in T : \A y \in T : ~(y < j)
        BY <1>3, LeastNumber
  <1>5. j \in DOMAIN o /\ ~FromSaved(s, o, src, j) /\ \A m \in DOMAIN o : m < j => FromSaved(s, o, src, m)
        BY <1>4 DEF T
  <1>6. j # 1
    <2>1. 1 \in DOMAIN s /\ s[1].e = 1
          BY DEF WholeObject, IsObject
    <2>2. o[1].e = 1 /\ src[1] = r
          BY <1>1 DEF Shaped
    <2>3. FromSaved(s, o, src, 1)
          BY <2>1, <2>2 DEF FromSaved
    <2> QED BY <1>5, <2>3
  <1> DEFINE u == o[j].up
             k == o[j].e
  <1>7. u \in 1..(j - 1) /\ Up[k] = o[u].e
        BY <1>1, <1>5, <1>6 DEF Shaped
  <1>8. u \in DOMAIN o /\ u < j
        BY <1>2, <1>5, <1>7
  <1>9. FromSaved(s, o, src, u)
        BY <1>5, <1>8
  <1>10. k \in Entries /\ o[u].e \in Entries
    <2>1. o[j] \in Node /\ o[u] \in Node
          BY <1>2, <1>5, <1>8
    <2> HIDE DEF u
    <2> QED BY <2>1 DEF Node
  <1>11. PICK m \in DOMAIN Sources({}, k, src[u]) : src[j] = Sources({}, k, src[u])[m]
         BY <1>1, <1>5, <1>8 DEF Nested
  <1> HIDE DEF u, k
  <1>12. PICK i \in DOMAIN s : s[i].e = o[u].e /\ s[i].tok = src[u].tok
         BY <1>9 DEF FromSaved
  <1>13. src[u] \in db[Up[k]].rows /\ src[u] \in Row
         BY <1>2, <1>7, <1>9, <1>10, RowsFinite DEF FromSaved
  <1>14. Linked(k)
    <2>1. 1 \in Entries /\ Up[1] = 0
          BY SchemaAssumption DEF Entries
    <2>2. k # 1
          BY <1>7, <1>10, <2>1 DEF Entries
    <2> QED BY <1>10, <2>2
  <1>15. Children(k, src[u]) = Members[k][src[u]]
         BY <1>10, <1>13, <1>14, ChildrenAreMembers
  <1>16. /\ \A q \in Members[k][src[u]] : \E n \in DOMAIN s : s[n].e = k /\ s[n].tok = q.tok
         /\ Kind[k] = "one" => Members[k][src[u]] # {}
         BY <1>2, <1>7, <1>10, <1>12, <1>13, SettledMember
  <1>17. src[j] \in Children(k, src[u])
    <2>1. CASE Taken({}, k, src[u]) = <<>> /\ Kind[k] = "one"
      <3>1. src[u] # NoRow
            BY <1>13, RowIsSome
      <3>2. Children(k, src[u]) # {}
            BY <1>15, <1>16, <2>1
      <3>3. \A x \in SourceOf(o[u].e) : x # NoRow /\ Children(k, x) # {} => Len(Taken({}, k, x)) > 0
        <4> TAKE x \in SourceOf(o[u].e)
        <4> QED BY <1>2, <1>10, TakenRows
      <3>4. src[u] \in SourceOf(o[u].e)
            BY <1>7, <1>13 DEF SourceOf
      <3>5. Len(Taken({}, k, src[u])) > 0
            BY <3>1, <3>2, <3>3, <3>4
      <3> QED BY <2>1, <3>5
    <2>2. CASE ~(Taken({}, k, src[u]) = <<>> /\ Kind[k] = "one")
      <3>1. Sources({}, k, src[u]) = Taken({}, k, src[u])
            BY <2>2 DEF Sources
      <3> QED BY <1>2, <1>10, <1>11, <3>1, TakenRows
    <2> QED BY <2>1, <2>2
  <1>18. src[j] \in db[k].rows
         BY <1>17 DEF Children
  <1> QED BY <1>5, <1>15, <1>16, <1>17, <1>18 DEF FromSaved, k

\* What select builds from the row of a saved object lists the same rows.
LEMMA LoadedLists ==
    ASSUME LinkInv, RowsGrow, \A e \in Entries \ {1} : Linked(e),
           NEW s, WholeObject(s), Settled(db, clock, s, DOMAIN s),
           NEW o, NEW src, NEW r \in db[1].rows, r.tok = s[1].tok, Faithful({}, o, src, 1, r)
    PROVE  Lists(o, src) /\ \A j \in DOMAIN o : o[j].val = src[j].val
  <1>1. Mirrors(o, src) /\ Shaped(o, src, 1, r) /\ \A i \in DOMAIN o : Nested({}, o, src, i)
        BY DEF Faithful, Grown
  <1>2. /\ o \in Seq(Node) /\ DOMAIN o = 1..Len(o) /\ Len(o) \in Nat /\ DbOK
        /\ DOMAIN src = DOMAIN o
        BY <1>1 DEF Mirrors, LinkInv, TypeOK
  <1>3. \A j \in DOMAIN o : FromSaved(s, o, src, j)
        BY AllFromSaved
  <1>4. \A j \in DOMAIN o : o[j].e \in Entries
    <2> TAKE j \in DOMAIN o
    <2>1. o[j] \in Node
          BY <1>2
    <2> QED BY <2>1 DEF Node
  <1>5. \A j \in DOMAIN o : src[j] \in db[o[j].e].rows /\ src[j] \in Row
        BY <1>2, <1>3, <1>4, RowsFinite DEF FromSaved
  <1>6. \A i \in DOMAIN o, k \in Entries : Up[k] = o[i].e => Children(k, src[i]) = Members[k][src[i]]
    <2> SUFFICES ASSUME NEW i \in DOMAIN o, NEW k \in Entries, Up[k] = o[i].e
                 PROVE  Children(k, src[i]) = Members[k][src[i]]
        OBVIOUS
    <2>1. Up[1] = 0 /\ o[i].e # 0
          BY <1>4, SchemaAssumption DEF Entries
    <2>2. Linked(k)
          BY <2>1
    <2>3. src[i] \in db[Up[k]].rows
          BY <1>5
    <2> QED BY <2>2, <2>3, ChildrenAreMembers
  <1>7. \A j \in DOMAIN o \ {1} : /\ o[j].up \in 1..(j - 1) /\ Up[o[j].e] = o[o[j].up].e
                                  /\ o[j].up \in DOMAIN o
    <2> SUFFICES ASSUME NEW j \in DOMAIN o \ {1}
                 PROVE  /\ o[j].up \in 1..(j - 1) /\ Up[o[j].e] = o[o[j].up].e
                        /\ o[j].up \in DOMAIN o
        OBVIOUS
    <2>1. o[j].up \in 1..(j - 1) /\ Up[o[j].e] = o[o[j].up].e
          BY <1>1 DEF Shaped
    <2>2. j \in 1..Len(o)
          BY <1>2
    <2>3. o[j].up \in 1..Len(o)
          BY ONLY <1>2, <2>1, <2>2
    <2> QED BY <1>2, <2>1, <2>3
  <1>8. \A j \in DOMAIN o \ {1} : src[j] \in Members[o[j].e][src[o[j].up]]
    <2> SUFFICES ASSUME NEW j \in DOMAIN o \ {1}
                 PROVE  src[j] \in Members[o[j].e][src[o[j].up]]
        OBVIOUS
    <2> DEFINE u == o[j].up
               k == o[j].e
    <2>1. u \in DOMAIN o /\ k \in Entries /\ Up[k] = o[u].e
          BY <1>4, <1>7
    <2>2. PICK m \in DOMAIN Sources({}, k, src[u]) : src[j] = Sources({}, k, src[u])[m]
          BY <1>1, <2>1 DEF Nested
    <2>3. MadeFrom({}, k, src[u], Sources({}, k, src[u]))
          BY <1>2, <2>1, SourcesRows
    <2>4. src[j] # NoRow
          BY <1>5, RowIsSome
    <2> HIDE DEF u, k
    <2>5. src[j] \in Children(k, src[u])
          BY <2>2, <2>3, <2>4 DEF MadeFrom
    <2> QED BY <1>6, <2>1, <2>5 DEF u, k
  <1>9. \A i \in DOMAIN o, k \in Entries : Up[k] = o[i].e =>
          \A q \in Members[k][src[i]] : \E j \in DOMAIN o : o[j].up = i /\ o[j].e = k /\ src[j] = q
    <2> SUFFICES ASSUME NEW i \in DOMAIN o, NEW k \in Entries, Up[k] = o[i].e,
                        NEW q \in Members[k][src[i]]
                 PROVE  \E j \in DOMAIN o : o[j].up = i /\ o[j].e = k /\ src[j] = q
        OBVIOUS
    <2>1. MadeFrom({}, k, src[i], Sources({}, k, src[i])) /\ src[i] # NoRow
          BY <1>2, <1>5, SourcesRows, RowIsSome
    <2>2. q \in Children(k, src[i])
          BY <1>6
    <2>3. \E m \in DOMAIN Sources({}, k, src[i]) : Sources({}, k, src[i])[m] = q
      <3>1. CASE Kind[k] = "many"
            BY <2>1, <2>2, <3>1 DEF MadeFrom
      <3>2. CASE Kind[k] # "many"
        <4>1. /\ 1 \in DOMAIN Sources({}, k, src[i])
              /\ Sources({}, k, src[i])[1] \in Children(k, src[i])
              BY <2>1, <2>2 DEF MadeFrom
        <4>2. PICK n \in DOMAIN s : s[n].e = o[i].e /\ s[n].tok = src[i].tok
              BY <1>3 DEF FromSaved
        <4>3. \A t, x \in Members[k][src[i]] : t = x
          <5>1. src[i] \in Row /\ src[i].tok = s[n].tok /\ Up[k] = s[n].e
                BY <1>5, <4>2
          <5> QED BY <1>2, <3>2, <5>1, SettledMember
        <4> QED BY <1>6, <2>2, <4>1, <4>3
      <3> QED BY <3>1, <3>2
    <2>4. PICK m \in DOMAIN Sources({}, k, src[i]) : Sources({}, k, src[i])[m] = q
          BY <2>3
    <2>5. \E j \in DOMAIN o : o[j].up = i /\ o[j].e = k /\ src[j] = Sources({}, k, src[i])[m]
          BY <1>1 DEF Nested
    <2> QED BY <2>4, <2>5
  <1>10. Lists(o, src)
    <2>1. \A i, j \in DOMAIN o : i < j /\ o[i].up = o[j].up =>
            o[i].e <= o[j].e /\ (o[i].e = o[j].e => src[i].id < src[j].id)
          BY <1>1 DEF Shaped
    <2>2. /\ o[1].e = 1 /\ o[1].up = 0
          /\ \A i, j \in DOMAIN o : o[j].up < i /\ i < j => o[i].up >= o[j].up
          BY <1>1 DEF Shaped
    <2> QED BY <1>2, <1>5, <1>7, <1>8, <1>9, <2>1, <2>2 DEF Lists
  <1>11. \A j \in DOMAIN o : o[j].val = src[j].val
         BY <1>1 DEF Mirrors
  <1> QED BY <1>10, <1>11

\* What is saved is what select gives back.
LEMMA TreeGivesBack ==
    ASSUME LinkInv, TreeInv, \A e \in Entries \ {1} : Linked(e)
    PROVE  RoundTrip
  <1> SUFFICES ASSUME NEW s \in saved
               PROVE  \E r \in db[1].rows : r.tok = s[1].tok /\ Shape(Load[r]) = Shape(s)
      BY DEF RoundTrip
  <1>1. WholeObject(s) /\ Settled(db, clock, s, DOMAIN s) /\ RowsGrow /\ DbOK
        BY DEF TreeInv, LinkInv, TypeOK
  <1>2. 1 \in DOMAIN s /\ s[1].e = 1 /\ s \in Seq(Node)
        BY <1>1 DEF WholeObject, IsObject
  <1>3. PICK sr : /\ Lists(s, sr)
                  /\ \A i \in DOMAIN s : /\ sr[i] \in db[s[i].e].rows
                                         /\ sr[i].tok = s[i].tok /\ sr[i].val = s[i].val
        BY <1>1, SavedLists
  <1>4. PICK r : r = sr[1]
        OBVIOUS
  <1>5. r \in db[1].rows /\ r.tok = s[1].tok
        BY <1>2, <1>3, <1>4
  <1>6. PICK o : o = Load[r]
        OBVIOUS
  <1>7. PICK src : Faithful({}, o, src, 1, r)
    <2>1. 1 \in Entries /\ r \in SourceOf(1)
          BY <1>5, SchemaAssumption DEF Entries, SourceOf
    <2> QED BY <1>1, <1>6, <2>1, LoadedFaithful DEF Load, LoadWithout
  <1>8. Lists(o, src) /\ (\A j \in DOMAIN o : o[j].val = src[j].val)
        BY <1>1, <1>5, <1>7, LoadedLists
  <1>9. src[1] = r /\ 1 \in DOMAIN o
    <2>1. Mirrors(o, src) /\ Shaped(o, src, 1, r)
          BY <1>7 DEF Faithful, Grown
    <2> QED BY <2>1 DEF Mirrors, Shaped
  <1>10. /\ \A n \in DOMAIN o : SameNode(o, src, s, sr, n)
         /\ \A n \in DOMAIN s : SameNode(s, sr, o, src, n)
         BY <1>2, <1>3, <1>4, <1>8, <1>9, ListsAgree
  <1>11. DOMAIN o = DOMAIN s
         BY <1>10 DEF SameNode
  <1>12. \A n \in DOMAIN o : o[n].e = s[n].e /\ o[n].up = s[n].up /\ o[n].val = s[n].val
         BY <1>3, <1>8, <1>10 DEF SameNode
  <1>13. Shape(o) = Shape(s)
         BY <1>11, <1>12 DEF Shape
  <1> QED BY <1>5, <1>6, <1>13

-----------------------------------------------------------------------------
(* How storing a row keeps the trees that are stored.                      *)

\* A new rowid is above all others, and in a table without AUTOINCREMENT the
\* next one.
LEMMA NextRowidIsAbove ==
    ASSUME LinkInv, RowsGrow, NEW e \in Entries, NEW id \in NextRowids(e)
    PROVE  /\ id \in Nat /\ \A r \in db[e].rows : r.id \in Nat /\ r.id < id
           /\ ~Keyed[e] => \A n \in 1..(id - 1) : \E q \in db[e].rows : q.id = n
  <1>1. DbOK /\ MaxRowid \in Nat
        BY BoundAssumption DEF LinkInv, TypeOK
  <1>2. id \in 1..MaxRowid /\ (Keyed[e] => id > db[e].seq) /\ db[e].seq \in Nat
        BY <1>1, RowidIsNew DEF DbOK, Table
  <1>3. \A r \in db[e].rows : r.id \in 0..MaxRowid
        BY <1>1, RowsFinite
  <1>4. CASE Keyed[e]
    <2>1. \A r \in db[e].rows : r.id \in 1..db[e].seq
          BY <1>4 DEF LinkInv, RowsNumbered
    <2> QED BY <1>1, <1>2, <1>4, <2>1
  <1>5. CASE ~Keyed[e]
    <2> DEFINE ids  == {r.id : r \in db[e].rows}
               used == {0} \cup ids
    <2>1. /\ MaxRowid \in ids => NextRowids(e) = 1..MaxRowid \ ids
          /\ MaxRowid \notin ids =>
               NextRowids(e) = {n \in 1..MaxRowid : n - 1 \in used /\ \A m \in used : m < n}
          BY <1>5 DEF NextRowids, Autoincrement
    <2>2. \A m \in ids : m \in 0..MaxRowid /\ \A n \in 1..m : n \in ids
          BY <1>3, <1>5 DEF RowsGrow
    <2>3. \A r \in db[e].rows : r.id \in ids
          OBVIOUS
    <2>4. \A n \in ids : \E q \in db[e].rows : q.id = n
          OBVIOUS
    <2> HIDE DEF ids
    <2>5. MaxRowid \notin ids
          BY <1>2, <2>1, <2>2
    <2>6. (id - 1 = 0 \/ id - 1 \in ids) /\ \A m \in ids : m < id
          BY <2>1, <2>5
    <2>7. \A n \in 1..(id - 1) : n \in ids
      <3>1. CASE id - 1 = 0
            BY <1>1, <1>2, <3>1
      <3>2. CASE id - 1 \in ids
            BY <2>2, <3>2
      <3> QED BY <2>6, <3>1, <3>2
    <2>8. id \in Nat
          BY <1>1, <1>2
    <2>9. \A r \in db[e].rows : r.id \in Nat /\ r.id < id
          BY <1>3, <2>3, <2>6
    <2> QED BY <1>5, <2>4, <2>7, <2>8, <2>9
  <1> QED BY <1>4, <1>5

\* What storing a row does to the rows of its table.
RowAdded(e, row) ==
    /\ e \in Entries /\ row \in Row /\ row.tok = clock + 1 /\ clock' = clock + 1
    /\ db'[e].rows = db[e].rows \cup {row}
    /\ \A k \in Entries : k # e => db'[k].rows = db[k].rows
    /\ \A r \in db[e].rows : r.id \in Nat /\ r.id < row.id
    /\ ~Keyed[e] => \A n \in 1..(row.id - 1) : \E q \in db[e].rows : q.id = n
    /\ \A k \in Entries : \A r \in db[k].rows : r.tok \in 1..clock /\ r.ptok \in 0..clock

LEMMA StoresAddsRow ==
    ASSUME GrowInv, RowsGrow, NEW c \in Clients, NEW i, NEW w, NEW row, Stores(c, i, w, row)
    PROVE  /\ RowAdded(call[c].obj[i].e, row)
           /\ call[c].obj[i] \in Node
           /\ i # 1 => call[c].obj[i].up \in Done(c) /\ call[c].obj[i].up # i
  <1> DEFINE o == call[c].obj
             e == o[i].e
  <1>0. IsObject(o)
        BY DEF GrowInv, LinkInv, TypeOK, CallOK
  <1>1. o \in Seq(Node) /\ i \in DOMAIN o /\ IsObject(o) /\ i \in call[c].todo
        BY <1>0 DEF Stores, Passes, IsObject
  <1>2. o[i] \in Node /\ e \in Entries
    <2>1. o[i] \in Node
          BY <1>1
    <2> QED BY <2>1 DEF Node
  <1>3. /\ row \in Row /\ row.tok = clock + 1 /\ clock' = clock + 1 /\ row.id \in NextRowids(e)
        /\ \A k \in Entries : db'[k].rows = IF k = e THEN db[k].rows \cup {row} ELSE db[k].rows
        BY DEF Stores
  <1>4. \A k \in Entries : \A r \in db[k].rows : r.tok \in 1..clock /\ r.ptok \in 0..clock
        BY DEF GrowInv, LinkInv, RowsNumbered
  <1>5. ASSUME i # 1 PROVE o[i].up \in Done(c) /\ o[i].up # i
    <2>1. o[i].up \in 1..(i - 1) /\ DOMAIN o = 1..Len(o) /\ Len(o) \in Nat
          BY <1>1, <1>5 DEF IsObject
    <2>2. PICK u : u = o[i].up
          OBVIOUS
    <2>3. i \in Nat /\ u \in DOMAIN o /\ u < i /\ u \in Nat
          BY <1>1, <2>1, <2>2
    <2>4. \A j \in call[c].todo : i <= j
          BY DEF Stores, Passes
    <2>5. u \notin call[c].todo
          BY <2>3, <2>4
    <2> QED BY <2>2, <2>3, <2>5 DEF Done
  <1> HIDE DEF e
  <1>6. /\ \A r \in db[e].rows : r.id \in Nat /\ r.id < row.id
        /\ ~Keyed[e] => \A n \in 1..(row.id - 1) : \E q \in db[e].rows : q.id = n
        BY <1>2, <1>3, NextRowidIsAbove DEF GrowInv
  <1>7. RowAdded(e, row)
        BY <1>2, <1>3, <1>4, <1>6 DEF RowAdded
  <1> QED BY <1>2, <1>5, <1>7 DEF e

LEMMA RowsGrowOn ==
    ASSUME RowsGrow, NEW e, NEW row, RowAdded(e, row), clock \in Nat
    PROVE  RowsGrow'
  <1> SUFFICES ASSUME NEW k \in Entries
               PROVE  /\ \A r, q \in db'[k].rows : r.tok = q.tok => r = q
                      /\ ~Keyed[k] => \A r \in db'[k].rows : \A n \in 1..r.id :
                                         \E q \in db'[k].rows : q.id = n
      BY DEF RowsGrow
  <1>1. CASE k # e
        BY <1>1 DEF RowAdded, RowsGrow
  <1>2. CASE k = e
    <2>1. /\ db'[e].rows = db[e].rows \cup {row} /\ row.tok = clock + 1
          /\ \A r \in db[e].rows : r.tok \in 1..clock
          BY DEF RowAdded
    <2>2. \A r \in db[e].rows : r.tok # row.tok
          BY <2>1
    <2>3. \A r, q \in db'[e].rows : r.tok = q.tok => r = q
          BY <1>2, <2>1, <2>2 DEF RowsGrow
    <2>4. ASSUME ~Keyed[e], NEW r \in db'[e].rows, NEW n \in 1..r.id
          PROVE  \E q \in db'[e].rows : q.id = n
      <3>1. CASE r = row
        <4>1. row.id \in Nat
              BY DEF RowAdded, Row
        <4>2. n \in 1..(row.id - 1) \/ n = row.id
              BY <2>4, <3>1, <4>1
        <4>3. n \in 1..(row.id - 1) => \E q \in db[e].rows : q.id = n
              BY <2>4 DEF RowAdded
        <4> QED BY <2>1, <4>2, <4>3
      <3>2. CASE r # row
            BY <1>2, <2>1, <2>4, <3>2 DEF RowsGrow
      <3> QED BY <3>1, <3>2
    <2> QED BY <1>2, <2>3, <2>4
  <1> QED BY <1>1, <1>2

\* A stored tree stays stored when a row is added that belongs to none of its
\* values.
LEMMA SettledStays ==
    ASSUME NEW e, NEW row, RowAdded(e, row), clock \in Nat,
           NEW o \in Seq(Node), NEW D, D \subseteq DOMAIN o, Settled(db, clock, o, D),
           \A i \in D : row.ptok # o[i].tok
    PROVE  Settled(db', clock', o, D)
  <1>1. \A i \in D : o[i].e \in Entries /\ o[i].tok \in 1..clock
    <2> TAKE i \in D
    <2>1. o[i] \in Node
          OBVIOUS
    <2> QED BY <2>1 DEF Node, Settled
  <1>2. \A k \in Entries : \A r \in db'[k].rows : r \in db[k].rows \/ (r = row /\ k = e)
    <2> TAKE k \in Entries
    <2>1. CASE k = e
          BY <2>1 DEF RowAdded
    <2>2. CASE k # e
      <3>1. db'[k].rows = db[k].rows
            BY <2>2 DEF RowAdded
      <3> QED BY <3>1
    <2> QED BY <2>1, <2>2
  <1>3. \A k \in Entries : db[k].rows \subseteq db'[k].rows
        BY DEF RowAdded
  <1>4. clock' = clock + 1 /\ row.tok = clock + 1
        BY DEF RowAdded
  <1>5. \A i \in D : row.tok # o[i].tok
        BY <1>1, <1>4
  <1>6. ASSUME NEW i \in D
        PROVE  /\ o[i].tok \in 1..clock'
               /\ \E r \in db'[o[i].e].rows :
                          /\ r.tok = o[i].tok /\ r.val = o[i].val
                          /\ i # 1 => r.ptok = o[o[i].up].tok
    <2>1. o[i].tok \in 1..clock'
          BY <1>1, <1>4
    <2>2. \E r \in db[o[i].e].rows :
                          /\ r.tok = o[i].tok /\ r.val = o[i].val
                          /\ i # 1 => r.ptok = o[o[i].up].tok
          BY DEF Settled
    <2> QED BY <1>1, <1>3, <2>1, <2>2
  <1>7. ASSUME NEW i \in D, NEW k \in Entries, Up[k] = o[i].e, NEW r \in db'[k].rows,
               r.ptok = o[i].tok
        PROVE  \E j \in D : o[j].up = i /\ o[j].e = k /\ o[j].tok = r.tok
    <2>1. r \in db[k].rows
          BY <1>2, <1>7
    <2> QED BY <1>7, <2>1 DEF Settled
  <1>8. ASSUME NEW i \in D, NEW j \in D, i < j, o[i].e = o[j].e,
               NEW r \in db'[o[i].e].rows, NEW q \in db'[o[i].e].rows,
               r.tok = o[i].tok, q.tok = o[j].tok
        PROVE  r.id < q.id
    <2>1. r \in db[o[i].e].rows /\ q \in db[o[i].e].rows
          BY <1>1, <1>2, <1>5, <1>8
    <2> QED BY <1>8, <2>1 DEF Settled
  <1> QED BY <1>6, <1>7, <1>8 DEF Settled

\* A stored tree grows by the value a row is added for.
LEMMA SettledGrows ==
    ASSUME DbOK, NEW e, NEW row, RowAdded(e, row), clock \in Nat,
           NEW o, IsObject(o), NEW D, D \subseteq DOMAIN o, Settled(db, clock, o, D),
           NEW i \in DOMAIN o, o[i].e = e, i \notin D, \A j \in D : j < i,
           row.val = o[i].val,
           i # 1 => o[i].up \in D /\ row.ptok = o[o[i].up].tok,
           i = 1 => row.ptok = 0,
           NEW w, Renumbered(o, w, i, clock + 1)
    PROVE  Settled(db', clock', w, D \cup {i})
  <1>1. o \in Seq(Node) /\ DOMAIN o = 1..Len(o) /\ Len(o) \in Nat
        BY DEF IsObject
  <1>2. \A x \in DOMAIN o : o[x].e \in Entries
    <2> TAKE x \in DOMAIN o
    <2>1. o[x] \in Node
          BY <1>1
    <2> QED BY <2>1 DEF Node
  <1>3. /\ clock' = clock + 1 /\ row.tok = clock + 1 /\ e \in Entries
        /\ \A k \in Entries : \A r \in db[k].rows : r.tok \in 1..clock /\ r.ptok \in 0..clock
        /\ db'[e].rows = db[e].rows \cup {row}
        /\ \A k \in Entries : k # e => db'[k].rows = db[k].rows
        BY DEF RowAdded
  <1>4. \A k \in Entries : /\ \A r \in db'[k].rows : r \in db[k].rows \/ (r = row /\ k = e)
                           /\ db[k].rows \subseteq db'[k].rows
    <2> TAKE k \in Entries
    <2>1. CASE k = e
          BY <1>3, <2>1
    <2>2. CASE k # e
      <3>1. db'[k].rows = db[k].rows
            BY <1>3, <2>2
      <3> QED BY <3>1
    <2> QED BY <2>1, <2>2
  <1>5. \A j \in D : w[j] = o[j] /\ j \in DOMAIN o /\ o[j].tok \in 1..clock
        BY DEF Renumbered, Settled
  <1>6. /\ w[i].e = e /\ w[i].up = o[i].up /\ w[i].val = o[i].val /\ w[i].tok = clock + 1
        BY DEF Renumbered
  <1>7. \A j \in D : j # 1 => o[j].up \in DOMAIN o /\ w[o[j].up].tok = o[o[j].up].tok
    <2> SUFFICES ASSUME NEW j \in D, j # 1
                 PROVE  o[j].up \in DOMAIN o /\ w[o[j].up].tok = o[o[j].up].tok
        OBVIOUS
    <2>1. o[j].up \in 1..(j - 1) /\ j < i
          BY <1>5 DEF IsObject
    <2>2. PICK u : u = o[j].up
          OBVIOUS
    <2>3. j \in 1..Len(o) /\ i \in 1..Len(o)
          BY <1>1, <1>5
    <2>4. u \in 1..Len(o) /\ u # i
          BY ONLY <1>1, <2>1, <2>2, <2>3
    <2> QED BY <1>1, <2>2, <2>4 DEF Renumbered
  <1>8. i # 1 => w[o[i].up].tok = o[o[i].up].tok
        BY <1>5
  <1>9. ASSUME NEW j \in D \cup {i}
        PROVE  /\ w[j].tok \in 1..clock'
               /\ \E r \in db'[w[j].e].rows :
                          /\ r.tok = w[j].tok /\ r.val = w[j].val
                          /\ j # 1 => r.ptok = w[w[j].up].tok
    <2>1. CASE j = i
          BY <1>3, <1>6, <1>8, <2>1
    <2>2. CASE j \in D
      <3>1. \E r \in db[o[j].e].rows :
                          /\ r.tok = o[j].tok /\ r.val = o[j].val
                          /\ j # 1 => r.ptok = o[o[j].up].tok
            BY <2>2 DEF Settled
      <3>2. o[j].tok \in 1..clock'
            BY <1>3, <1>5, <2>2
      <3> QED BY <1>2, <1>4, <1>5, <1>7, <2>2, <3>1, <3>2
    <2> QED BY <2>1, <2>2
  <1>10. \A x, y \in D : o[x].e = o[y].e /\ o[x].tok = o[y].tok => x = y
    <2>1. ASSUME NEW x \in D, NEW y \in D, o[x].e = o[y].e, o[x].tok = o[y].tok, x < y
          PROVE  FALSE
      <3>1. PICK r \in db[o[x].e].rows : r.tok = o[x].tok
            BY DEF Settled
      <3>2. r.id < r.id
            BY <2>1, <3>1 DEF Settled
      <3>3. r.id \in Nat
        <4>1. r.id \in 0..MaxRowid
              BY <1>2, <1>5, <3>1, RowsFinite
        <4> QED BY <4>1
      <3> QED BY <3>2, <3>3
    <2> QED BY <1>1, <1>5, <2>1
  <1>11. ASSUME NEW j \in D \cup {i}, NEW k \in Entries, Up[k] = w[j].e, NEW r \in db'[k].rows,
                r.ptok = w[j].tok
         PROVE  \E x \in D \cup {i} : w[x].up = j /\ w[x].e = k /\ w[x].tok = r.tok
    <2>1. CASE j = i
      <3>1. r.ptok = clock + 1
            BY <1>6, <1>11, <2>1
      <3>2. CASE r \in db[k].rows
            BY <1>3, <3>1, <3>2
      <3>3. CASE r = row
        <4>1. row.ptok \in 0..clock
              BY <1>5
        <4> QED BY <3>1, <3>3, <4>1
      <3> QED BY <1>4, <3>2, <3>3
    <2>2. CASE j \in D /\ r \in db[k].rows
      <3>1. PICK x \in D : o[x].up = j /\ o[x].e = k /\ o[x].tok = r.tok
            BY <1>5, <1>11, <2>2 DEF Settled
      <3> QED BY <1>5, <3>1
    <2>3. CASE j \in D /\ r = row /\ k = e
      <3>1. row.ptok = o[j].tok /\ o[j].tok \in 1..clock /\ o[j].e = Up[e]
            BY <1>5, <1>11, <2>3
      <3>2. i # 1
            BY <3>1
      <3>3. o[i].up \in D /\ o[o[i].up].tok = o[j].tok
            BY <3>1, <3>2
      <3>4. o[o[i].up].e = Up[e]
            BY <3>2 DEF IsObject
      <3>5. o[i].up = j
            BY <1>10, <2>3, <3>1, <3>3, <3>4
      <3> QED BY <1>3, <1>6, <2>3, <3>5
    <2> QED BY <1>4, <2>1, <2>2, <2>3
  <1>12. ASSUME NEW x \in D \cup {i}, NEW y \in D \cup {i}, x < y, w[x].e = w[y].e,
                NEW r \in db'[w[x].e].rows, NEW q \in db'[w[x].e].rows,
                r.tok = w[x].tok, q.tok = w[y].tok
         PROVE  r.id < q.id
    <2>1. i \in Nat /\ \A j \in D : j \in Nat /\ j < i
          BY <1>1, <1>5
    <2>2. x \in D
          BY <1>12, <2>1
    <2>3. r \in db[w[x].e].rows
          BY <1>2, <1>3, <1>4, <1>5, <1>12, <2>2
    <2>4. CASE y = i
      <3>1. q = row /\ w[x].e = e
            BY <1>3, <1>4, <1>6, <1>12, <2>4
      <3> QED BY <2>3, <3>1 DEF RowAdded
    <2>5. CASE y \in D
      <3>1. q \in db[w[x].e].rows
            BY <1>2, <1>3, <1>4, <1>5, <1>12, <2>2, <2>5
      <3> QED BY <1>5, <1>12, <2>2, <2>3, <2>5, <3>1 DEF Settled
    <2> QED BY <2>4, <2>5
  <1> QED BY <1>9, <1>11, <1>12 DEF Settled

-----------------------------------------------------------------------------
(* Every step keeps the stored trees.                                      *)

LEMMA SettledSame ==
    ASSUME \A k \in Entries : db'[k].rows = db[k].rows, clock' = clock,
           NEW o \in Seq(Node), NEW D, D \subseteq DOMAIN o, Settled(db, clock, o, D)
    PROVE  Settled(db', clock', o, D)
  <1>1. \A i \in D : o[i].e \in Entries
    <2> TAKE i \in D
    <2>1. o[i] \in Node
          OBVIOUS
    <2> QED BY <2>1 DEF Node
  <1> QED BY <1>1 DEF Settled

\* The state TreeInv speaks of, call by call.
CallOf(c, o, D) == Inserts(c) /\ o = call[c].obj /\ D = Done(c)

LEMMA CallsAreTyped ==
    ASSUME GrowInv, NEW c \in Clients, NEW o, NEW D, CallOf(c, o, D)
    PROVE  IsObject(o) /\ o \in Seq(Node) /\ D \subseteq DOMAIN o /\ WholeObject(o)
  <1>1. IsObject(o) /\ AtFront(o, call[c].todo)
        BY DEF GrowInv, LinkInv, TypeOK, CallOK, CallOf, UnderWay, Inserts
  <1> QED BY <1>1 DEF IsObject, AtFront, CallOf, Done

\* Calls that stay what they are and calls that begin.
LEMMA StillKeepsTree ==
    ASSUME GrowInv, TreeInv, Still,
           \A c \in Clients : call'[c].op = "insert" =>
              call'[c] = call[c] \/ DOMAIN call'[c].obj \ call'[c].todo = {}
    PROVE  TreeInv'
  <1>1. (\A k \in Entries : db'[k].rows = db[k].rows) /\ clock' = clock /\ saved' = saved
        BY DEF Still
  <1>2. RowsGrow'
        BY <1>1 DEF TreeInv, RowsGrow
  <1>3. ASSUME NEW c \in Clients, call'[c].op = "insert"
        PROVE  /\ \A i \in DOMAIN call'[c].obj \ call'[c].todo : call'[c].obj[i].tok \in 0..clock'
               /\ call'[c].ok => Settled(db', clock', call'[c].obj,
                                         DOMAIN call'[c].obj \ call'[c].todo)
    <2>1. CASE DOMAIN call'[c].obj \ call'[c].todo = {}
          BY <2>1 DEF Settled
    <2>2. CASE call'[c] = call[c]
      <3>1. PICK o, D : o = call[c].obj /\ D = Done(c)
            OBVIOUS
      <3>2. CallOf(c, o, D)
            BY <1>3, <2>2, <3>1 DEF CallOf, Inserts
      <3>3. o \in Seq(Node) /\ D \subseteq DOMAIN o
            BY <3>2, CallsAreTyped
      <3>4. (\A i \in D : o[i].tok \in 0..clock) /\ (call[c].ok => Settled(db, clock, o, D))
            BY <3>1, <3>2 DEF TreeInv, CallOf
      <3>5. call[c].ok => Settled(db', clock', o, D)
            BY <1>1, <3>3, <3>4, SettledSame
      <3> QED BY <1>1, <2>2, <3>1, <3>4, <3>5 DEF Done
    <2> QED BY <1>3, <2>1, <2>2
  <1>4. ASSUME NEW c \in Clients, NEW x \in Clients, c # x,
               call'[c].op = "insert", call'[x].op = "insert"
        PROVE  Apart(call'[c].obj, DOMAIN call'[c].obj \ call'[c].todo,
                     call'[x].obj, DOMAIN call'[x].obj \ call'[x].todo)
    <2>1. CASE call'[c] = call[c] /\ call'[x] = call[x]
          BY <1>4, <2>1 DEF TreeInv, Inserts, Done
    <2>2. CASE \/ DOMAIN call'[c].obj \ call'[c].todo = {}
               \/ DOMAIN call'[x].obj \ call'[x].todo = {}
          BY <2>2 DEF Apart
    <2> QED BY <1>4, <2>1, <2>2
  <1>5. ASSUME NEW s \in saved'
        PROVE  /\ WholeObject(s) /\ Settled(db', clock', s, DOMAIN s)
               /\ \A c \in Clients : call'[c].op = "insert" =>
                     Apart(s, DOMAIN s, call'[c].obj, DOMAIN call'[c].obj \ call'[c].todo)
    <2>1. /\ WholeObject(s) /\ Settled(db, clock, s, DOMAIN s)
          /\ \A c \in Clients : Inserts(c) => Apart(s, DOMAIN s, call[c].obj, Done(c))
          BY <1>1 DEF TreeInv
    <2>2. s \in Seq(Node)
          BY <2>1 DEF WholeObject, IsObject
    <2>3. Settled(db', clock', s, DOMAIN s)
          BY <1>1, <2>1, <2>2, SettledSame
    <2>4. ASSUME NEW c \in Clients, call'[c].op = "insert"
          PROVE  Apart(s, DOMAIN s, call'[c].obj, DOMAIN call'[c].obj \ call'[c].todo)
      <3>1. CASE call'[c] = call[c]
            BY <2>1, <2>4, <3>1 DEF Inserts, Done
      <3>2. CASE DOMAIN call'[c].obj \ call'[c].todo = {}
            BY <3>2 DEF Apart
      <3> QED BY <2>4, <3>1, <3>2
    <2> QED BY <2>1, <2>3, <2>4
  <1> QED BY <1>2, <1>3, <1>4, <1>5 DEF TreeInv, Inserts, Done

\* The nodes D of w, which call c is done with, are in no other's tree.
OnlyIts(c, i, w, tok, D) ==
    /\ D \subseteq DOMAIN w /\ DOMAIN w = DOMAIN call[c].obj
    /\ \A j \in D : w[j].tok \in 0..clock \/ w[j].tok = tok
    /\ \A x \in Clients : x # c /\ Inserts(x) =>
          /\ Apart(w, D, call[x].obj, Done(x))
          /\ Apart(call[x].obj, Done(x), w, D)
    /\ \A s \in saved : Apart(s, DOMAIN s, w, D)
    /\ call'[c].op = "insert" => call'[c].obj = w /\ DOMAIN w \ call'[c].todo = D
    /\ call[c].todo = {i} => D = DOMAIN w

LEMMA PassesApart ==
    ASSUME GrowInv, TreeInv, NEW c \in Clients, NEW i, NEW w, NEW tok, NEW ok,
           Passes(c, i, w, tok, ok), tok \in {0, clock + 1},
           NEW D, D = Done(c) \cup {i}
    PROVE  OnlyIts(c, i, w, tok, D)
  <1> DEFINE o == call[c].obj
  <1>1. Inserts(c) /\ i \in DOMAIN o /\ i \in call[c].todo /\ Renumbered(o, w, i, tok)
        BY DEF Passes, Inserts
  <1>2. clock \in Nat
        BY DEF GrowInv, LinkInv, TypeOK
  <1>3. DOMAIN w = DOMAIN o /\ w[i].tok = tok /\ (\A j \in Done(c) : w[j] = o[j] /\ j # i)
        BY <1>1 DEF Renumbered, Done
  <1>4. \A j \in Done(c) : o[j].tok \in 0..clock
        BY <1>1 DEF TreeInv
  <1>5. D \subseteq DOMAIN w
        BY <1>1, <1>3 DEF Done
  <1>6. \A j \in D : (j = i /\ w[j].tok = tok) \/ (j \in Done(c) /\ w[j].tok = o[j].tok)
        BY <1>3
  <1>7. \A j \in D : w[j].tok \in 0..clock \/ w[j].tok = tok
        BY <1>4, <1>6
  <1>8. ASSUME NEW x \in Clients, x # c, Inserts(x)
        PROVE  Apart(w, D, call[x].obj, Done(x)) /\ Apart(call[x].obj, Done(x), w, D)
    <2>1. \A j \in Done(x) : call[x].obj[j].tok \in 0..clock
          BY <1>8 DEF TreeInv
    <2>2. Apart(o, Done(c), call[x].obj, Done(x)) /\ Apart(call[x].obj, Done(x), o, Done(c))
          BY <1>1, <1>8 DEF TreeInv
    <2> HIDE DEF o
    <2>3. \A j \in D, m \in Done(x) : w[j].tok = call[x].obj[m].tok => w[j].tok = 0
      <3> SUFFICES ASSUME NEW j \in D, NEW m \in Done(x), w[j].tok = call[x].obj[m].tok
                   PROVE  w[j].tok = 0
          OBVIOUS
      <3>1. CASE w[j].tok = tok
        <4>1. PICK t : t = call[x].obj[m].tok
              OBVIOUS
        <4>2. t \in 0..clock /\ t = tok
              BY <2>1, <3>1, <4>1
        <4>3. t = 0
              BY ONLY <1>2, <4>2, tok \in {0, clock + 1}
        <4> QED BY <3>1, <4>2, <4>3
      <3>2. CASE j \in Done(c) /\ w[j].tok = o[j].tok
            BY <2>2, <3>2 DEF Apart
      <3> QED BY <1>6, <3>1, <3>2
    <2> QED BY <2>3 DEF Apart
  <1>9. ASSUME NEW s \in saved
        PROVE  Apart(s, DOMAIN s, w, D)
    <2>1. \A j \in DOMAIN s : s[j].tok \in 1..clock
          BY DEF TreeInv, Settled
    <2>2. Apart(s, DOMAIN s, o, Done(c))
          BY <1>1 DEF TreeInv
    <2> HIDE DEF o
    <2>3. \A j \in DOMAIN s, m \in D : s[j].tok # w[m].tok
      <3> TAKE j \in DOMAIN s, m \in D
      <3>1. CASE w[m].tok = tok
            BY <1>2, <2>1, <3>1
      <3>2. CASE m \in Done(c) /\ w[m].tok = o[m].tok
        <4>1. s[j].tok # 0
              BY <2>1
        <4> QED BY <2>2, <3>2, <4>1 DEF Apart
      <3> QED BY <1>6, <3>1, <3>2
    <2> QED BY <2>3 DEF Apart
  <1>10. ASSUME call'[c].op = "insert"
         PROVE  call'[c].obj = w /\ DOMAIN w \ call'[c].todo = D
    <2>1. call'[c].obj = w /\ call'[c].todo = call[c].todo \ {i}
          BY <1>10 DEF Passes
    <2> QED BY <1>1, <1>3, <2>1 DEF Done
  <1>11. call[c].todo = {i} => D = DOMAIN w
         BY <1>1, <1>3 DEF Done
  <1> QED BY <1>3, <1>5, <1>7, <1>8, <1>9, <1>10, <1>11 DEF OnlyIts

\* What is left to show of a step by which call c is done with a node.
LEMMA PassesKeepsTree ==
    ASSUME GrowInv, TreeInv, NEW c \in Clients, NEW i, NEW w, NEW tok, NEW ok \in BOOLEAN,
           Passes(c, i, w, tok, ok), tok \in {0, clock + 1},
           clock' \in {clock, clock + 1}, tok <= clock', RowsGrow',
           NEW D, D = Done(c) \cup {i},
           ok /\ call[c].ok => Settled(db', clock', w, D),
           \A x \in Clients : x # c /\ Inserts(x) /\ call[x].ok =>
              Settled(db', clock', call[x].obj, Done(x)),
           \A s \in saved : Settled(db', clock', s, DOMAIN s)
    PROVE  TreeInv'
  <1>1. /\ D \subseteq DOMAIN w /\ DOMAIN w = DOMAIN call[c].obj
        /\ \A j \in D : w[j].tok \in 0..clock \/ w[j].tok = tok
        /\ \A x \in Clients : x # c /\ Inserts(x) =>
                 /\ Apart(w, D, call[x].obj, Done(x))
                 /\ Apart(call[x].obj, Done(x), w, D)
        /\ \A s \in saved : Apart(s, DOMAIN s, w, D)
        /\ call'[c].op = "insert" => call'[c].obj = w /\ DOMAIN w \ call'[c].todo = D
        /\ call[c].todo = {i} => D = DOMAIN w
    <2>1. OnlyIts(c, i, w, tok, D)
          BY PassesApart
    <2> QED BY <2>1 DEF OnlyIts
  <1>2. \A x \in Clients : x # c => call'[x] = call[x]
        BY DEF Passes
  <1>3. clock \in Nat /\ tok \in 0..clock' /\ \A n \in 0..clock : n \in 0..clock'
    <2>1. clock \in Nat
          BY DEF GrowInv, LinkInv, TypeOK
    <2> QED BY <2>1
  <1>4. ASSUME NEW x \in Clients, call'[x].op = "insert"
        PROVE  /\ \A j \in DOMAIN call'[x].obj \ call'[x].todo : call'[x].obj[j].tok \in 0..clock'
               /\ call'[x].ok => Settled(db', clock', call'[x].obj,
                                         DOMAIN call'[x].obj \ call'[x].todo)
    <2>1. CASE x = c
      <3>1. call'[x].obj = w /\ DOMAIN call'[x].obj \ call'[x].todo = D
            BY <1>1, <1>4, <2>1
      <3>2. call'[x].ok => ok /\ call[c].ok
            BY <1>4, <2>1 DEF Passes
      <3> QED BY <1>1, <1>3, <3>1, <3>2
    <2>2. CASE x # c
          BY <1>2, <1>3, <1>4, <2>2 DEF TreeInv, Inserts, Done
    <2> QED BY <2>1, <2>2
  <1>5. ASSUME NEW x \in Clients, NEW y \in Clients, x # y,
               call'[x].op = "insert", call'[y].op = "insert"
        PROVE  Apart(call'[x].obj, DOMAIN call'[x].obj \ call'[x].todo,
                     call'[y].obj, DOMAIN call'[y].obj \ call'[y].todo)
    <2>1. CASE x = c
          BY <1>1, <1>2, <1>5, <2>1 DEF Inserts, Done
    <2>2. CASE y = c
          BY <1>1, <1>2, <1>5, <2>2 DEF Inserts, Done
    <2>3. CASE x # c /\ y # c
          BY <1>2, <1>5, <2>3 DEF TreeInv, Inserts, Done
    <2> QED BY <2>1, <2>2, <2>3
  <1>6. ASSUME NEW s \in saved'
        PROVE  /\ WholeObject(s) /\ Settled(db', clock', s, DOMAIN s)
               /\ \A x \in Clients : call'[x].op = "insert" =>
                     Apart(s, DOMAIN s, call'[x].obj, DOMAIN call'[x].obj \ call'[x].todo)
    <2>1. CASE s \in saved
      <3>1. WholeObject(s) /\ Settled(db', clock', s, DOMAIN s)
            BY <2>1 DEF TreeInv
      <3>2. ASSUME NEW x \in Clients, call'[x].op = "insert"
            PROVE  Apart(s, DOMAIN s, call'[x].obj, DOMAIN call'[x].obj \ call'[x].todo)
        <4>1. CASE x = c
              BY <1>1, <2>1, <3>2, <4>1
        <4>2. CASE x # c
              BY <1>2, <2>1, <3>2, <4>2 DEF TreeInv, Inserts, Done
        <4> QED BY <4>1, <4>2
      <3> QED BY <3>1, <3>2
    <2>2. CASE s \notin saved
      <3>1. s = w /\ call[c].todo = {i} /\ call[c].ok /\ ok /\ call'[c].op # "insert"
            BY <1>6, <2>2 DEF Passes
      <3>2. D = DOMAIN w /\ Settled(db', clock', w, DOMAIN w)
            BY <1>1, <3>1
      <3>3. WholeObject(w)
        <4>1. /\ IsObject(w)
              /\ \A j \in DOMAIN call[c].obj : w[j].e = call[c].obj[j].e /\ w[j].up = call[c].obj[j].up
              BY DEF Passes, Renumbered
        <4>2. WholeObject(call[c].obj)
              BY DEF GrowInv, UnderWay, AtFront, Passes
        <4> QED BY <1>1, <4>1, <4>2, SameTreeIsWhole
      <3>4. ASSUME NEW x \in Clients, call'[x].op = "insert"
            PROVE  Apart(w, DOMAIN w, call'[x].obj, DOMAIN call'[x].obj \ call'[x].todo)
        <4>1. x # c /\ call'[x] = call[x]
              BY <1>2, <3>1, <3>4
        <4> QED BY <1>1, <3>2, <3>4, <4>1 DEF Inserts, Done
      <3> QED BY <3>1, <3>2, <3>3, <3>4
    <2> QED BY <2>1, <2>2
  <1> QED BY <1>4, <1>5, <1>6 DEF TreeInv, Inserts, Done

LEMMA LosesKeepsTree ==
    ASSUME GrowInv, TreeInv, NEW c \in Clients, NEW i, NEW w, Loses(c, i, w)
    PROVE  TreeInv'
  <1>1. Passes(c, i, w, 0, FALSE) /\ clock' = clock /\ \A k \in Entries : db'[k].rows = db[k].rows
        BY DEF Loses
  <1>2. RowsGrow'
        BY <1>1 DEF TreeInv, RowsGrow
  <1>3. ASSUME NEW x \in Clients, Inserts(x), call[x].ok
        PROVE  Settled(db', clock', call[x].obj, Done(x))
    <2>1. PICK o, D : o = call[x].obj /\ D = Done(x)
          OBVIOUS
    <2>2. CallOf(x, o, D) /\ Settled(db, clock, o, D)
          BY <1>3, <2>1 DEF CallOf, TreeInv
    <2>3. o \in Seq(Node) /\ D \subseteq DOMAIN o
          BY <2>2, CallsAreTyped
    <2> QED BY <1>1, <2>1, <2>2, <2>3, SettledSame
  <1>4. ASSUME NEW s \in saved PROVE Settled(db', clock', s, DOMAIN s)
    <2>1. WholeObject(s) /\ Settled(db, clock, s, DOMAIN s)
          BY DEF TreeInv
    <2>2. s \in Seq(Node)
          BY <2>1 DEF WholeObject, IsObject
    <2> QED BY <1>1, <2>1, <2>2, SettledSame
  <1>5. clock \in Nat
        BY DEF GrowInv, LinkInv, TypeOK
  <1>6. 0 \in {0, clock + 1} /\ clock' \in {clock, clock + 1} /\ 0 <= clock' /\ FALSE \in BOOLEAN
        BY <1>1, <1>5
  <1>7. PICK D : D = Done(c) \cup {i}
        OBVIOUS
  <1> QED BY <1>1, <1>2, <1>3, <1>4, <1>6, <1>7, PassesKeepsTree

LEMMA StoresKeepsTree ==
    ASSUME GrowInv, TreeInv, NEW c \in Clients, NEW i, NEW w, NEW row, Stores(c, i, w, row),
           \A e \in Entries \ {1} : Linked(e)
    PROVE  TreeInv'
  <1>1. PICK o, D, e : o = call[c].obj /\ D = Done(c) /\ e = o[i].e
        OBVIOUS
  <1>2. /\ Passes(c, i, w, clock + 1, TRUE) /\ row.val = o[i].val
        /\ row.ptok = IF Linked(e) THEN o[o[i].up].tok ELSE 0
        /\ i \in DOMAIN o /\ i \in call[c].todo /\ Renumbered(o, w, i, clock + 1)
        BY <1>1 DEF Stores, Passes
  <1>3. /\ RowAdded(e, row) /\ o[i] \in Node /\ (i # 1 => o[i].up \in D /\ o[i].up # i)
        BY <1>1, StoresAddsRow DEF TreeInv
  <1>4. CallOf(c, o, D)
        BY <1>1, <1>2 DEF CallOf, Inserts, Passes
  <1>5. IsObject(o) /\ o \in Seq(Node) /\ D \subseteq DOMAIN o
        BY <1>4, CallsAreTyped
  <1>6. clock \in Nat /\ DbOK
        BY DEF GrowInv, LinkInv, TypeOK
  <1>7. i # 1 => Linked(e)
    <2>1. SUFFICES ASSUME i # 1 PROVE Linked(e)
          OBVIOUS
    <2>2. o[i].up \in 1..(i - 1) /\ Up[e] = o[o[i].up].e /\ o[i].up \in DOMAIN o
          BY <1>1, <1>2, <1>3, <1>5, <2>1 DEF IsObject
    <2>3. o[o[i].up] \in Node
          BY <1>5, <2>2
    <2>4. Up[e] # 0
          BY <2>2, <2>3 DEF Node, Entries
    <2>5. e \in Entries /\ e # 1
          BY <1>1, <1>3, <2>4, SchemaAssumption DEF Node
    <2> QED BY <2>5
  <1>8. (i # 1 => row.ptok = o[o[i].up].tok) /\ (i = 1 => row.ptok = 0)
    <2>1. i = 1 => e = 1
          BY <1>1, <1>5 DEF IsObject
    <2>2. ~Linked(1)
          BY DEF Linked
    <2> QED BY <1>2, <1>7, <2>1, <2>2
  <1>9. RowsGrow'
        BY <1>3, <1>6, RowsGrowOn DEF TreeInv
  <1>10. call[c].ok => Settled(db', clock', w, D \cup {i})
    <2>1. SUFFICES ASSUME call[c].ok PROVE Settled(db', clock', w, D \cup {i})
          OBVIOUS
    <2>2. Settled(db, clock, o, D)
          BY <1>1, <1>4, <2>1 DEF TreeInv, CallOf
    <2>3. i \notin D /\ \A j \in D : j < i
          BY <1>1, <1>2, <1>4 DEF Done, GrowInv, UnderWay, AtFront, CallOf, Inserts
    <2> QED BY <1>1, <1>2, <1>3, <1>5, <1>6, <1>8, <2>2, <2>3, SettledGrows
  <1>11. ASSUME NEW p, NEW E, Settled(db, clock, p, E), Apart(p, E, o, D), p \in Seq(Node),
                E \subseteq DOMAIN p
         PROVE  Settled(db', clock', p, E)
    <2>1. \A j \in E : p[j].tok \in 1..clock
          BY <1>11 DEF Settled
    <2>2. \A j \in E : row.ptok # p[j].tok
      <3> TAKE j \in E
      <3>1. CASE i = 1
            BY <1>8, <2>1, <3>1
      <3>2. CASE i # 1
        <4>1. p[j].tok # 0
              BY <2>1
        <4> QED BY <1>3, <1>8, <1>11, <3>2, <4>1 DEF Apart
      <3> QED BY <3>1, <3>2
    <2> QED BY <1>3, <1>6, <1>11, <2>2, SettledStays
  <1>12. ASSUME NEW x \in Clients, x # c, Inserts(x), call[x].ok
         PROVE  Settled(db', clock', call[x].obj, Done(x))
    <2>1. PICK p, E : p = call[x].obj /\ E = Done(x)
          OBVIOUS
    <2>2. CallOf(x, p, E) /\ Settled(db, clock, p, E) /\ Apart(p, E, o, D)
          BY <1>1, <1>4, <1>12, <2>1 DEF CallOf, TreeInv
    <2>3. p \in Seq(Node) /\ E \subseteq DOMAIN p
          BY <2>2, CallsAreTyped
    <2> QED BY <1>11, <2>1, <2>2, <2>3
  <1>13. ASSUME NEW s \in saved PROVE Settled(db', clock', s, DOMAIN s)
    <2>1. WholeObject(s) /\ Settled(db, clock, s, DOMAIN s) /\ Apart(s, DOMAIN s, o, D)
          BY <1>1, <1>4 DEF TreeInv, CallOf
    <2>2. s \in Seq(Node)
          BY <2>1 DEF WholeObject, IsObject
    <2> QED BY <1>11, <2>1, <2>2
  <1>14. /\ clock + 1 \in {0, clock + 1} /\ clock' \in {clock, clock + 1} /\ clock + 1 <= clock'
         /\ TRUE \in BOOLEAN
    <2>1. clock' = clock + 1
          BY <1>3 DEF RowAdded
    <2> QED BY <1>6, <2>1
  <1>15. PICK E : E = Done(c) \cup {i}
         OBVIOUS
  <1>16. TRUE /\ call[c].ok => Settled(db', clock', w, E)
         BY <1>1, <1>10, <1>15
  <1> QED BY <1>2, <1>9, <1>12, <1>13, <1>14, <1>15, <1>16, PassesKeepsTree

LEMMA NextTreeInv ==
    ASSUME Calls \subseteq {"create", "insert", "select"}, \A e \in Entries \ {1} : Linked(e)
    PROVE  GrowInv /\ TreeInv /\ [Next]_vars => TreeInv'
  <1> SUFFICES ASSUME GrowInv, TreeInv, [Next]_vars PROVE TreeInv'
      OBVIOUS
  <1>1. CASE Calm
    <2>1. Still /\ \A c \in Clients : call'[c].op = "insert" =>
             call'[c] = call[c] \/ DOMAIN call'[c].obj \ call'[c].todo = {}
          BY <1>1 DEF Calm
    <2> QED BY <2>1, StillKeepsTree
  <1>2. ASSUME NEW c \in Clients, Stops(c) PROVE TreeInv'
    <2>1. Still /\ \A d \in Clients : call'[d].op = "insert" =>
             call'[d] = call[d] \/ DOMAIN call'[d].obj \ call'[d].todo = {}
          BY <1>2 DEF Stops
    <2> QED BY <2>1, StillKeepsTree
  <1>3. ASSUME NEW c \in Clients, NEW o, Begins(c, o) PROVE TreeInv'
    <2>1. Still /\ DOMAIN call'[c].obj \ call'[c].todo = {}
          BY <1>3 DEF Begins
    <2>2. \A d \in Clients : call'[d].op = "insert" =>
             call'[d] = call[d] \/ DOMAIN call'[d].obj \ call'[d].todo = {}
          BY <1>3, <2>1 DEF Begins
    <2> QED BY <2>1, <2>2, StillKeepsTree
  <1>4. ASSUME NEW c \in Clients, NEW lost, NEW r, Reads(c, lost, r) PROVE TreeInv'
    <2>1. Still /\ \A d \in Clients : call'[d].op = "insert" =>
             call'[d] = call[d] \/ DOMAIN call'[d].obj \ call'[d].todo = {}
          BY <1>4 DEF Reads
    <2> QED BY <2>1, StillKeepsTree
  <1>5. ASSUME NEW c \in Clients, NEW i, NEW w, NEW row, Stores(c, i, w, row) PROVE TreeInv'
        BY <1>5, StoresKeepsTree
  <1>6. ASSUME NEW c \in Clients, NEW i, NEW w, Loses(c, i, w) PROVE TreeInv'
        BY <1>6, LosesKeepsTree
  <1> QED BY <1>1, <1>2, <1>3, <1>4, <1>5, <1>6, StepKinds DEF GrowInv

\* As long as the clients only create, insert and select, and every class that
\* has members has a rowid, select gives back every object that was inserted
\* without an error as it was: the same tree, in the same order, with the same
\* values, whatever other calls interleave, fail or crash
\* (OrmEngine!RoundTrip; meta_insert and meta_select, orm.cpp:1172-1387).
THEOREM RoundTripCorrect ==
    ASSUME Calls \subseteq {"create", "insert", "select"}, \A e \in Entries \ {1} : Linked(e)
    PROVE  Spec => []RoundTrip
  <1>1. Init => TreeInv
    <2> SUFFICES ASSUME Init PROVE TreeInv
        OBVIOUS
    <2>1. (\A e \in Entries : db[e].rows = {}) /\ saved = {} /\ \A c \in Clients : ~Inserts(c)
          BY DEF Init, Idle, NoTable, Inserts
    <2> QED BY <2>1 DEF TreeInv, RowsGrow
  <1>2. GrowInv /\ TreeInv /\ [Next]_vars => GrowInv' /\ TreeInv'
        BY NextGrowInv, NextTreeInv
  <1>3. GrowInv /\ TreeInv => RoundTrip
        BY TreeGivesBack DEF GrowInv
  <1> QED BY <1>1, <1>2, <1>3, InitGrowInv, PTL DEF Spec

-----------------------------------------------------------------------------
(* A member that is not a container has one row.                           *)

\* Of the nodes D of o: no two are one row, and a row that is a member of one of
\* them, of a class there is at most one member of, is one of them.
Lone(d, o, D) ==
    /\ \A i, j \in D : o[i].tok = o[j].tok /\ o[i].tok # 0 => i = j
    /\ \A i \in D, k \in Entries :
          Linked(k) /\ Up[k] = o[i].e /\ Kind[k] # "many" /\ o[i].tok # 0 =>
             \A r \in d[k].rows : r.ptok = o[i].tok => \E j \in D : o[j].up = i /\ o[j].e = k

SingleInv ==
    /\ \A e \in Entries : Linked(e) /\ Kind[e] # "many" =>
          \A r, q \in db[e].rows : r.ptok = q.ptok /\ r.ptok # 0 => r = q
    /\ \A c \in Clients : Inserts(c) =>
          /\ \A i \in Done(c) : call[c].obj[i].tok \in 0..clock
          /\ Lone(db, call[c].obj, Done(c))
    /\ \A c, x \in Clients : c # x /\ Inserts(c) /\ Inserts(x) =>
          Apart(call[c].obj, Done(c), call[x].obj, Done(x))

LEMMA StillKeepsSingle ==
    ASSUME GrowInv, SingleInv, Still,
           \A c \in Clients : call'[c].op = "insert" =>
              call'[c] = call[c] \/ DOMAIN call'[c].obj \ call'[c].todo = {}
    PROVE  SingleInv'
  <1>1. (\A k \in Entries : db'[k].rows = db[k].rows) /\ clock' = clock
        BY DEF Still
  <1>2. ASSUME NEW c \in Clients, call'[c].op = "insert"
        PROVE  /\ \A i \in DOMAIN call'[c].obj \ call'[c].todo : call'[c].obj[i].tok \in 0..clock'
               /\ Lone(db', call'[c].obj, DOMAIN call'[c].obj \ call'[c].todo)
    <2>1. CASE DOMAIN call'[c].obj \ call'[c].todo = {}
          BY <2>1 DEF Lone
    <2>2. CASE call'[c] = call[c]
          BY <1>1, <1>2, <2>2 DEF SingleInv, Lone, Inserts, Done
    <2> QED BY <1>2, <2>1, <2>2
  <1>3. ASSUME NEW c \in Clients, NEW x \in Clients, c # x,
               call'[c].op = "insert", call'[x].op = "insert"
        PROVE  Apart(call'[c].obj, DOMAIN call'[c].obj \ call'[c].todo,
                     call'[x].obj, DOMAIN call'[x].obj \ call'[x].todo)
    <2>1. CASE call'[c] = call[c] /\ call'[x] = call[x]
          BY <1>3, <2>1 DEF SingleInv, Inserts, Done
    <2>2. CASE DOMAIN call'[c].obj \ call'[c].todo = {} \/ DOMAIN call'[x].obj \ call'[x].todo = {}
          BY <2>2 DEF Apart
    <2> QED BY <1>3, <2>1, <2>2
  <1>4. \A e \in Entries : Linked(e) /\ Kind[e] # "many" =>
           \A r, q \in db'[e].rows : r.ptok = q.ptok /\ r.ptok # 0 => r = q
        BY <1>1 DEF SingleInv
  <1> QED BY <1>2, <1>3, <1>4 DEF SingleInv, Inserts, Done

\* Node i of the object o of call c is done, as row, or without one.
Settles(c, i, w, tok, row) ==
    LET o == call[c].obj
        e == o[i].e
    IN  /\ \E ok : Passes(c, i, w, tok, ok)
        /\ tok \in {0, clock + 1} /\ tok \in 0..clock' /\ clock' \in {clock, clock + 1}
        /\ \A k \in Entries : \A r \in db'[k].rows :
              r \in db[k].rows \/ (k = e /\ r = row /\ (Linked(e) => r.ptok = o[o[i].up].tok))

LEMMA PassesKeepsSingle ==
    ASSUME GrowInv, SingleInv, NEW c \in Clients, NEW i, NEW w, NEW tok, NEW row,
           Settles(c, i, w, tok, row)
    PROVE  SingleInv'
  <1>1. PICK o, D, e, u : o = call[c].obj /\ D = Done(c) /\ e = o[i].e /\ u = o[i].up
        OBVIOUS
  <1>2. /\ tok \in {0, clock + 1} /\ tok \in 0..clock' /\ clock' \in {clock, clock + 1}
        /\ \A k \in Entries : \A r \in db'[k].rows :
              r \in db[k].rows \/ (k = e /\ r = row /\ (Linked(e) => r.ptok = o[u].tok))
        BY <1>1 DEF Settles
  <1>3. /\ Inserts(c) /\ i \in DOMAIN o /\ i \in call[c].todo /\ \A j \in call[c].todo : i <= j
        /\ Renumbered(o, w, i, tok)
        /\ \A x \in Clients : x # c => call'[x] = call[x]
        /\ call'[c].op = "insert" => call'[c].obj = w /\ call'[c].todo = call[c].todo \ {i}
        BY <1>1 DEF Settles, Passes, Inserts
  <1>4. /\ WholeObject(o) /\ D = DOMAIN o \ call[c].todo /\ i \notin D
        BY <1>1, <1>3 DEF GrowInv, UnderWay, AtFront, Inserts, Done
  <1>5. IsObject(o) /\ o \in Seq(Node) /\ DOMAIN o = 1..Len(o) /\ Len(o) \in Nat
        BY <1>4 DEF WholeObject, IsObject
  <1>6. e \in Entries /\ clock \in Nat
    <2>1. o[i] \in Node
          BY <1>3, <1>5
    <2> QED BY <1>1, <2>1 DEF Node, GrowInv, LinkInv, TypeOK
  <1>7. Linked(e) => u \in D /\ Up[e] = o[u].e
    <2>1. SUFFICES ASSUME Linked(e) PROVE u \in D /\ Up[e] = o[u].e
          OBVIOUS
    <2>2. i # 1
          BY <1>1, <1>5, <2>1 DEF IsObject, Linked
    <2>3. u \in 1..(i - 1) /\ Up[e] = o[u].e
          BY <1>1, <1>3, <1>5, <2>2 DEF IsObject
    <2>4. u \in DOMAIN o /\ u \in Nat /\ i \in Nat /\ u < i
          BY <1>3, <1>5, <2>3
    <2> QED BY <1>3, <1>4, <2>3, <2>4
  <1>8. /\ DOMAIN w = DOMAIN o /\ w[i].e = e /\ w[i].up = u /\ w[i].tok = tok
        /\ \A j \in D : w[j] = o[j] /\ j # i
        BY <1>1, <1>3, <1>4 DEF Renumbered
  <1>9. \A k \in Entries : \A r \in db[k].rows : r.ptok \in 0..clock
        BY DEF GrowInv, LinkInv, RowsNumbered
  <1>10. /\ \A j \in D : o[j].tok \in 0..clock
         /\ \A j, n \in D : o[j].tok = o[n].tok /\ o[j].tok # 0 => j = n
         /\ \A n \in D, k \in Entries :
               Linked(k) /\ Up[k] = o[n].e /\ Kind[k] # "many" /\ o[n].tok # 0 =>
                  \A r \in db[k].rows : r.ptok = o[n].tok => \E j \in D : o[j].up = n /\ o[j].e = k
         BY <1>1, <1>3 DEF SingleInv, Lone
  <1>11. ASSUME Linked(e), Kind[e] # "many", NEW j \in D, o[j].up = u, o[j].e = e
         PROVE  FALSE
    <2>1. i \in DOMAIN o /\ j \in DOMAIN o /\ u \in DOMAIN o /\ Up[e] = o[u].e
          BY <1>3, <1>4, <1>7, <1>11
    <2>2. \A n, m \in {x \in DOMAIN o : o[x].up = u /\ o[x].e = e} : n = m
          BY <1>4, <1>6, <1>11, <2>1 DEF WholeObject, IsWhole
    <2>3. i = j
          BY <1>1, <1>11, <2>1, <2>2
    <2> QED BY <1>4, <2>3
  <1>12. ASSUME Linked(e), Kind[e] # "many", o[u].tok # 0, NEW q \in db[e].rows, q.ptok = o[u].tok
         PROVE  FALSE
    <2>1. PICK j \in D : o[j].up = u /\ o[j].e = e
          BY <1>6, <1>7, <1>10, <1>12
    <2> QED BY <1>11, <1>12, <2>1
  <1>13. ASSUME NEW k \in Entries, Linked(k), Kind[k] # "many", NEW r \in db'[k].rows,
                NEW q \in db'[k].rows, r.ptok = q.ptok, r.ptok # 0
         PROVE  r = q
    <2>1. CASE r \in db[k].rows /\ q \in db[k].rows
          BY <1>13, <2>1 DEF SingleInv
    <2>2. CASE r \notin db[k].rows /\ q \notin db[k].rows
          BY <1>2, <1>13, <2>2
    <2>3. CASE r \notin db[k].rows /\ q \in db[k].rows
          BY <1>2, <1>12, <1>13, <2>3
    <2>4. CASE r \in db[k].rows /\ q \notin db[k].rows
          BY <1>2, <1>12, <1>13, <2>4
    <2> QED BY <2>1, <2>2, <2>3, <2>4
  <1>14. Lone(db', w, D \cup {i})
    <2>1. ASSUME NEW j \in D \cup {i}, NEW n \in D \cup {i}, w[j].tok = w[n].tok, w[j].tok # 0
          PROVE  j = n
      <3>1. CASE j \in D /\ n \in D
            BY <1>8, <1>10, <2>1, <3>1
      <3>2. CASE j = i /\ n \in D
        <4>1. tok \in 0..clock /\ tok # 0
              BY <1>8, <1>10, <2>1, <3>2
        <4> QED BY <1>2, <1>6, <4>1
      <3>3. CASE j \in D /\ n = i
        <4>1. tok \in 0..clock /\ tok # 0
              BY <1>8, <1>10, <2>1, <3>3
        <4> QED BY <1>2, <1>6, <4>1
      <3> QED BY <2>1, <3>1, <3>2, <3>3
    <2>2. ASSUME NEW n \in D \cup {i}, NEW k \in Entries, Linked(k), Up[k] = w[n].e,
                 Kind[k] # "many", w[n].tok # 0, NEW r \in db'[k].rows, r.ptok = w[n].tok
          PROVE  \E j \in D \cup {i} : w[j].up = n /\ w[j].e = k
      <3>1. CASE n = i
        <4>1. tok = clock + 1 /\ r.ptok = tok
              BY <1>2, <1>8, <2>2, <3>1
        <4>2. CASE r \in db[k].rows
          <5>1. r.ptok \in 0..clock
                BY <1>9, <4>2
          <5> QED BY <1>6, <4>1, <5>1
        <4>3. CASE r \notin db[k].rows
          <5>1. u \in D /\ r.ptok = o[u].tok
                BY <1>2, <1>7, <2>2, <4>3
          <5>2. r.ptok \in 0..clock
                BY <1>10, <5>1
          <5> QED BY <1>6, <4>1, <5>2
        <4> QED BY <4>2, <4>3
      <3>2. CASE n \in D /\ r \in db[k].rows
        <4>1. w[n] = o[n]
              BY <1>8, <3>2
        <4>2. PICK j \in D : o[j].up = n /\ o[j].e = k
              BY <1>10, <2>2, <3>2, <4>1
        <4> QED BY <1>8, <4>2
      <3>3. CASE n \in D /\ r \notin db[k].rows
        <4>1. k = e /\ u \in D /\ o[u].tok = o[n].tok /\ o[n].tok # 0
              BY <1>2, <1>7, <1>8, <2>2, <3>3
        <4>2. u = n
              BY <1>10, <3>3, <4>1
        <4> QED BY <1>8, <4>1, <4>2
      <3> QED BY <2>2, <3>1, <3>2, <3>3
    <2> QED BY <2>1, <2>2 DEF Lone
  <1>15. \A j \in D \cup {i} : w[j].tok \in 0..clock'
    <2> SUFFICES ASSUME NEW j \in D PROVE w[j].tok \in 0..clock'
        BY <1>2, <1>8
    <2>1. o[j].tok \in 0..clock /\ w[j] = o[j]
          BY <1>8, <1>10
    <2> QED BY <1>2, <1>6, <2>1
  <1>16. ASSUME NEW x \in Clients, x # c, Inserts(x)
         PROVE  /\ Apart(w, D \cup {i}, call[x].obj, Done(x))
                /\ Apart(call[x].obj, Done(x), w, D \cup {i})
    <2>1. \A m \in Done(x) : call[x].obj[m].tok \in 0..clock
          BY <1>16 DEF SingleInv
    <2>2. Apart(o, D, call[x].obj, Done(x))
          BY <1>1, <1>3, <1>16 DEF SingleInv
    <2>3. ASSUME NEW j \in D \cup {i}, NEW m \in Done(x), w[j].tok = call[x].obj[m].tok
          PROVE  w[j].tok = 0
      <3>1. CASE j = i
        <4>1. w[i].tok = tok /\ tok \in 0..clock
              BY <1>8, <2>1, <2>3, <3>1
        <4>2. tok = 0
              BY <1>2, <1>6, <4>1
        <4> QED BY <3>1, <4>1, <4>2
      <3>2. CASE j \in D
            BY <1>8, <2>2, <2>3, <3>2 DEF Apart
      <3> QED BY <2>3, <3>1, <3>2
    <2> QED BY <2>3 DEF Apart
  <1>17. ASSUME NEW x \in Clients, x # c, Inserts(x)
         PROVE  Lone(db', call[x].obj, Done(x))
    <2>1. Lone(db, call[x].obj, Done(x))
          BY <1>17 DEF SingleInv
    <2>2. Apart(o, D, call[x].obj, Done(x))
          BY <1>1, <1>3, <1>17 DEF SingleInv
    <2>3. ASSUME NEW n \in Done(x), NEW k \in Entries, Linked(k), call[x].obj[n].tok # 0,
                 NEW r \in db'[k].rows, r.ptok = call[x].obj[n].tok
          PROVE  r \in db[k].rows
      <3>1. SUFFICES ASSUME r \notin db[k].rows PROVE FALSE
            OBVIOUS
      <3>2. u \in D /\ r.ptok = o[u].tok
            BY <1>2, <1>7, <2>3, <3>1
      <3> QED BY <2>2, <2>3, <3>2 DEF Apart
    <2> QED BY <2>1, <2>3 DEF Lone
  <1>18. ASSUME NEW x \in Clients, call'[x].op = "insert"
         PROVE  /\ \A j \in DOMAIN call'[x].obj \ call'[x].todo : call'[x].obj[j].tok \in 0..clock'
                /\ Lone(db', call'[x].obj, DOMAIN call'[x].obj \ call'[x].todo)
    <2>1. CASE x = c
      <3>1. call'[x].obj = w /\ DOMAIN call'[x].obj \ call'[x].todo = D \cup {i}
            BY <1>3, <1>4, <1>8, <1>18, <2>1
      <3> QED BY <1>14, <1>15, <3>1
    <2>2. CASE x # c
      <3>1. call'[x] = call[x] /\ Inserts(x)
            BY <1>3, <1>18, <2>2 DEF Inserts
      <3>2. \A j \in Done(x) : call[x].obj[j].tok \in 0..clock
            BY <3>1 DEF SingleInv
      <3>3. \A n \in 0..clock : n \in 0..clock'
            BY <1>2, <1>6
      <3> QED BY <1>17, <2>2, <3>1, <3>2, <3>3 DEF Done
    <2> QED BY <2>1, <2>2
  <1>19. call'[c].op = "insert" =>
            call'[c].obj = w /\ DOMAIN call'[c].obj \ call'[c].todo = D \cup {i}
         BY <1>3, <1>4, <1>8
  <1>20. ASSUME NEW x \in Clients, NEW y \in Clients, x # y,
                call'[x].op = "insert", call'[y].op = "insert"
         PROVE  Apart(call'[x].obj, DOMAIN call'[x].obj \ call'[x].todo,
                      call'[y].obj, DOMAIN call'[y].obj \ call'[y].todo)
    <2>1. CASE x = c
          BY <1>3, <1>16, <1>19, <1>20, <2>1 DEF Inserts, Done
    <2>2. CASE y = c
          BY <1>3, <1>16, <1>19, <1>20, <2>2 DEF Inserts, Done
    <2>3. CASE x # c /\ y # c
          BY <1>3, <1>20, <2>3 DEF SingleInv, Inserts, Done
    <2> QED BY <2>1, <2>2, <2>3
  <1> QED BY <1>13, <1>18, <1>20 DEF SingleInv, Inserts, Done

LEMMA NextSingleInv ==
    ASSUME Calls \subseteq {"create", "insert", "select"}
    PROVE  GrowInv /\ SingleInv /\ [Next]_vars => SingleInv'
  <1> SUFFICES ASSUME GrowInv, SingleInv, [Next]_vars PROVE SingleInv'
      OBVIOUS
  <1>1. CASE Calm
        BY <1>1, StillKeepsSingle DEF Calm
  <1>2. ASSUME NEW c \in Clients, Stops(c) PROVE SingleInv'
        BY <1>2, StillKeepsSingle DEF Stops
  <1>3. ASSUME NEW c \in Clients, NEW o, Begins(c, o) PROVE SingleInv'
    <2>1. Still /\ DOMAIN call'[c].obj \ call'[c].todo = {}
          BY <1>3 DEF Begins
    <2>2. \A d \in Clients : call'[d].op = "insert" =>
             call'[d] = call[d] \/ DOMAIN call'[d].obj \ call'[d].todo = {}
          BY <1>3, <2>1 DEF Begins
    <2> QED BY <2>1, <2>2, StillKeepsSingle
  <1>4. ASSUME NEW c \in Clients, NEW lost, NEW r, Reads(c, lost, r) PROVE SingleInv'
        BY <1>4, StillKeepsSingle DEF Reads
  <1>5. ASSUME NEW c \in Clients, NEW i, NEW w, NEW row, Stores(c, i, w, row) PROVE SingleInv'
    <2>1. clock \in Nat
          BY DEF GrowInv, LinkInv, TypeOK
    <2>2. Passes(c, i, w, clock + 1, TRUE) /\ clock' = clock + 1
          BY <1>5 DEF Stores
    <2>3. \A k \in Entries : \A r \in db'[k].rows :
             r \in db[k].rows \/
             (k = call[c].obj[i].e /\ r = row
                /\ (Linked(call[c].obj[i].e) => r.ptok = call[c].obj[call[c].obj[i].up].tok))
          BY <1>5 DEF Stores
    <2>4. \E ok : Passes(c, i, w, clock + 1, ok)
          BY <2>2
    <2>5. /\ clock + 1 \in {0, clock + 1} /\ clock + 1 \in 0..clock'
          /\ clock' \in {clock, clock + 1}
          BY <2>1, <2>2
    <2>6. Settles(c, i, w, clock + 1, row)
          BY <2>3, <2>4, <2>5 DEF Settles
    <2> QED BY <2>6, PassesKeepsSingle
  <1>6. ASSUME NEW c \in Clients, NEW i, NEW w, Loses(c, i, w) PROVE SingleInv'
    <2>1. clock \in Nat
          BY DEF GrowInv, LinkInv, TypeOK
    <2>2. /\ Passes(c, i, w, 0, FALSE) /\ clock' = clock
          /\ \A k \in Entries : db'[k].rows = db[k].rows
          BY <1>6 DEF Loses
    <2>3. \E ok : Passes(c, i, w, 0, ok)
          BY <2>2
    <2>4. 0 \in {0, clock + 1} /\ 0 \in 0..clock' /\ clock' \in {clock, clock + 1}
          BY <2>1, <2>2
    <2>5. Settles(c, i, w, 0, w)
          BY <2>2, <2>3, <2>4 DEF Settles
    <2> QED BY <2>5, PassesKeepsSingle
  <1> QED BY <1>1, <1>2, <1>3, <1>4, <1>5, <1>6, StepKinds DEF GrowInv

\* As long as the clients only create, insert and select, a member that is not a
\* container has one row for each row of its owner, however many inserts
\* interleave, fail or are cut off: select, which takes the first row it finds,
\* has no choice (OrmEngine!MembersSingle; orm.cpp:489, 1340-1386).
THEOREM MembersStaySingle ==
    ASSUME Calls \subseteq {"create", "insert", "select"}
    PROVE  Spec => []MembersSingle
  <1>1. Init => SingleInv
    <2> SUFFICES ASSUME Init PROVE SingleInv
        OBVIOUS
    <2>1. (\A e \in Entries : db[e].rows = {}) /\ \A c \in Clients : ~Inserts(c)
          BY DEF Init, Idle, NoTable, Inserts
    <2> QED BY <2>1 DEF SingleInv
  <1>2. GrowInv /\ SingleInv /\ [Next]_vars => GrowInv' /\ SingleInv'
        BY NextGrowInv, NextSingleInv
  <1>3. ASSUME GrowInv, SingleInv PROVE MembersSingle
    <2> SUFFICES ASSUME NEW e \in Entries, Linked(e), Kind[e] # "many", NEW q \in db[Up[e]].rows,
                        NEW r \in db[e].rows, NEW s \in db[e].rows, r.pid = q.id, s.pid = q.id
                 PROVE  r = s
        BY DEF MembersSingle
    <2>1. q.tok = r.ptok /\ q.tok = s.ptok
          BY <1>3 DEF GrowInv, LinkInv, LinkIntegrity
    <2>2. q.tok # 0
      <3>1. Up[e] \in Entries
            BY SchemaAssumption DEF Linked, Entries
      <3>2. q.tok \in 1..clock /\ clock \in Nat
            BY <1>3, <3>1 DEF GrowInv, LinkInv, RowsNumbered, TypeOK
      <3> QED BY <3>2
    <2> QED BY <1>3, <2>1, <2>2 DEF SingleInv
  <1> QED BY <1>1, <1>2, <1>3, InitGrowInv, PTL DEF Spec

-----------------------------------------------------------------------------
(* Updates of what was selected.                                           *)

\* The rowids in the tables.
Numbers == [e \in Entries |-> {0} \cup {r.id : r \in db[e].rows}]

\* While nothing is removed, an object that has all its rowids has a row for each.
RootInv ==
    /\ LinkInv /\ HeldIsObject /\ HeldAlike /\ OnlyCalls({"create", "insert", "update"})
    /\ AllCarried(Numbers)
    /\ \A c \in Clients : call[c].op = "update" => Known(call[c].obj)

LEMMA InitRootInv == Init => RootInv
  <1> SUFFICES ASSUME Init PROVE RootInv
      OBVIOUS
  <1>1. LinkInv /\ HeldIsObject
        BY InitLinkInv DEF Init, HeldIsObject
  <1>2. OnlyCalls({"create", "insert", "update"}) /\ \A c \in Clients : call[c].op = "create"
        BY DEF Init, Idle, OnlyCalls
  <1>3. HeldAlike /\ AllCarried(Numbers)
        BY InitCarried DEF Numbers
  <1> QED BY <1>1, <1>2, <1>3 DEF RootInv

\* UPDATE finds the row whose rowid the value has, so no rowid changes.
LEMMA UpdateKeepsRowids ==
    ASSUME RootInv, NEW c \in Clients, UpdateRows(c)
    PROVE  /\ RowsFromBefore
           /\ \A e \in Entries : \A r \in db[e].rows : \E q \in db'[e].rows : q.id = r.id
  <1>1. DbOK /\ CallOK /\ db \in [Entries -> Table]
        BY DEF RootInv, LinkInv, TypeOK, DbOK
  <1>2. PICK i \in Turn(c) :
           LET n == call[c].obj[i]
           IN  /\ call[c].op = "update" /\ Keyed[n.e]
               /\ db' = Updated(n.e, ParentId(c, i), n.id, n.val)
        BY DEF UpdateRows
  <1> DEFINE n == call[c].obj[i]
  <1>3. n.e \in Entries /\ n.id # 0 /\ n.id \in Numbers[n.e]
    <2>1. i \in DOMAIN call[c].obj /\ n \in Node
          BY <1>1, TurnIsLeft
    <2>2. Known(call[c].obj) /\ Carried(call[c].obj, Numbers)
          BY <1>2 DEF RootInv, AllCarried
    <2> QED BY <1>2, <2>1, <2>2 DEF Known, Carried, Node
  <1>4. PICK pid : db' = Updated(n.e, pid, n.id, n.val)
        BY <1>2
  <1> HIDE DEF n
  <1>5. \E r \in db[n.e].rows : r.id = n.id
        BY <1>3 DEF Numbers
  <1>6. PICK hit \in SUBSET {r \in db[n.e].rows : r.id = n.id} :
           db' = [db EXCEPT ![n.e].rows =
                    (@ \ hit) \cup {[r EXCEPT !.id = n.id, !.val = n.val] : r \in hit}]
        BY <1>4, <1>5 DEF Updated, Matching
  <1>7. /\ \A e \in Entries : e # n.e => db'[e].rows = db[e].rows
        /\ db'[n.e].rows = (db[n.e].rows \ hit) \cup
                              {[r EXCEPT !.id = n.id, !.val = n.val] : r \in hit}
        BY <1>1, <1>3, <1>6 DEF Table
  <1>8. db[n.e].rows \subseteq Row
        BY <1>1, <1>3 DEF Table
  <1>9. \A q \in hit : LET r == [q EXCEPT !.id = n.id, !.val = n.val] IN
           r.id = q.id /\ r.pid = q.pid /\ r.tok = q.tok /\ r.ptok = q.ptok
        BY <1>6, <1>8 DEF Row
  <1>10. \A r \in db'[n.e].rows : \E q \in db[n.e].rows :
            r.id = q.id /\ r.pid = q.pid /\ r.tok = q.tok /\ r.ptok = q.ptok
    <2> TAKE r \in db'[n.e].rows
    <2>1. CASE r \in db[n.e].rows
          BY <2>1
    <2>2. CASE \E q \in hit : r = [q EXCEPT !.id = n.id, !.val = n.val]
      <3>1. PICK q \in hit : r = [q EXCEPT !.id = n.id, !.val = n.val]
            BY <2>2
      <3>2. q \in db[n.e].rows
            BY <1>6
      <3>3. r.id = q.id /\ r.pid = q.pid /\ r.tok = q.tok /\ r.ptok = q.ptok
            BY ONLY <1>9, <3>1
      <3> QED BY <3>2, <3>3
    <2> QED BY <1>7, <2>1, <2>2
  <1>11. \A r \in db[n.e].rows : \E q \in db'[n.e].rows : q.id = r.id
    <2> TAKE r \in db[n.e].rows
    <2>1. CASE r \in hit
      <3>1. PICK q : q = [r EXCEPT !.id = n.id, !.val = n.val]
            OBVIOUS
      <3>2. q.id = r.id
            BY <1>9, <2>1, <3>1
      <3>3. q \in db'[n.e].rows
            BY <1>7, <2>1, <3>1
      <3> QED BY <3>2, <3>3
    <2>2. CASE r \notin hit
          BY <1>7, <2>2
    <2> QED BY <2>1, <2>2
  <1> QED BY <1>7, <1>10, <1>11 DEF RowsFromBefore

LEMMA NextRootInv ==
    ASSUME SelectedOnly, "delete" \notin Calls, "drop" \notin Calls
    PROVE  RootInv /\ [Next]_vars => RootInv'
  <1> SUFFICES ASSUME RootInv, [Next]_vars PROVE RootInv'
      OBVIOUS
  <1> DEFINE S == {"create", "insert", "update"}
  <1>1. TypeOK /\ DbOK /\ CallOK /\ db \in [Entries -> Table] /\ \A c \in Clients : call[c].op \in S
        BY DEF RootInv, LinkInv, TypeOK, DbOK, OnlyCalls
  <1>2. OnlyCalls(S)' /\ HeldIsObject' /\ TypeOK'
    <2>1. "create" \in S /\ Calls \ {"select"} \subseteq S
          BY BoundAssumption DEF Operations
    <2> HIDE DEF S
    <2>2. OnlyCalls(S)
          BY DEF RootInv, S
    <2> QED BY <1>1, <2>1, <2>2, NextTypeOK, NextHeldIsObject, NextOnlyCalls DEF RootInv
  <1>3. LinkInv'
    <2>1. \A c \in Clients : ~DropTable(c)
          BY <1>1 DEF DropTable
    <2> QED BY <2>1, UpdateKeepsRowids, NextLinkInv DEF RootInv
  <1>4. \A e \in Entries : \A r \in db[e].rows : \E q \in db'[e].rows : q.id = r.id
    <2>1. ASSUME NEW c \in Clients, Statement(c)
          PROVE  \A e \in Entries : \A r \in db[e].rows : \E q \in db'[e].rows : q.id = r.id
      <3>1. CASE CreateTable(c)
        <4>1. PICK i \in Turn(c) : db' = [db EXCEPT ![Entry(c, i)].exists = TRUE]
              BY <3>1 DEF CreateTable
        <4>2. \A e \in Entries : db'[e].rows = db[e].rows
              BY <1>1, <4>1 DEF Table
        <4> QED BY <4>2
      <3>2. CASE DropTable(c) \/ DeleteRows(c)
            BY <1>1, <3>2 DEF DropTable, DeleteRows
      <3>3. CASE InsertRow(c)
        <4>0. PICK i \in Turn(c) : \E row : AddsRow(c, i, row)
              BY <1>1, <3>3, InsertAddsRow
        <4>1. PICK row : AddsRow(c, i, row)
              BY <4>0
        <4>2. PICK e : e = call[c].obj[i].e
              OBVIOUS
        <4>3. /\ db'[e].rows = db[e].rows \cup {row}
              /\ \A k \in Entries : k # e => db'[k] = db[k]
              BY <4>1, <4>2 DEF AddsRow
        <4> QED BY <4>3
      <3>4. CASE UpdateRows(c)
            BY <3>4, UpdateKeepsRowids
      <3>5. CASE FailStatement(c) \/ FailInsert(c)
            BY <3>5 DEF FailStatement, FailInsert
      <3> QED BY <2>1, <3>1, <3>2, <3>3, <3>4, <3>5 DEF Statement
    <2>2. ASSUME NEW c \in Clients, Call(c) \/ Crash(c) PROVE db' = db
          BY <2>2 DEF Call, CallCreate, CallDrop, CallInsert, CallUpdate, CallDelete, Select,
                      FailSelect, Enter, Crash
    <2> QED BY <2>1, <2>2 DEF Next, vars
  <1>5. AllCarried(Numbers)' /\ HeldAlike'
    <2>1. PICK x : x = Numbers
          OBVIOUS
    <2>2. PICK y : y = [e \in Entries |-> {0} \cup {r.id : r \in db'[e].rows}]
          OBVIOUS
    <2>3. Filed(db, x) /\ Filed(db', y)
          BY <2>1, <2>2 DEF Filed, Numbers
    <2>4. \A e \in Entries : x[e] \subseteq y[e]
      <3> SUFFICES ASSUME NEW e \in Entries, NEW id \in x[e] PROVE id \in y[e]
          OBVIOUS
      <3>1. id = 0 \/ \E r \in db[e].rows : id = r.id
            BY <2>1 DEF Numbers
      <3> QED BY <1>4, <2>2, <3>1
    <2>5. AllCarried(x)
          BY <2>1 DEF RootInv
    <2>6. Carries(y)
          BY <1>1, <2>3, <2>4, <2>5, NextCarries DEF RootInv
    <2> QED BY <2>2, <2>6 DEF Carries, AllCarried, Numbers
  <1>6. ASSUME NEW d \in Clients, call'[d].op = "update" PROVE Known(call'[d].obj)
    <2>1. call[d].op = "update" => Known(call[d].obj)
          BY DEF RootInv
    <2>2. CASE call' = call
          BY <1>6, <2>1, <2>2
    <2>3. ASSUME NEW c \in Clients, Call(c) PROVE Known(call'[d].obj)
      <3>1. CASE Select(c) \/ FailSelect(c)
            BY <2>2, <3>1 DEF Select, FailSelect
      <3>2. ASSUME NEW op, NEW o, NEW mine, Enter(c, op, o, mine), op = "update" => Known(o)
            PROVE  Known(call'[d].obj)
        <4>1. call' = [call EXCEPT ![c] = [op |-> op, obj |-> o, todo |-> DOMAIN o, ok |-> TRUE,
                                           mine |-> mine]]
              BY <3>2 DEF Enter
        <4>2. call \in [Clients -> CallRecord]
              BY <1>1 DEF CallOK
        <4>3. call'[d] = IF d = c THEN [op |-> op, obj |-> o, todo |-> DOMAIN o, ok |-> TRUE,
                                        mine |-> mine] ELSE call[d]
              BY <4>1, <4>2
        <4> QED BY <1>6, <2>1, <3>2, <4>3
      <3>3. CASE CallUpdate(c)
        <4>0. PICK h \in Edits(held[c]) : \E i \in DOMAIN h, v \in Val :
                 Enter(c, "update", [h EXCEPT ![i].val = v], TRUE)
              BY <3>3 DEF CallUpdate
        <4>1. PICK i \in DOMAIN h, v \in Val : Enter(c, "update", [h EXCEPT ![i].val = v], TRUE)
              BY <4>0
        <4> DEFINE o == [h EXCEPT ![i].val = v]
        <4>2. IsObject(h) /\ Known(h) /\ i \in DOMAIN h /\ Enter(c, "update", o, TRUE)
          <5>1. IsObject(held[c])
                BY <3>3 DEF CallUpdate
          <5>2. IsObject(h) /\ Known(h)
                BY <5>1, EditIsObject
          <5> QED BY <4>1, <5>2
        <4>3. DOMAIN o = DOMAIN h /\ \A j \in DOMAIN h : o[j].e = h[j].e /\ o[j].id = h[j].id
              BY <4>2, ChangeValue
        <4> HIDE DEF o
        <4>4. Known(o)
              BY <4>2, <4>3 DEF Known
        <4> QED BY <3>2, <4>2, <4>4
      <3>4. CASE CallCreate(c) \/ CallDrop(c) \/ CallInsert(c) \/ CallDelete(c)
            BY <3>2, <3>4 DEF CallCreate, CallDrop, CallInsert, CallDelete
      <3> QED BY <2>3, <3>1, <3>3, <3>4 DEF Call
    <2>4. ASSUME NEW c \in Clients, Statement(c) PROVE Known(call'[d].obj)
      <3>1. CASE InsertRow(c) \/ FailInsert(c)
        <4>1. call[c].op = "insert" /\ \E done, o, ok : ok \in BOOLEAN /\ Advance(c, done, o, ok)
              BY <3>1 DEF InsertRow, FailInsert
        <4>2. d # c /\ call'[d] = call[d]
              BY <1>1, <1>6, <4>1, AdvanceKeepsOp
        <4> QED BY <1>6, <2>1, <4>2
      <3>2. CASE CreateTable(c) \/ DropTable(c) \/ UpdateRows(c) \/ DeleteRows(c) \/ FailStatement(c)
        <4>1. PICK done, ok : ok \in BOOLEAN /\ Advance(c, done, call[c].obj, ok)
              BY <3>2, OtherStatements
        <4>2. /\ \A b \in Clients : b # c => call'[b] = call[b]
              /\ call'[c] = Idle \/ (call'[c].op = call[c].op /\ call'[c].obj = call[c].obj)
              BY <1>1, <4>1, Advanced, AdvanceKeepsOp
        <4> QED BY <1>6, <2>1, <4>2 DEF Idle
      <3> QED BY <2>4, <3>1, <3>2 DEF Statement
    <2>5. ASSUME NEW c \in Clients, Crash(c) PROVE Known(call'[d].obj)
          BY <1>1, <1>6, <2>1, <2>5 DEF Crash, Idle, CallOK
    <2> QED BY <2>2, <2>3, <2>4, <2>5 DEF Next, vars
  <1> QED BY <1>2, <1>3, <1>5, <1>6 DEF RootInv

\* With any number of clients that create, insert, select and update what they
\* inserted or selected, the rowid join stays right: an UPDATE, whose WHERE
\* clause asks for no rowid, finds a row with the rowid it writes and leaves the
\* others alone (OrmEngine!LinkIntegrity; meta_update, orm.cpp:1389-1507).
THEOREM LinksSurviveUpdates ==
    ASSUME SelectedOnly, "delete" \notin Calls, "drop" \notin Calls
    PROVE  Spec => []LinkIntegrity
  <1>1. RootInv => LinkIntegrity
        BY DEF RootInv, LinkInv
  <1> QED BY <1>1, InitRootInv, NextRootInv, PTL DEF Spec

-----------------------------------------------------------------------------
(* Deletes.                                                                *)

\* Of the nodes a delete is done with no sibling is left, as long as nothing
\* has failed.
DeleteInv(me) ==
    /\ TypeOK
    /\ call[me].op = "delete" /\ call[me].ok =>
         \A j \in Done(me) : Linked(call[me].obj[j].e) =>
            \A r \in db[call[me].obj[j].e].rows : r.pid # call[me].obj[call[me].obj[j].up].id

\* A DELETE leaves no member of the class of the owner it names.
LEMMA DeletedMembers ==
    ASSUME TypeOK, NEW c \in Clients, NEW i \in Turn(c), DeleteRows(c)
    PROVE  /\ Turn(c) = {i} /\ Advance(c, {i}, call[c].obj, TRUE)
           /\ \A k \in Entries : db'[k].rows \subseteq db[k].rows
           /\ Linked(Entry(c, i)) =>
                 \A r \in db'[Entry(c, i)].rows : r.pid # call[c].obj[call[c].obj[i].up].id
  <1>1. CallOK /\ db \in [Entries -> Table]
        BY DEF TypeOK, DbOK
  <1>2. Entry(c, i) \in Entries
        BY <1>1, TurnIsLeft
  <1>3. Turn(c) = {i}
    <2>1. \A j, n \in Turn(c) : j \in Nat /\ n \in Nat /\ j <= n /\ n <= j
          BY <1>1 DEF Turn, CallOK, CallRecord
    <2> QED BY <2>1
  <1>4. PICK e : e = Entry(c, i)
        OBVIOUS
  <1>5. db' = [db EXCEPT ![e].rows = @ \ Matching(e, ParentId(c, i))]
        BY <1>3, <1>4 DEF DeleteRows, Deleted
  <1>6. /\ db'[e].rows = db[e].rows \ Matching(e, ParentId(c, i))
        /\ \A k \in Entries : k # e => db'[k].rows = db[k].rows
        BY <1>1, <1>2, <1>4, <1>5 DEF Table
  <1>7. Linked(e) => ParentId(c, i) = call[c].obj[call[c].obj[i].up].id
        BY <1>4 DEF ParentId
  <1>8. Linked(e) => \A r \in db'[e].rows : r.pid # call[c].obj[call[c].obj[i].up].id
        BY <1>6, <1>7 DEF Matching
  <1>9. Advance(c, {i}, call[c].obj, TRUE)
        BY <1>3 DEF DeleteRows
  <1> QED BY <1>3, <1>4, <1>6, <1>8, <1>9

LEMMA NextDeleteInv ==
    ASSUME NEW me, Clients = {me}
    PROVE  DeleteInv(me) /\ [Next]_vars => DeleteInv(me)'
  <1> SUFFICES ASSUME DeleteInv(me), [Next]_vars PROVE DeleteInv(me)'
      OBVIOUS
  <1>1. TypeOK /\ CallOK /\ TypeOK'
        BY NextTypeOK DEF DeleteInv, TypeOK
  <1>2. CASE UNCHANGED vars
        BY <1>1, <1>2 DEF vars, DeleteInv, Done
  <1>3. CASE Call(me) \/ Crash(me)
    <2>1. CASE call' = call
      <3>1. db' = db
            BY <1>3 DEF Call, CallCreate, CallDrop, CallInsert, CallUpdate, CallDelete, Select,
                        FailSelect, Enter, Crash
      <3> QED BY <1>1, <2>1, <3>1 DEF DeleteInv, Done
    <2>2. ASSUME NEW op, NEW o, NEW mine, Enter(me, op, o, mine) PROVE DOMAIN call'[me].obj \ call'[me].todo = {}
      <3>1. call' = [call EXCEPT ![me] = [op |-> op, obj |-> o, todo |-> DOMAIN o, ok |-> TRUE,
                                          mine |-> mine]]
            BY <2>2 DEF Enter
      <3> QED BY <1>1, <3>1 DEF CallOK
    <2>3. CASE Crash(me)
      <3>1. call'[me] = Idle
            BY <1>1, <2>3 DEF Crash, CallOK
      <3> QED BY <1>1, <3>1 DEF DeleteInv, Idle
    <2>4. CASE CallCreate(me) \/ CallDrop(me) \/ CallInsert(me) \/ CallUpdate(me) \/ CallDelete(me)
      <3>1. DOMAIN call'[me].obj \ call'[me].todo = {}
            BY <2>2, <2>4 DEF CallCreate, CallDrop, CallInsert, CallUpdate, CallDelete
      <3> QED BY <1>1, <3>1 DEF DeleteInv, Done
    <2>5. CASE Select(me) \/ FailSelect(me)
          BY <2>1, <2>5 DEF Select, FailSelect
    <2> QED BY <1>3, <2>3, <2>4, <2>5 DEF Call
  <1>4. CASE Statement(me)
    <2>1. CASE DeleteRows(me)
      <3>1. PICK i \in Turn(me) : call[me].op = "delete"
            BY <2>1 DEF DeleteRows
      <3>2. /\ Advance(me, {i}, call[me].obj, TRUE)
            /\ \A k \in Entries : db'[k].rows \subseteq db[k].rows
            /\ Linked(Entry(me, i)) =>
                  \A r \in db'[Entry(me, i)].rows : r.pid # call[me].obj[call[me].obj[i].up].id
            BY <1>1, <2>1, <3>1, DeletedMembers
      <3>3. \/ call'[me] = Idle
            \/ /\ call'[me].obj = call[me].obj /\ call'[me].todo = call[me].todo \ {i}
               /\ call'[me].ok = call[me].ok
        <4>1. call'[me] = Idle \/ (call'[me].obj = call[me].obj /\ call'[me].todo = call[me].todo \ {i})
              BY <1>1, <3>2, Advanced
        <4>2. call'[me] = Idle \/ call'[me].ok = call[me].ok
              BY <1>1, <3>2 DEF Advance, CallOK, CallRecord
        <4> QED BY <4>1, <4>2
      <3>4. SUFFICES ASSUME call'[me].op = "delete", call'[me].ok, NEW j \in DOMAIN call'[me].obj \ call'[me].todo,
                            Linked(call'[me].obj[j].e), NEW r \in db'[call'[me].obj[j].e].rows
                     PROVE  r.pid # call'[me].obj[call'[me].obj[j].up].id
            BY <1>1 DEF DeleteInv, Done
      <3> DEFINE o == call[me].obj
      <3>5. call'[me].obj = o /\ call'[me].todo = call[me].todo \ {i} /\ call[me].ok
        <4>1. call'[me] # Idle
              BY <3>4, IdleIsOnNoWay
        <4> QED BY <3>3, <3>4, <4>1
      <3>6. CASE j = i
            BY <3>2, <3>4, <3>5, <3>6 DEF Entry
      <3>7. CASE j # i
        <4>1. j \in Done(me) /\ o[j].e \in Entries
          <5>1. IsObject(o) /\ j \in DOMAIN o
                BY <1>1, <3>4, <3>5 DEF CallOK
          <5>2. o[j] \in Node
                BY <5>1 DEF IsObject
          <5> QED BY <3>4, <3>5, <3>7, <5>1, <5>2 DEF Done, Node
        <4>2. r \in db[o[j].e].rows /\ Linked(o[j].e)
              BY <3>2, <3>4, <3>5, <4>1
        <4> QED BY <3>1, <3>5, <4>1, <4>2 DEF DeleteInv
      <3> QED BY <3>6, <3>7
    <2>2. CASE FailStatement(me)
      <3>1. call'[me].op = "delete" => ~call'[me].ok
        <4>1. PICK done : Advance(me, done, call[me].obj, FALSE)
              BY <2>2 DEF FailStatement
        <4>2. PICK now : /\ now = [call[me] EXCEPT !.obj = call[me].obj, !.todo = @ \ done,
                                                   !.ok = @ /\ FALSE]
                         /\ call' = [call EXCEPT ![me] = IF now.todo = {} THEN Idle ELSE now]
              BY <4>1 DEF Advance
        <4>3. call[me] \in CallRecord
              BY <1>1 DEF CallOK
        <4>4. now.ok = FALSE
              BY <4>2, <4>3 DEF CallRecord
        <4>5. call'[me] = Idle \/ call'[me] = now
              BY <1>1, <4>2 DEF CallOK
        <4> QED BY <4>4, <4>5, IdleIsOnNoWay
      <3> QED BY <1>1, <3>1 DEF DeleteInv
    <2>3. CASE CreateTable(me) \/ DropTable(me) \/ InsertRow(me) \/ UpdateRows(me) \/ FailInsert(me)
      <3>1. call'[me].op # "delete"
        <4>1. PICK done, o, ok : ok \in BOOLEAN /\ Advance(me, done, o, ok) /\ call[me].op # "delete"
              BY <2>3 DEF CreateTable, DropTable, InsertRow, UpdateRows, FailInsert
        <4> QED BY <1>1, <4>1, Advanced, IdleIsOnNoWay
      <3> QED BY <1>1, <3>1 DEF DeleteInv
    <2> QED BY <1>4, <2>1, <2>2, <2>3 DEF Statement
  <1> QED BY <1>2, <1>3, <1>4 DEF Next

\* One DELETE leaves no row of a class the object has members in below the node
\* it is for.
LeavesNoChild ==
    \A c \in Clients : DeleteRows(c) /\ call[c].ok =>
        \A i \in Turn(c), j \in DOMAIN call[c].obj :
            LET k == Entry(c, j) IN
            call[c].obj[j].up = i /\ Linked(k) =>
               \A r \in db'[k].rows : r.pid # call[c].obj[i].id

LEMMA NextLeavesNoChild ==
    ASSUME NEW me, Clients = {me}, DeleteInv(me)
    PROVE  LeavesNoChild
  <1> SUFFICES ASSUME DeleteRows(me), call[me].ok, NEW i \in Turn(me), NEW j \in DOMAIN call[me].obj,
                      call[me].obj[j].up = i, Linked(Entry(me, j)), NEW r \in db'[Entry(me, j)].rows
               PROVE  r.pid # call[me].obj[i].id
      BY DEF LeavesNoChild
  <1> DEFINE o == call[me].obj
  <1>1. TypeOK /\ CallOK /\ call[me].op = "delete"
        BY DEF DeleteInv, TypeOK, DeleteRows
  <1>2. j \in Done(me)
        BY <1>1 DEF Turn, PostOrder, Done
  <1>3. o[j].e \in Entries
    <2>1. IsObject(o)
          BY <1>1 DEF CallOK
    <2>2. o[j] \in Node
          BY <2>1 DEF IsObject
    <2> QED BY <2>2 DEF Node
  <1>4. r \in db[o[j].e].rows
        BY <1>1, <1>3, DeletedMembers DEF Entry
  <1> QED BY <1>1, <1>2, <1>4 DEF DeleteInv, Entry

\* Whatever one client creates, inserts, updates and drops, and whatever fails or
\* crashes in between, a delete that has met no error has removed what is below a
\* value from every table the object has members in before it comes to the value
\* itself (OrmEngine!DeleteLeavesNoChild; meta_delete, orm.cpp:1508-1583).
THEOREM DeletesChildrenFirst ==
    ASSUME NEW me, Clients = {me}
    PROVE  Spec => DeleteLeavesNoChild
  <1>1. Init => DeleteInv(me)
        BY InitTypeOK DEF Init, DeleteInv, Idle
  <1>2. DeleteInv(me) => LeavesNoChild
        BY NextLeavesNoChild
  <1> QED BY <1>1, <1>2, NextDeleteInv, PTL DEF Spec, DeleteLeavesNoChild, LeavesNoChild

=============================================================================
