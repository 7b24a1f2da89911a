--------------------------- MODULE TableModelProofs ---------------------------
(* Proofs about TableModel, for any number of rows, objects and slots.       *)
EXTENDS TableModel, FiniteSetTheorems, TLAPS

-----------------------------------------------------------------------------
(* Sequences of rows.                                                        *)

\* A function on 1..n is a sequence of length n.
LEMMA IsSeq ==
    ASSUME NEW S, NEW n \in Nat, NEW f \in [1..n -> S]
    PROVE  f \in Seq(S) /\ Len(f) = n /\ DOMAIN f = 1..n
OBVIOUS

LEMMA InsertedOK ==
    ASSUME NEW S, NEW s \in Seq(S), NEW r \in Nat, r <= Len(s), NEW n \in Nat, NEW x \in S
    PROVE  /\ Inserted(s, r, n, x) \in Seq(S)
           /\ Len(Inserted(s, r, n, x)) = Len(s) + n
           /\ DOMAIN Inserted(s, r, n, x) = 1..(Len(s) + n)
<1>1. Inserted(s, r, n, x) \in [1..(Len(s) + n) -> S]
  BY DEF Inserted
<1> QED
  BY <1>1, IsSeq

LEMMA RemovedOK ==
    ASSUME NEW S, NEW s \in Seq(S), NEW r \in Nat, NEW n \in Nat, r + n <= Len(s)
    PROVE  /\ Removed(s, r, n) \in Seq(S)
           /\ Len(Removed(s, r, n)) = Len(s) - n
           /\ DOMAIN Removed(s, r, n) = 1..(Len(s) - n)
<1>1. Removed(s, r, n) \in [1..(Len(s) - n) -> S]
  BY DEF Removed
<1> QED
  BY <1>1, IsSeq

LEMMA MovedOK ==
    ASSUME NEW S, NEW s \in Seq(S), NEW r \in Nat, NEW n \in Nat, NEW dest \in Nat,
           r + n <= Len(s), dest <= Len(s), dest \notin r..(r + n)
    PROVE  /\ Moved(s, r, n, dest) \in Seq(S)
           /\ Len(Moved(s, r, n, dest)) = Len(s)
           /\ DOMAIN Moved(s, r, n, dest) = 1..Len(s)
<1>1. Moved(s, r, n, dest) \in [1..Len(s) -> S]
  BY DEF Moved
<1> QED
  BY <1>1, IsSeq

\* What is left of a number of rows after whole blocks is less than a block.
LEMMA Remainder ==
    ASSUME NEW k \in Nat, NEW d \in Nat \ {0}
    PROVE  k % d \in 0..(d - 1)
OBVIOUS

\* A whole number of blocks does not change it.
LEMMA RemainderAfter ==
    ASSUME NEW n \in Nat, NEW d \in Nat \ {0}, n % d = 0, NEW k \in 0..(d - 1)
    PROVE  (n + k) % d = k
OBVIOUS

LEMMA SwappedOK ==
    ASSUME NEW S, NEW s \in Seq(S), NEW lo \in Nat, NEW d \in Nat \ {0}, NEW n \in Nat \ {0},
           lo + d + n <= Len(s)
    PROVE  /\ Swapped(s, lo, d, n) \in Seq(S)
           /\ Len(Swapped(s, lo, d, n)) = Len(s)
           /\ DOMAIN Swapped(s, lo, d, n) = 1..Len(s)
<1>1. ASSUME NEW i \in 1..Len(s), lo < i
      PROVE  (i - lo - 1) % d \in 0..(d - 1)
  <2>1. i - lo - 1 \in Nat
    BY <1>1
  <2> QED
    BY <2>1, Remainder
<1>2. Len(s) \in Nat /\ \A i \in 1..Len(s) : s[i] \in S
  OBVIOUS
<1>3. ASSUME NEW i \in 1..Len(s),
             lo < i, i <= lo + d + n
      PROVE  s[lo + 1 + ((i - lo - 1) % d)] \in S
  <2> DEFINE k == (i - lo - 1) % d
  <2>1. k \in 0..(d - 1)
    BY <1>1, <1>3
  <2> HIDE DEF k
  <2>2. lo + 1 + k \in 1..Len(s)
    BY <2>1, <1>2
  <2> QED
    BY <2>2, <1>2 DEF k
<1>4. ASSUME NEW i \in 1..Len(s),
             lo < i, i <= lo + n
      PROVE  s[i + d] \in S
  BY <1>4, <1>2
<1>5. Swapped(s, lo, d, n) \in [1..Len(s) -> S]
  <2> SUFFICES ASSUME NEW i \in 1..Len(s)
               PROVE  (IF i <= lo \/ i > lo + d + n THEN s[i]
                       ELSE IF i <= lo + n THEN s[i + d] ELSE s[lo + 1 + ((i - lo - 1) % d)]) \in S
    BY DEF Swapped
  <2>1. CASE i <= lo \/ i > lo + d + n
    BY <2>1, <1>2
  <2>2. CASE lo < i /\ i <= lo + n
    BY <2>2, <1>2, <1>4
  <2>3. CASE lo + n < i /\ i <= lo + d + n
    BY <2>3, <1>2, <1>3
  <2> QED
    BY <2>1, <2>2, <2>3, <1>2
<1> QED
  BY <1>5, IsSeq

\* Swapping does what is announced if MovesAsTold says so.
LEMMA SwappedIsMoved ==
    ASSUME NEW s, Len(s) \in Nat, NEW r \in Nat, NEW n \in Nat \ {0}, NEW dest \in Nat,
           r + n <= Len(s), MovesAsTold(r, n, dest), NEW i \in 1..Len(s)
    PROVE  Swapped(s, dest, r - dest, n)[i] = Moved(s, r, n, dest)[i]
<1> DEFINE d == r - dest
<1>1. dest < r /\ n % d = 0 /\ d \in Nat \ {0} /\ r = dest + d
  BY DEF MovesAsTold
<1> HIDE DEF d
<1>2. Swapped(s, dest, d, n)[i] =
        IF i <= dest \/ i > dest + d + n THEN s[i]
        ELSE IF i <= dest + n THEN s[i + d] ELSE s[dest + 1 + ((i - dest - 1) % d)]
  BY DEF Swapped
<1>3. Moved(s, r, n, dest)[i] =
        IF i <= dest \/ i > r + n THEN s[i]
        ELSE IF i <= dest + n THEN s[i + r - dest] ELSE s[i - n]
  BY <1>1 DEF Moved
<1>4. CASE i <= dest \/ i > dest + d + n
  BY <1>1, <1>2, <1>3, <1>4 DEF d
<1>5. CASE dest < i /\ i <= dest + n
  <2>1. i + r - dest = i + d
    BY <1>1
  <2> QED
    BY <1>1, <1>2, <1>3, <1>5, <2>1 DEF d
<1>6. CASE dest + n < i /\ i <= dest + d + n
  <2> DEFINE k == i - dest - 1 - n
  <2>1. k \in 0..(d - 1) /\ i - dest - 1 = n + k
    BY <1>1, <1>6
  <2>2. (n + k) % d = k
    BY <1>1, <2>1, RemainderAfter
  <2>3. dest + 1 + ((i - dest - 1) % d) = i - n
    BY <2>1, <2>2
  <2> QED
    BY <1>1, <1>2, <1>3, <1>6, <2>3 DEF d
<1> QED
  BY <1>1, <1>4, <1>5, <1>6

-----------------------------------------------------------------------------
(* The calls under way.                                                      *)

\* For every frame, one further in has a row behind its own, or it is disturbed.
FramesNested ==
    \A j, k \in DOMAIN inserting :
        j < k => inserting[j].disturbed \/ inserting[j].row < inserting[k].row

IInv == TypeOK /\ InsertsOwnRow /\ FramesNested /\ ViewTrue

\* A frame holds a row.
LEMMA FrameOK ==
    ASSUME TypeOK, NEW k \in DOMAIN inserting
    PROVE  inserting[k] \in Frame /\ inserting[k].row \in Nat /\ inserting[k].disturbed \in BOOLEAN
<1>1. inserting \in Seq(Frame)
  BY DEF TypeOK
<1>2. inserting[k] \in Frame
  BY <1>1
<1> QED
  BY <1>2 DEF Frame

\* Disturb keeps the frames and marks those whose row is not before r.
LEMMA Disturbed ==
    ASSUME TypeOK, NEW r \in Nat
    PROVE  /\ Disturb(r) \in Seq(Frame)
           /\ DOMAIN Disturb(r) = DOMAIN inserting
           /\ Len(Disturb(r)) = Len(inserting)
           /\ \A k \in DOMAIN inserting :
                /\ Disturb(r)[k].row = inserting[k].row
                /\ ~Disturb(r)[k].disturbed => ~inserting[k].disturbed /\ inserting[k].row < r
                /\ inserting[k].disturbed => Disturb(r)[k].disturbed
<1>1. inserting \in Seq(Frame) /\ Len(inserting) \in Nat /\ DOMAIN inserting = 1..Len(inserting)
  BY DEF TypeOK
<1>2. ASSUME NEW k \in DOMAIN inserting
      PROVE  /\ inserting[k] \in Frame
             /\ Disturb(r)[k] = [inserting[k] EXCEPT !.disturbed = @ \/ r <= inserting[k].row]
  BY <1>1 DEF Disturb
<1>3. ASSUME NEW k \in DOMAIN inserting
      PROVE  /\ Disturb(r)[k] \in Frame
             /\ Disturb(r)[k].row = inserting[k].row
             /\ Disturb(r)[k].disturbed = (inserting[k].disturbed \/ r <= inserting[k].row)
             /\ inserting[k].row \in Nat /\ inserting[k].disturbed \in BOOLEAN
  <2>1. inserting[k] \in Frame
    BY <1>2
  <2>2. inserting[k].row \in Nat /\ inserting[k].disturbed \in BOOLEAN
    BY <2>1 DEF Frame
  <2> DEFINE b == (inserting[k].disturbed \/ r <= inserting[k].row)
  <2>3. b \in BOOLEAN
    OBVIOUS
  <2>4. Disturb(r)[k] = [inserting[k] EXCEPT !.disturbed = b]
    BY <1>2
  <2> HIDE DEF b
  <2>5. Disturb(r)[k] \in Frame /\ Disturb(r)[k].row = inserting[k].row /\ Disturb(r)[k].disturbed = b
    BY <2>1, <2>3, <2>4 DEF Frame
  <2> QED
    BY <2>2, <2>5 DEF b
<1>4. Disturb(r) \in [1..Len(inserting) -> Frame]
  <2>1. Disturb(r) = [k \in 1..Len(inserting) |-> Disturb(r)[k]]
    BY <1>1 DEF Disturb
  <2> QED
    BY <1>1, <1>3, <2>1
<1>5. Disturb(r) \in Seq(Frame) /\ DOMAIN Disturb(r) = DOMAIN inserting /\ Len(Disturb(r)) = Len(inserting)
  BY <1>1, <1>4, IsSeq
<1>6. ASSUME NEW k \in DOMAIN inserting
      PROVE  /\ Disturb(r)[k].row = inserting[k].row
             /\ ~Disturb(r)[k].disturbed => ~inserting[k].disturbed /\ inserting[k].row < r
             /\ inserting[k].disturbed => Disturb(r)[k].disturbed
  <2> DEFINE before == r <= inserting[k].row
  <2>1. ~before => inserting[k].row < r
    BY <1>3
  <2>2. Disturb(r)[k].disturbed = (inserting[k].disturbed \/ before)
    BY <1>3
  <2> HIDE DEF before
  <2> QED
    BY <1>3, <2>1, <2>2, Zenon
<1> QED
  BY <1>5, <1>6

\* The frames after a call that changes nothing before row r.
LEMMA FramesKept ==
    ASSUME TypeOK, TypeOK', InsertsOwnRow, FramesNested, NEW r \in Nat,
           inserting' = Disturb(r),
           \A i \in DOMAIN rows : i <= r => i \in DOMAIN rows' /\ rows'[i] = rows[i]
    PROVE  InsertsOwnRow' /\ FramesNested'
<1>1. FramesNested'
  <2> SUFFICES ASSUME NEW j \in DOMAIN inserting', NEW k \in DOMAIN inserting', j < k
               PROVE  inserting'[j].disturbed \/ inserting'[j].row < inserting'[k].row
    BY DEF FramesNested
  <2>1. j \in DOMAIN inserting /\ k \in DOMAIN inserting
    BY Disturbed
  <2>2. inserting[j].disturbed \/ inserting[j].row < inserting[k].row
    BY <2>1 DEF FramesNested
  <2>3. /\ inserting'[j].row = inserting[j].row /\ inserting'[k].row = inserting[k].row
        /\ inserting[j].disturbed => inserting'[j].disturbed
    BY <2>1, Disturbed
  <2> QED
    BY <2>2, <2>3
<1>2. ASSUME NEW k \in DOMAIN inserting', ~inserting'[k].disturbed
      PROVE  inserting'[k].row < Len(rows)' /\ rows'[inserting'[k].row + 1] = Null
  <2>1. k \in DOMAIN inserting /\ inserting'[k].row = inserting[k].row
        /\ ~inserting[k].disturbed /\ inserting[k].row < r
    BY <1>2, Disturbed
  <2>2. inserting[k].row \in Nat
    BY <2>1, FrameOK
  <2>3. inserting[k].row < Len(rows) /\ rows[inserting[k].row + 1] = Null
    BY <2>1 DEF InsertsOwnRow
  <2>4. rows \in Seq(Pointer) /\ rows' \in Seq(Pointer)
    BY DEF TypeOK
  <2>5. inserting[k].row + 1 \in DOMAIN rows /\ inserting[k].row + 1 <= r
    BY <2>1, <2>2, <2>3, <2>4
  <2>6. inserting[k].row + 1 \in DOMAIN rows' /\ rows'[inserting[k].row + 1] = Null
    BY <2>3, <2>5
  <2> QED
    BY <2>1, <2>2, <2>4, <2>6
<1> QED
  BY <1>1, <1>2 DEF InsertsOwnRow

-----------------------------------------------------------------------------
(* The actions.                                                              *)

LEMMA InitOK ==
    Init => IInv
<1> SUFFICES ASSUME Init
             PROVE  IInv
  OBVIOUS
<1>1. rows = <<>> /\ inserting = <<>> /\ shown = <<>> /\ taken = 0 /\ behind = {} /\ astray = FALSE
      /\ calls = 0 /\ data \in [Things -> Data]
  BY DEF Init
<1>2. <<>> \in Seq(Pointer) /\ <<>> \in Seq(Frame) /\ <<>> \in Seq(Picture \cup {Unread})
  OBVIOUS
<1>3. Len(shown) = Len(rows) + taken /\ behind \subseteq Things
  BY <1>1
<1>4. TypeOK
  BY <1>1, <1>2, <1>3 DEF TypeOK
<1> QED
  BY <1>1, <1>4 DEF IInv, InsertsOwnRow, FramesNested, ViewTrue

\* A view's row, Unread or not.
LEMMA ShownOK ==
    ASSUME TypeOK, NEW i \in DOMAIN rows
    PROVE  /\ i \in DOMAIN shown
           /\ rows[i] \in Pointer
           /\ shown[i] # Unread => shown[i] \in Picture /\ shown[i][1] \in Things
<1>1. rows \in Seq(Pointer) /\ shown \in Seq(Picture \cup {Unread}) /\ taken \in Nat
      /\ Len(shown) = Len(rows) + taken
  BY DEF TypeOK
<1>2. i \in DOMAIN shown /\ rows[i] \in Pointer /\ shown[i] \in Picture \cup {Unread}
  BY <1>1
<1> QED
  BY <1>2 DEF Picture

\* What NewRows does to the types and to what the view has read.
LEMMA NewRowsOK ==
    ASSUME TypeOK, ViewTrue, NEW r \in Nat, NEW n \in Nat, NewRows(r, n),
           UNCHANGED <<data, taken, behind, astray>>
    PROVE  /\ rows' \in Seq(Pointer) /\ shown' \in Seq(Picture \cup {Unread})
           /\ Len(rows') = Len(rows) + n
           /\ Len(shown') = Len(rows') + taken
           /\ \A i \in DOMAIN rows : i <= r => i \in DOMAIN rows' /\ rows'[i] = rows[i]
           /\ n > 0 => rows'[r + 1] = Null
           /\ ViewTrue'
<1>1. /\ rows \in Seq(Pointer) /\ shown \in Seq(Picture \cup {Unread}) /\ taken \in Nat
      /\ Len(shown) = Len(rows) + taken /\ Len(rows) \in Nat
  BY DEF TypeOK
<1>2. r <= Len(rows) /\ rows' = Inserted(rows, r, n, Null) /\ shown' = Inserted(shown, r, n, Unread)
  BY DEF NewRows
<1>3. Null \in Pointer /\ Unread \in Picture \cup {Unread}
  BY DEF Pointer
<1>4. rows' \in Seq(Pointer) /\ Len(rows') = Len(rows) + n /\ DOMAIN rows' = 1..(Len(rows) + n)
  BY <1>1, <1>2, <1>3, InsertedOK
<1>5. shown' \in Seq(Picture \cup {Unread}) /\ Len(shown') = Len(shown) + n
  <2> DEFINE S == Picture \cup {Unread}
  <2>1. shown \in Seq(S) /\ Unread \in S /\ r <= Len(shown)
    BY <1>1, <1>2, <1>3
  <2> HIDE DEF S
  <2>2. shown' \in Seq(S) /\ Len(shown') = Len(shown) + n
    BY <1>2, <2>1, InsertedOK
  <2> QED
    BY <2>2 DEF S
<1>6. \A i \in DOMAIN rows' :
        rows'[i] = (IF i <= r THEN rows[i] ELSE IF i <= r + n THEN Null ELSE rows[i - n])
  BY <1>2, <1>4 DEF Inserted
<1>7. \A i \in DOMAIN rows' :
        shown'[i] = (IF i <= r THEN shown[i] ELSE IF i <= r + n THEN Unread ELSE shown[i - n])
  BY <1>1, <1>2, <1>4 DEF Inserted
<1>8. ViewTrue'
  <2> SUFFICES ASSUME ~astray, NEW i \in DOMAIN rows', shown'[i] # Unread
               PROVE  /\ shown'[i][1] = rows'[i]
                      /\ rows'[i] \notin behind => shown'[i][2] = data[rows'[i]]
    BY DEF ViewTrue
  <2>1. PICK k \in DOMAIN rows : rows'[i] = rows[k] /\ shown'[i] = shown[k]
    <3>1. CASE i <= r
      BY <1>1, <1>2, <1>4, <1>6, <1>7, <3>1
    <3>2. CASE i > r + n
      <4>1. i - n \in DOMAIN rows /\ rows'[i] = rows[i - n] /\ shown'[i] = shown[i - n]
        BY <1>1, <1>4, <1>6, <1>7, <3>2
      <4> QED
        BY <4>1
    <3> QED
      BY <1>4, <1>7, <3>1, <3>2
  <2> QED
    BY <2>1 DEF ViewTrue
<1>9. \A i \in DOMAIN rows : i <= r => i \in DOMAIN rows' /\ rows'[i] = rows[i]
  BY <1>1, <1>4, <1>6
<1>10. n > 0 => rows'[r + 1] = Null
  BY <1>1, <1>2, <1>4, <1>6
<1> QED
  BY <1>1, <1>4, <1>5, <1>8, <1>9, <1>10

LEMMA InsertRowsOK ==
    ASSUME IInv, NEW r \in Nat, NEW n \in Nat, InsertRows(r, n)
    PROVE  IInv'
<1>1. TypeOK /\ ViewTrue /\ NewRows(r, n) /\ inserting' = Disturb(r)
      /\ UNCHANGED <<data, taken, behind, astray>> /\ calls' = calls + 1
  BY DEF IInv, InsertRows, Call
<1>2. /\ rows' \in Seq(Pointer) /\ shown' \in Seq(Picture \cup {Unread})
      /\ Len(shown') = Len(rows') + taken
      /\ \A i \in DOMAIN rows : i <= r => i \in DOMAIN rows' /\ rows'[i] = rows[i]
      /\ ViewTrue'
  BY <1>1, NewRowsOK
<1>3. TypeOK'
  BY <1>1, <1>2, Disturbed DEF TypeOK
<1> QED
  BY <1>1, <1>2, <1>3, FramesKept DEF IInv

LEMMA InsertOK ==
    ASSUME IInv, NEW t \in Things, NEW r \in Int, Insert(t, r)
    PROVE  IInv'
<1> DEFINE b == RowBefore(r)
           f == [thing |-> t, row |-> b, disturbed |-> FALSE]
           n == Len(inserting)
<1>1. /\ TypeOK /\ ViewTrue /\ InsertsOwnRow /\ FramesNested
      /\ UNCHANGED <<data, taken, behind, astray>> /\ calls' = calls + 1
      /\ NewRows(b, 1) /\ inserting' = Append(Disturb(b), f)
  BY DEF IInv, Insert, Call
<1>2. rows \in Seq(Pointer) /\ Len(rows) \in Nat /\ n \in Nat /\ DOMAIN inserting = 1..n
  BY <1>1 DEF TypeOK
<1>3. b \in Nat /\ b <= Len(rows)
  BY <1>2 DEF RowBefore
<1>4. f \in Frame /\ f.row = b /\ f.disturbed = FALSE
  BY <1>3 DEF Frame
<1> HIDE DEF b, f
<1>5. /\ rows' \in Seq(Pointer) /\ shown' \in Seq(Picture \cup {Unread})
      /\ Len(rows') = Len(rows) + 1
      /\ Len(shown') = Len(rows') + taken
      /\ \A i \in DOMAIN rows : i <= b => i \in DOMAIN rows' /\ rows'[i] = rows[i]
      /\ rows'[b + 1] = Null
      /\ ViewTrue'
  BY <1>1, <1>3, NewRowsOK
<1>6. /\ Disturb(b) \in Seq(Frame) /\ Len(Disturb(b)) = n
      /\ \A k \in 1..n : /\ Disturb(b)[k].row = inserting[k].row
                         /\ ~Disturb(b)[k].disturbed => ~inserting[k].disturbed /\ inserting[k].row < b
                         /\ inserting[k].disturbed => Disturb(b)[k].disturbed
  BY <1>1, <1>2, <1>3, Disturbed
<1>7. /\ inserting' \in Seq(Frame) /\ DOMAIN inserting' = 1..(n + 1)
      /\ inserting'[n + 1] = f
      /\ \A k \in 1..n : inserting'[k] = Disturb(b)[k]
  BY <1>1, <1>2, <1>4, <1>6
<1>8. TypeOK'
  BY <1>1, <1>5, <1>7 DEF TypeOK
<1>9. InsertsOwnRow'
  <2> SUFFICES ASSUME NEW k \in DOMAIN inserting', ~inserting'[k].disturbed
               PROVE  inserting'[k].row < Len(rows') /\ rows'[inserting'[k].row + 1] = Null
    BY DEF InsertsOwnRow
  <2>1. CASE k = n + 1
    BY <1>2, <1>3, <1>4, <1>5, <1>7, <2>1
  <2>2. CASE k \in 1..n
    <3>1. inserting'[k].row = inserting[k].row /\ ~inserting[k].disturbed /\ inserting[k].row < b
      BY <1>6, <1>7, <2>2
    <3>2. inserting[k].row \in Nat /\ inserting[k].row < Len(rows) /\ rows[inserting[k].row + 1] = Null
      BY <1>1, <1>2, <2>2, <3>1, FrameOK DEF InsertsOwnRow
    <3>3. inserting[k].row + 1 \in DOMAIN rows /\ inserting[k].row + 1 <= b
      BY <1>2, <1>3, <3>1, <3>2
    <3> QED
      BY <1>2, <1>5, <3>1, <3>2, <3>3
  <2> QED
    BY <1>2, <1>7, <2>1, <2>2
<1>10. FramesNested'
  <2> SUFFICES ASSUME NEW j \in DOMAIN inserting', NEW k \in DOMAIN inserting', j < k
               PROVE  inserting'[j].disturbed \/ inserting'[j].row < inserting'[k].row
    BY DEF FramesNested
  <2>1. j \in 1..n /\ k \in 1..(n + 1)
    BY <1>2, <1>7
  <2>2. CASE k = n + 1
    BY <1>3, <1>4, <1>6, <1>7, <2>1, <2>2
  <2>3. CASE k \in 1..n
    <3>1. inserting[j].disturbed \/ inserting[j].row < inserting[k].row
      BY <1>1, <1>2, <2>1, <2>3 DEF FramesNested
    <3> QED
      BY <1>6, <1>7, <2>1, <2>3, <3>1
  <2> QED
    BY <1>2, <2>1, <2>2, <2>3
<1> QED
  BY <1>5, <1>8, <1>9, <1>10 DEF IInv

\* A row that was Null or already held t gets t: what has been read stays true.
LEMMA Filled ==
    ASSUME TypeOK, ViewTrue, NEW t \in Things, NEW j \in DOMAIN rows,
           rows' = [rows EXCEPT ![j] = t],
           astray' = (astray \/ rows[j] \notin {Null, t}),
           UNCHANGED <<data, shown, behind>>
    PROVE  rows' \in Seq(Pointer) /\ Len(rows') = Len(rows) /\ ViewTrue'
<1>1. rows \in Seq(Pointer) /\ astray \in BOOLEAN /\ t \in Pointer /\ t # Null
  BY ModelAssumption DEF TypeOK, Pointer
<1>2. rows' \in Seq(Pointer) /\ Len(rows') = Len(rows) /\ DOMAIN rows' = DOMAIN rows
  BY <1>1
<1>3. ViewTrue'
  <2> SUFFICES ASSUME ~astray', NEW i \in DOMAIN rows', shown[i] # Unread
               PROVE  /\ shown[i][1] = rows'[i]
                      /\ rows'[i] \notin behind => shown[i][2] = data[rows'[i]]
    BY DEF ViewTrue
  <2>1. ~astray /\ rows[j] \in {Null, t} /\ i \in DOMAIN rows
    BY <1>2
  <2>2. shown[i][1] = rows[i] /\ rows[i] \in Things
        /\ (rows[i] \notin behind => shown[i][2] = data[rows[i]])
    BY <2>1, ShownOK DEF ViewTrue
  <2>3. rows'[i] = rows[i]
    BY <1>1, <2>1, <2>2, ModelAssumption
  <2> QED
    BY <2>2, <2>3
<1> QED
  BY <1>2, <1>3

LEMMA AssignOK ==
    ASSUME IInv, Assign
    PROVE  IInv'
<1> DEFINE n == Len(inserting)
           f == inserting[n]
<1>1. /\ TypeOK /\ ViewTrue /\ InsertsOwnRow /\ FramesNested
      /\ UNCHANGED <<data, shown, taken, behind, calls>>
      /\ inserting # <<>> /\ f.row < Len(rows)
      /\ rows' = [rows EXCEPT ![f.row + 1] = f.thing]
      /\ astray' = (astray \/ rows[f.row + 1] \notin {Null, f.thing})
      /\ inserting' = SubSeq(inserting, 1, n - 1)
  BY DEF IInv, Assign
<1>2. rows \in Seq(Pointer) /\ inserting \in Seq(Frame) /\ n \in Nat \ {0}
      /\ DOMAIN inserting = 1..n /\ Len(rows) \in Nat
  BY <1>1 DEF TypeOK
<1>3. f.row \in Nat /\ f.thing \in Things
  <2>1. f \in Frame
    BY <1>2
  <2> QED
    BY <2>1 DEF Frame
<1>4. f.row + 1 \in DOMAIN rows
  BY <1>1, <1>2, <1>3
<1>5. inserting' \in Seq(Frame) /\ DOMAIN inserting' = 1..(n - 1)
      /\ \A k \in 1..(n - 1) : inserting'[k] = inserting[k]
  BY <1>1, <1>2
<1> HIDE DEF f
<1>6. rows' \in Seq(Pointer) /\ Len(rows') = Len(rows) /\ ViewTrue'
  BY <1>1, <1>3, <1>4, Filled
<1>7. TypeOK'
  <2>1. astray' \in BOOLEAN
    BY <1>1
  <2> QED
    BY <1>1, <1>5, <1>6, <2>1 DEF TypeOK
<1>8. FramesNested'
  BY <1>1, <1>2, <1>5 DEF FramesNested
<1>9. InsertsOwnRow'
  <2> SUFFICES ASSUME NEW k \in 1..(n - 1), ~inserting[k].disturbed
               PROVE  inserting[k].row < Len(rows') /\ rows'[inserting[k].row + 1] = Null
    BY <1>5 DEF InsertsOwnRow
  <2>1. k \in DOMAIN inserting /\ n \in DOMAIN inserting /\ k < n
    BY <1>2
  <2>2. inserting[k].row < f.row
    BY <1>1, <2>1 DEF FramesNested, f
  <2>3. inserting[k].row \in Nat /\ inserting[k].row < Len(rows) /\ rows[inserting[k].row + 1] = Null
    BY <1>1, <2>1, FrameOK DEF InsertsOwnRow
  <2>4. inserting[k].row + 1 \in DOMAIN rows /\ inserting[k].row + 1 # f.row + 1
    BY <1>2, <1>3, <2>2, <2>3
  <2> QED
    BY <1>1, <1>2, <1>6, <2>3, <2>4
<1> QED
  BY <1>6, <1>7, <1>8, <1>9 DEF IInv

LEMMA AssignAtOK ==
    ASSUME IInv, NEW t \in Things, NEW r \in Nat, AssignAt(t, r)
    PROVE  IInv'
<1>1. /\ TypeOK /\ ViewTrue /\ InsertsOwnRow /\ FramesNested
      /\ UNCHANGED <<data, shown, taken, behind>> /\ calls' = calls + 1
      /\ r < Len(rows) /\ rows' = [rows EXCEPT ![r + 1] = t]
      /\ astray' = (astray \/ rows[r + 1] \notin {Null, t})
      /\ inserting' = Disturb(r)
  BY DEF IInv, AssignAt, Call
<1>2. rows \in Seq(Pointer) /\ Len(rows) \in Nat
  BY <1>1 DEF TypeOK
<1>3. r + 1 \in DOMAIN rows
  BY <1>1, <1>2
<1>4. rows' \in Seq(Pointer) /\ Len(rows') = Len(rows) /\ ViewTrue'
  BY <1>1, <1>3, Filled
<1>5. TypeOK'
  <2>1. astray' \in BOOLEAN /\ inserting' \in Seq(Frame)
    BY <1>1, Disturbed
  <2> QED
    BY <1>1, <1>4, <2>1 DEF TypeOK
<1>6. \A i \in DOMAIN rows : i <= r => i \in DOMAIN rows' /\ rows'[i] = rows[i]
  BY <1>1, <1>2
<1> QED
  BY <1>1, <1>4, <1>5, <1>6, FramesKept DEF IInv

LEMMA TakeOK ==
    ASSUME IInv, NEW r \in Nat, Take(r)
    PROVE  IInv'
<1>1. /\ TypeOK /\ ViewTrue /\ InsertsOwnRow /\ FramesNested
      /\ UNCHANGED <<data, shown, behind>> /\ calls' = calls + 1 /\ taken' = taken + 1
      /\ r < Len(rows) /\ rows' = Removed(rows, r, 1)
      /\ astray' = (astray \/ r + 1 < Len(rows))
      /\ inserting' = Disturb(r)
  BY DEF IInv, Take, Call
<1>2. rows \in Seq(Pointer) /\ Len(rows) \in Nat /\ taken \in Nat /\ Len(shown) = Len(rows) + taken
  BY <1>1 DEF TypeOK
<1>3. rows' \in Seq(Pointer) /\ Len(rows') = Len(rows) - 1 /\ DOMAIN rows' = 1..(Len(rows) - 1)
  <2>1. r + 1 <= Len(rows) /\ 1 \in Nat
    BY <1>1, <1>2
  <2>2. rows' = Removed(rows, r, 1) /\ rows \in Seq(Pointer)
    BY <1>1, <1>2
  <2> QED
    BY <2>1, <2>2, RemovedOK
<1>4. \A i \in DOMAIN rows : i <= r => i \in DOMAIN rows' /\ rows'[i] = rows[i]
  BY <1>1, <1>2, <1>3 DEF Removed
<1>5. TypeOK'
  <2>1. astray' \in BOOLEAN /\ inserting' \in Seq(Frame)
    BY <1>1, Disturbed
  <2>2. Len(shown') = Len(rows') + taken' /\ taken' \in Nat /\ calls' \in Nat
    <3>1. calls \in Nat /\ calls' = calls + 1
      BY <1>1 DEF TypeOK
    <3>2. Len(rows') = Len(rows) - 1 /\ taken' = taken + 1 /\ shown' = shown
      BY <1>1, <1>3
    <3> QED
      BY <1>2, <3>1, <3>2
  <2> QED
    BY <1>1, <1>3, <2>1, <2>2 DEF TypeOK
<1>6. ViewTrue'
  <2> SUFFICES ASSUME ~astray', NEW i \in DOMAIN rows', shown[i] # Unread
               PROVE  /\ shown[i][1] = rows'[i]
                      /\ rows'[i] \notin behind => shown[i][2] = data[rows'[i]]
    BY <1>1 DEF ViewTrue
  <2>1. ~astray /\ i <= r /\ i \in DOMAIN rows
    <3>1. ~astray /\ ~(r + 1 < Len(rows))
      BY <1>1, Zenon
    <3> QED
      BY <1>1, <1>2, <1>3, <3>1
  <2> QED
    BY <1>1, <1>4, <2>1 DEF ViewTrue
<1> QED
  BY <1>1, <1>4, <1>5, <1>6, FramesKept DEF IInv

LEMMA RemoveRowsOK ==
    ASSUME IInv, NEW r \in Nat, NEW n \in Nat, RemoveRows(r, n)
    PROVE  IInv'
<1>1. /\ TypeOK /\ ViewTrue /\ InsertsOwnRow /\ FramesNested
      /\ UNCHANGED <<data, taken, behind, astray>> /\ calls' = calls + 1
      /\ r + n <= Len(rows) /\ rows' = Removed(rows, r, n) /\ shown' = Removed(shown, r, n)
      /\ inserting' = Disturb(r)
  BY DEF IInv, RemoveRows, Call
<1> DEFINE S == Picture \cup {Unread}
<1>2. rows \in Seq(Pointer) /\ Len(rows) \in Nat /\ taken \in Nat /\ Len(shown) = Len(rows) + taken
      /\ shown \in Seq(S)
  BY <1>1 DEF TypeOK
<1> HIDE DEF S
<1>3. rows' \in Seq(Pointer) /\ Len(rows') = Len(rows) - n /\ DOMAIN rows' = 1..(Len(rows) - n)
  <2> DEFINE R == Pointer
  <2>1. rows \in Seq(R) /\ r + n <= Len(rows) /\ rows' = Removed(rows, r, n)
    BY <1>1, <1>2
  <2> HIDE DEF R
  <2>2. rows' \in Seq(R) /\ Len(rows') = Len(rows) - n /\ DOMAIN rows' = 1..(Len(rows) - n)
    BY <2>1, RemovedOK
  <2> QED
    BY <2>2 DEF R
<1>4. shown' \in Seq(S) /\ Len(shown') = Len(shown) - n /\ DOMAIN shown' = 1..(Len(shown) - n)
  <2>1. r + n <= Len(shown) /\ shown \in Seq(S) /\ shown' = Removed(shown, r, n)
    BY <1>1, <1>2
  <2> QED
    BY <2>1, RemovedOK
<1>5. \A i \in DOMAIN rows : i <= r => i \in DOMAIN rows' /\ rows'[i] = rows[i]
  BY <1>1, <1>2, <1>3 DEF Removed
<1>6. TypeOK'
  <2>1. inserting' \in Seq(Frame)
    BY <1>1, Disturbed
  <2>2. Len(shown') = Len(rows') + taken'
    BY <1>1, <1>2, <1>3, <1>4
  <2> QED
    BY <1>1, <1>3, <1>4, <2>1, <2>2 DEF TypeOK, S
<1>7. ViewTrue'
  <2> SUFFICES ASSUME ~astray, NEW i \in DOMAIN rows', shown'[i] # Unread
               PROVE  /\ shown'[i][1] = rows'[i]
                      /\ rows'[i] \notin behind => shown'[i][2] = data[rows'[i]]
    BY <1>1 DEF ViewTrue
  <2>1. PICK k \in DOMAIN rows : rows'[i] = rows[k] /\ shown'[i] = shown[k]
    <3>1. i \in 1..(Len(rows) - n) /\ i \in 1..(Len(shown) - n) /\ DOMAIN rows = 1..Len(rows)
      BY <1>2, <1>3
    <3>2. /\ rows'[i] = (IF i <= r THEN rows[i] ELSE rows[i + n])
          /\ shown'[i] = (IF i <= r THEN shown[i] ELSE shown[i + n])
      <4>1. rows' = Removed(rows, r, n) /\ shown' = Removed(shown, r, n)
        BY <1>1
      <4> QED
        BY <3>1, <4>1 DEF Removed
    <3>4. CASE i <= r
      <4>1. i \in DOMAIN rows
        BY <1>2, <3>1, <3>4
      <4> QED
        BY <3>2, <3>4, <4>1
    <3>3. CASE i > r
      <4>1. i + n \in DOMAIN rows /\ rows'[i] = rows[i + n] /\ shown'[i] = shown[i + n]
        BY <1>2, <3>1, <3>2, <3>3
      <4> QED
        BY <4>1
    <3> QED
      BY <3>1, <3>3, <3>4
  <2> QED
    BY <1>1, <2>1 DEF ViewTrue
<1> QED
  BY <1>1, <1>5, <1>6, <1>7, FramesKept DEF IInv

\* The lower of the two ranges moveRows swaps, and how far the other is from it.
Low(r, dest)  == IF dest < r THEN dest ELSE r
Dist(r, dest) == IF dest < r THEN r - dest ELSE dest - r

LEMMA LowDist ==
    ASSUME NEW r \in Nat, NEW n \in Nat \ {0}, NEW dest \in Nat, NEW len \in Nat,
           r + n <= len, dest + n <= len, dest \notin r..(r + n)
    PROVE  /\ Low(r, dest) \in Nat /\ Dist(r, dest) \in Nat \ {0}
           /\ Low(r, dest) + Dist(r, dest) + n <= len
BY DEF Low, Dist

LEMMA MoveRowsOK ==
    ASSUME IInv, NEW r \in Nat, NEW n \in Nat \ {0}, NEW dest \in Nat, MoveRows(r, n, dest)
    PROVE  IInv'
<1> DEFINE lo == Low(r, dest)
           d == Dist(r, dest)
           S == Picture \cup {Unread}
<1>1. /\ TypeOK /\ ViewTrue /\ InsertsOwnRow /\ FramesNested
      /\ UNCHANGED <<data, taken, behind>> /\ calls' = calls + 1
      /\ r + n <= Len(rows) /\ dest + n <= Len(rows) /\ dest \notin r..(r + n)
      /\ rows' = Swapped(rows, lo, d, n) /\ shown' = Moved(shown, r, n, dest)
      /\ inserting' = Disturb(lo)
      /\ astray' = (astray \/ ~MovesAsTold(r, n, dest))
  BY DEF IInv, MoveRows, Call, Low, Dist
<1>2. rows \in Seq(Pointer) /\ Len(rows) \in Nat /\ taken \in Nat /\ Len(shown) = Len(rows) + taken
      /\ shown \in Seq(S) /\ DOMAIN rows = 1..Len(rows)
  BY <1>1 DEF TypeOK
<1>3. lo \in Nat /\ d \in Nat \ {0} /\ lo + d + n <= Len(rows)
  BY <1>1, <1>2, LowDist
<1>4. MovesAsTold(r, n, dest) => lo = dest /\ d = r - dest /\ dest < r
  BY DEF MovesAsTold, Low, Dist
<1> HIDE DEF lo, d, S
<1>5. rows' \in Seq(Pointer) /\ Len(rows') = Len(rows) /\ DOMAIN rows' = 1..Len(rows)
  BY <1>1, <1>2, <1>3, SwappedOK
<1>6. shown' \in Seq(S) /\ Len(shown') = Len(shown)
  <2>1. r + n <= Len(shown) /\ dest <= Len(shown)
    BY <1>1, <1>2
  <2> QED
    BY <1>1, <1>2, <2>1, MovedOK
<1>7. \A i \in DOMAIN rows : i <= lo => i \in DOMAIN rows' /\ rows'[i] = rows[i]
  BY <1>1, <1>2, <1>3, <1>5 DEF Swapped
<1>8. TypeOK'
  <2>1. astray' \in BOOLEAN /\ inserting' \in Seq(Frame)
    BY <1>1, <1>3, Disturbed DEF TypeOK
  <2>2. Len(shown') = Len(rows') + taken'
    BY <1>1, <1>2, <1>5, <1>6
  <2> QED
    BY <1>1, <1>5, <1>6, <2>1, <2>2 DEF TypeOK, S
<1>9. ViewTrue'
  <2> SUFFICES ASSUME ~astray', NEW i \in 1..Len(rows), shown'[i] # Unread
               PROVE  /\ shown'[i][1] = rows'[i]
                      /\ rows'[i] \notin behind => shown'[i][2] = data[rows'[i]]
    BY <1>1, <1>5 DEF ViewTrue
  <2>1. ~astray /\ MovesAsTold(r, n, dest) /\ lo = dest /\ d = r - dest /\ dest < r
    BY <1>1, <1>4
  <2>2. rows'[i] = Moved(rows, r, n, dest)[i]
    BY <1>1, <1>2, <2>1, SwappedIsMoved
  <2>3. PICK k \in 1..Len(rows) : Moved(rows, r, n, dest)[i] = rows[k] /\ shown'[i] = shown[k]
    <3>1. i \in 1..Len(shown)
      BY <1>2
    <3>2. CASE i <= dest \/ i > r + n
      BY <1>1, <2>1, <3>1, <3>2 DEF Moved
    <3>3. CASE dest < i /\ i <= dest + n
      <4>1. i + r - dest \in 1..Len(rows)
        BY <1>1, <1>2, <2>1, <3>3
      <4> QED
        BY <1>1, <1>2, <2>1, <3>1, <3>3, <4>1 DEF Moved
    <3>4. CASE dest + n < i /\ i <= r + n
      <4>1. i - n \in 1..Len(rows)
        BY <1>1, <1>2, <2>1, <3>4
      <4>2. Moved(rows, r, n, dest)[i] = rows[i - n]
        BY <1>2, <2>1, <3>4 DEF Moved
      <4>3. shown' = Moved(shown, r, n, dest)
        BY <1>1
      <4>4. shown'[i] = shown[i - n]
        BY <2>1, <3>1, <3>4, <4>3 DEF Moved
      <4> QED
        BY <4>1, <4>2, <4>4
    <3> QED
      BY <2>1, <3>2, <3>3, <3>4
  <2> QED
    BY <1>1, <1>2, <2>1, <2>2, <2>3 DEF ViewTrue
<1> QED
  BY <1>1, <1>3, <1>7, <1>8, <1>9, FramesKept DEF IInv

LEMMA SetDataOK ==
    ASSUME IInv, NEW r \in Nat, NEW v \in Data, SetData(r, v)
    PROVE  IInv'
<1> DEFINE t == rows[r + 1]
           S == Picture \cup {Unread}
<1>1. /\ TypeOK /\ ViewTrue /\ InsertsOwnRow /\ FramesNested
      /\ UNCHANGED <<rows, inserting, taken, astray>> /\ calls' = calls + 1
      /\ r < Len(rows) /\ t # Null
      /\ data' = [data EXCEPT ![t] = v]
      /\ shown' = [shown EXCEPT ![r + 1] = Unread]
      /\ behind' = IF \E i \in DOMAIN rows \ {r + 1} : rows[i] = t THEN behind \cup {t} ELSE behind
  BY DEF IInv, SetData, Call
<1>2. rows \in Seq(Pointer) /\ Len(rows) \in Nat /\ taken \in Nat /\ Len(shown) = Len(rows) + taken
      /\ shown \in Seq(S) /\ DOMAIN rows = 1..Len(rows) /\ Unread \in S /\ data \in [Things -> Data]
      /\ behind \subseteq Things
  BY <1>1 DEF TypeOK
<1>3. r + 1 \in DOMAIN rows /\ t \in Things
  <2>1. r + 1 \in DOMAIN rows
    BY <1>1, <1>2
  <2> QED
    BY <1>1, <1>2, <2>1 DEF Pointer
<1> HIDE DEF t, S
<1>4. shown' \in Seq(S) /\ Len(shown') = Len(shown)
  BY <1>1, <1>2
<1>5. TypeOK'
  <2>1. data' \in [Things -> Data] /\ behind' \subseteq Things
    BY <1>1, <1>2, <1>3
  <2> QED
    BY <1>1, <1>2, <1>4, <2>1 DEF TypeOK, S
<1>6. ViewTrue'
  <2> SUFFICES ASSUME ~astray, NEW i \in DOMAIN rows, shown'[i] # Unread
               PROVE  /\ shown'[i][1] = rows[i]
                      /\ rows[i] \notin behind' => shown'[i][2] = data'[rows[i]]
    BY <1>1 DEF ViewTrue
  <2>1. i # r + 1 /\ shown'[i] = shown[i]
    <3>1. i \in DOMAIN shown /\ r + 1 \in DOMAIN shown
      BY <1>1, <1>3, ShownOK
    <3> QED
      BY <1>1, <3>1
  <2>2. /\ shown[i][1] = rows[i] /\ rows[i] \in Things
        /\ rows[i] \notin behind => shown[i][2] = data[rows[i]]
    BY <1>1, <2>1, ShownOK DEF ViewTrue
  <2>3. CASE rows[i] = t
    BY <1>1, <2>1, <2>2, <2>3
  <2>4. CASE rows[i] # t
    BY <1>1, <1>2, <1>3, <2>1, <2>2, <2>4
  <2> QED
    BY <2>3, <2>4
<1> QED
  BY <1>1, <1>5, <1>6 DEF IInv, InsertsOwnRow, FramesNested

LEMMA PropertyChangedOK ==
    ASSUME IInv, NEW t \in Things, NEW v \in Data, PropertyChanged(t, v)
    PROVE  IInv'
<1>1. /\ TypeOK /\ ViewTrue /\ InsertsOwnRow /\ FramesNested
      /\ UNCHANGED <<rows, inserting, shown, taken, astray>> /\ calls' = calls + 1
      /\ data' = [data EXCEPT ![t] = v] /\ behind' = behind \cup {t}
  BY DEF IInv, PropertyChanged, Call
<1>2. TypeOK'
  BY <1>1 DEF TypeOK
<1>3. ViewTrue'
  BY <1>1 DEF ViewTrue, TypeOK
<1> QED
  BY <1>1, <1>2, <1>3 DEF IInv, InsertsOwnRow, FramesNested

LEMMA PaintOK ==
    ASSUME IInv, NEW r \in Nat, Paint(r)
    PROVE  IInv'
<1> DEFINE t == rows[r + 1]
           S == Picture \cup {Unread}
<1>1. /\ TypeOK /\ ViewTrue /\ InsertsOwnRow /\ FramesNested
      /\ UNCHANGED <<rows, data, inserting, taken, behind, astray, calls>>
      /\ r < Len(rows) /\ t # Null
      /\ shown' = [shown EXCEPT ![r + 1] = <<t, data[t]>>]
  BY DEF IInv, Paint
<1>2. rows \in Seq(Pointer) /\ Len(rows) \in Nat /\ shown \in Seq(S) /\ DOMAIN rows = 1..Len(rows)
      /\ data \in [Things -> Data]
  BY <1>1 DEF TypeOK
<1>3. r + 1 \in DOMAIN rows /\ t \in Things /\ data[t] \in Data
  <2>1. r + 1 \in DOMAIN rows
    BY <1>1, <1>2
  <2> QED
    BY <1>1, <1>2, <2>1 DEF Pointer
<1> HIDE DEF t
<1>4. <<t, data[t]>> \in S
  BY <1>3 DEF Picture
<1> HIDE DEF S
<1>5. shown' \in Seq(S) /\ Len(shown') = Len(shown) /\ DOMAIN shown' = DOMAIN shown
  <2> DEFINE x == <<t, data[t]>>
  <2>1. x \in S /\ shown' = [shown EXCEPT ![r + 1] = x] /\ shown \in Seq(S)
    BY <1>1, <1>2, <1>4
  <2> HIDE DEF x
  <2>2. Len(shown) \in Nat /\ DOMAIN shown = 1..Len(shown) /\ shown \in [1..Len(shown) -> S]
    BY <2>1
  <2>3. shown' \in [1..Len(shown) -> S]
    BY <2>1, <2>2
  <2> QED
    BY <2>2, <2>3, IsSeq
<1>6. TypeOK'
  BY <1>1, <1>5 DEF TypeOK, S
<1>7. ViewTrue'
  <2> SUFFICES ASSUME ~astray, NEW i \in DOMAIN rows, shown'[i] # Unread
               PROVE  /\ shown'[i][1] = rows[i]
                      /\ rows[i] \notin behind => shown'[i][2] = data[rows[i]]
    BY <1>1 DEF ViewTrue
  <2>1. i \in DOMAIN shown
    BY <1>1, ShownOK
  <2>2. CASE i = r + 1
    BY <1>1, <2>1, <2>2 DEF t
  <2>3. CASE i # r + 1
    BY <1>1, <2>1, <2>3 DEF ViewTrue
  <2> QED
    BY <2>2, <2>3
<1> QED
  BY <1>1, <1>6, <1>7 DEF IInv, InsertsOwnRow, FramesNested

LEMMA NextOK ==
    IInv /\ [Next]_vars => IInv'
<1> SUFFICES ASSUME IInv, [Next]_vars
             PROVE  IInv'
  OBVIOUS
<1>1. Row \subseteq Nat /\ Count \subseteq Nat \ {0} /\ Row \subseteq Int /\ -1 \in Int
  BY ModelAssumption DEF Row, Count
<1>2. CASE \E r \in Row, n \in Count : InsertRows(r, n)
  BY <1>1, <1>2, InsertRowsOK
<1>3. CASE \E r \in Row, n \in Count : RemoveRows(r, n)
  BY <1>1, <1>3, RemoveRowsOK
<1>4. CASE \E r \in Row, n \in Count, dest \in Row : MoveRows(r, n, dest)
  BY <1>1, <1>4, MoveRowsOK
<1>5. CASE \E r \in Row \cup {-1}, t \in Things : Insert(t, r)
  BY <1>1, <1>5, InsertOK
<1>6. CASE \E r \in Row, t \in Things : AssignAt(t, r)
  BY <1>1, <1>6, AssignAtOK
<1>7. CASE \E r \in Row : Take(r)
  BY <1>1, <1>7, TakeOK
<1>8. CASE \E r \in Row : Paint(r)
  BY <1>1, <1>8, PaintOK
<1>9. CASE \E r \in Row, v \in Data : SetData(r, v)
  BY <1>1, <1>9, SetDataOK
<1>10. CASE \E t \in Things, v \in Data : PropertyChanged(t, v)
  BY <1>10, PropertyChangedOK
<1>11. CASE Assign
  BY <1>11, AssignOK
<1>12. CASE UNCHANGED vars
  BY <1>12 DEF vars, IInv, TypeOK, InsertsOwnRow, FramesNested, ViewTrue
<1> QED
  BY <1>2, <1>3, <1>4, <1>5, <1>6, <1>7, <1>8, <1>9, <1>10, <1>11, <1>12 DEF Next

-----------------------------------------------------------------------------
(* moveRows swaps ranges: no row is lost or there twice.                     *)

\* Two numbers that are less than d apart leave different remainders.
LEMMA RemaindersDiffer ==
    ASSUME NEW d \in Nat \ {0}, NEW a \in Nat, NEW b \in Nat, a < b, b - a < d
    PROVE  a % d # b % d
<1>1. PICK q \in Nat, r \in 0..(d - 1) : q = a \div d /\ r = a % d /\ a = d * q + r
  OBVIOUS
<1>2. PICK k \in Nat, s \in 0..(d - 1) : k = b \div d /\ s = b % d /\ b = d * k + s
  OBVIOUS
<1>3. SUFFICES ASSUME r = s PROVE FALSE
  BY <1>1, <1>2
<1>4. b - a = d * (k - q)
  BY <1>1, <1>2, <1>3
<1> QED
  BY <1>4

\* Where a row comes from when ranges are swapped.
From(i, lo, d, n) ==
    IF i <= lo \/ i > lo + d + n THEN i
    ELSE IF i <= lo + n THEN i + d ELSE lo + 1 + ((i - lo - 1) % d)

\* No two rows come from one.
LEMMA RowsComeFromRows ==
    ASSUME NEW m \in Nat, NEW lo \in Nat, NEW d \in Nat \ {0}, NEW n \in Nat \ {0},
           lo + d + n <= m
    PROVE  /\ \A i \in 1..m : From(i, lo, d, n) \in 1..m
           /\ \A i, j \in 1..m : i < j => From(i, lo, d, n) # From(j, lo, d, n)
<1> DEFINE Block(i) == lo < i /\ i <= lo + n
           Passed(i) == lo + n < i /\ i <= lo + d + n
           Rest(i) == i <= lo \/ i > lo + d + n
<1>1. \A i \in 1..m : Block(i) \/ Passed(i) \/ Rest(i)
  OBVIOUS
<1>2. \A i \in 1..m : Block(i) => From(i, lo, d, n) = i + d
  BY DEF From
<1>3. \A i \in 1..m : Rest(i) => From(i, lo, d, n) = i
  BY DEF From
<1>4. \A i \in 1..m : Passed(i) => From(i, lo, d, n) = lo + 1 + ((i - lo - 1) % d)
  BY DEF From
<1>5. \A i \in 1..m : Passed(i) => From(i, lo, d, n) \in (lo + 1)..(lo + d)
  <2> SUFFICES ASSUME NEW i \in 1..m, Passed(i) PROVE From(i, lo, d, n) \in (lo + 1)..(lo + d)
    OBVIOUS
  <2> DEFINE a == i - lo - 1
  <2>1. a \in Nat
    OBVIOUS
  <2>2. From(i, lo, d, n) = lo + 1 + (a % d)
    BY <1>4
  <2> HIDE DEF a
  <2>3. a % d \in 0..(d - 1)
    BY <2>1, Remainder
  <2> QED
    BY <2>2, <2>3
<1>6. \A i, j \in 1..m : Passed(i) /\ Passed(j) /\ i < j => From(i, lo, d, n) # From(j, lo, d, n)
  <2> SUFFICES ASSUME NEW i \in 1..m, NEW j \in 1..m, Passed(i), Passed(j), i < j
               PROVE  From(i, lo, d, n) # From(j, lo, d, n)
    OBVIOUS
  <2> DEFINE a == i - lo - 1
             b == j - lo - 1
  <2>1. a \in Nat /\ b \in Nat /\ a < b /\ b - a < d
    OBVIOUS
  <2>2. From(i, lo, d, n) = lo + 1 + (a % d) /\ From(j, lo, d, n) = lo + 1 + (b % d)
    BY <1>4
  <2> HIDE DEF a, b
  <2>3. a % d # b % d /\ a % d \in 0..(d - 1) /\ b % d \in 0..(d - 1)
    BY <2>1, Remainder, RemaindersDiffer
  <2> QED
    BY <2>2, <2>3
<1>7. \A i \in 1..m : From(i, lo, d, n) \in 1..m
  BY <1>1, <1>2, <1>3, <1>5
<1>8. \A i, j \in 1..m : i < j => From(i, lo, d, n) # From(j, lo, d, n)
  BY <1>1, <1>2, <1>3, <1>5, <1>6
<1> QED
  BY <1>7, <1>8

\* The rows that hold a pointer.
Held(s, m, p) == {i \in 1..m : s[i] = p}

\* t are the first m rows of s in another order: row i comes from f[i].
Rearranges(f, m, s, t) ==
    /\ f \in [1..m -> 1..m]
    /\ \A i \in 1..m : t[i] = s[f[i]]
    /\ \A i, j \in 1..m : i < j => f[i] # f[j]

\* Rearranged rows hold each pointer as often as before.
LEMMA RearrangedKeeps ==
    ASSUME NEW s, NEW t, NEW m \in Nat, NEW f, Rearranges(f, m, s, t), NEW p
    PROVE  Cardinality(Held(s, m, p)) = Cardinality(Held(t, m, p))
<1> USE DEF Rearranges
<1> DEFINE All == 1..m
           P == {i \in All : s[i] = p}
           Q == {i \in All : t[i] = p}
           g == [i \in Q |-> f[i]]
<1>1. IsFiniteSet(All) /\ IsFiniteSet(P) /\ IsFiniteSet(Q)
  <2>1. IsFiniteSet(All)
    BY FS_Interval
  <2>2. P \subseteq All /\ Q \subseteq All
    OBVIOUS
  <2> HIDE DEF All, P, Q
  <2> QED
    BY <2>1, <2>2, FS_Subset
<1>2. \A i, j \in All : f[i] = f[j] => i = j
  <2> SUFFICES ASSUME NEW i \in All, NEW j \in All, f[i] = f[j], i # j PROVE FALSE
    OBVIOUS
  <2>1. i < j \/ j < i
    OBVIOUS
  <2> QED
    BY <2>1
<1>3. f \in Injection(All, All)
  BY <1>2 DEF Injection, IsInjective
<1>4. f \in Surjection(All, All)
  BY <1>1, <1>3, FS_Injection
<1>5. g \in Injection(Q, P)
  BY <1>2 DEF Injection, IsInjective
<1>6. g \in Surjection(Q, P)
  <2>1. \A k \in P : \E i \in Q : g[i] = k
    BY <1>4 DEF Surjection
  <2>2. g \in [Q -> P]
    BY <1>5 DEF Injection
  <2> QED
    BY <2>1, <2>2 DEF Surjection
<1>7. Cardinality(Q) = Cardinality(P)
  BY <1>1, <1>5, <1>6, FS_Injection
<1> QED
  BY <1>7 DEF Held

\* Swapping ranges rearranges the rows, whether they overlap or not.
LEMMA MoveKeeps ==
    ASSUME TypeOK, NEW r \in Nat, NEW n \in Nat \ {0}, NEW dest \in Nat, MoveRows(r, n, dest),
           NEW p
    PROVE  Cardinality({i \in DOMAIN rows : rows[i] = p})
               = Cardinality({i \in DOMAIN rows' : rows'[i] = p})
<1> DEFINE m == Len(rows)
           lo == IF dest < r THEN dest ELSE r
           d == IF dest < r THEN r - dest ELSE dest - r
           f == [i \in 1..m |-> From(i, lo, d, n)]
<1>1. rows' = Swapped(rows, lo, d, n)
  BY DEF MoveRows
<1>2. lo \in Nat /\ d \in Nat \ {0} /\ m \in Nat /\ lo + d + n <= m
  BY DEF MoveRows, TypeOK
<1>3. DOMAIN rows = 1..m
  BY DEF TypeOK
<1> HIDE DEF lo, d, m
<1>4. /\ DOMAIN rows' = 1..m
      /\ \A i \in 1..m : rows'[i] = rows[f[i]]
  BY <1>1 DEF Swapped, From, m
<1>5. /\ f \in [1..m -> 1..m]
      /\ \A i, j \in 1..m : i < j => f[i] # f[j]
  BY <1>2, RowsComeFromRows
<1> HIDE DEF f
<1>6. m \in Nat /\ Rearranges(f, m, rows, rows')
  BY <1>2, <1>4, <1>5 DEF Rearranges
<1>7. Cardinality(Held(rows, m, p)) = Cardinality(Held(rows', m, p))
  BY <1>6, RearrangedKeeps
<1> QED
  BY <1>3, <1>4, <1>7 DEF Held

-----------------------------------------------------------------------------

\* Whatever the program and its slots call, the view has been told of each row
\* that there is and of those that take removed without a word, and of no other
\* (TableModel!TypeOK).
THEOREM ModelKeepsForm ==
    Spec => []TypeOK
<1>1. IInv => TypeOK
  BY DEF IInv
<1> QED
  BY <1>1, InitOK, NextOK, PTL DEF Spec

\* Whatever the program and its slots call, a view that applies what
\* table_model announces knows of as many rows as there are, plus those taken,
\* and shows what is in them, short of the calls ViewTrue names.
THEOREM ViewsAreTrue ==
    Spec => []ViewTrue
<1>1. IInv => ViewTrue
  BY DEF IInv
<1> QED
  BY <1>1, InitOK, NextOK, PTL DEF Spec

\* insert finds the row it made after the slots ran, if they left that row and
\* those before it alone, however deep the calls are nested.
THEOREM InsertsAreOwn ==
    Spec => []InsertsOwnRow
<1>1. IInv => InsertsOwnRow
  BY DEF IInv
<1> QED
  BY <1>1, InitOK, NextOK, PTL DEF Spec

\* However the ranges moveRows swaps lie to each other, every pointer is in as
\* many rows after it as before.
THEOREM MovesLoseNothing ==
    Spec => MoveKeepsRows
<1> DEFINE Keeps == \A r \in Row, n \in Count, dest \in Row :
                        MoveRows(r, n, dest) =>
                            \A p \in Pointer :
                                Cardinality({i \in DOMAIN rows : rows[i] = p})
                                    = Cardinality({i \in DOMAIN rows' : rows'[i] = p})
<1>1. Row \subseteq Nat /\ Count \subseteq Nat \ {0}
  BY ModelAssumption DEF Row, Count
<1>2. IInv /\ [Next]_vars => [Keeps]_vars
  BY <1>1, MoveKeeps DEF IInv
<1> QED
  BY <1>2, InitOK, NextOK, PTL DEF Spec, MoveKeepsRows

=============================================================================
