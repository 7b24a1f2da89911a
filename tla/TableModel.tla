------------------------------ MODULE TableModel ------------------------------
(***************************************************************************)
(* table_model<T> of ORM/orm_table_model.h and a view that shows it.  Qt's *)
(* begin... and end... functions announce a change to the views, which     *)
(* apply to their picture of the rows what is announced, not what is done. *)
(*                                                                         *)
(* T is a QObject class: for a gadget the two insert functions have the    *)
(* same parameters.  A row is a shared pointer, Null at first.  An         *)
(* announcement runs slots, which may call the model in turn: insert waits *)
(* for them with its row in hand.  All columns of an object are one datum. *)
(* What the code leaves undefined is left out: reading or writing through  *)
(* a Null row, moving over the end, a move that beginMoveRows refuses, and *)
(* a row that is no longer there when insert gets to it.                   *)
(***************************************************************************)
EXTENDS Integers, Sequences, FiniteSets

CONSTANTS
    Things,     \* objects of class T
    Null,       \* the pointer to none
    Data,       \* what the columns of an object can hold
    MaxRows,    \* bound: rows
    MaxDepth,   \* bound: insert calls under way
    MaxCalls    \* bound: calls

ASSUME ModelAssumption ==
    /\ Null \notin Things /\ Data # {}
    /\ MaxRows \in Nat /\ MaxDepth \in Nat /\ MaxCalls \in Nat

VARIABLES
    rows,       \* m_data
    data,       \* the data of each object
    inserting,  \* insert calls that wait for the slots, the innermost last
    shown,      \* the view: what it last read of each row it knows of
    taken,      \* history: rows that went without an announcement
    behind,     \* history: objects whose data changed without one for each row
    astray,     \* history: rows were replaced or rearranged without one
    calls       \* calls so far

vars == <<rows, data, inserting, shown, taken, behind, astray, calls>>

Pointer == Things \cup {Null}
Frame   == [thing : Things, row : Nat, disturbed : BOOLEAN]
Unread  == <<>>
Picture == Things \X Data

-----------------------------------------------------------------------------
(* Sequences of rows.  Rows are numbered from 0, as in the code.           *)

\* n times x before row r.
Inserted(s, r, n, x) ==
    [i \in 1..(Len(s) + n) |-> IF i <= r THEN s[i] ELSE IF i <= r + n THEN x ELSE s[i - n]]

Removed(s, r, n) == [i \in 1..(Len(s) - n) |-> IF i <= r THEN s[i] ELSE s[i + n]]

\* beginMoveRows: rows r .. r + n - 1 before row dest, outside of them.
Moved(s, r, n, dest) ==
    [i \in 1..Len(s) |->
        IF dest < r
        THEN IF i <= dest \/ i > r + n THEN s[i]
             ELSE IF i <= dest + n THEN s[i + r - dest] ELSE s[i - n]
        ELSE IF i <= r \/ i > dest THEN s[i]
             ELSE IF i <= dest - n THEN s[i + n] ELSE s[i + r + n - dest]]

\* std::swap_ranges: rows lo .. lo + n - 1 with those d further down, one after
\* the other, so that the d rows passed are rotated if the ranges overlap.
Swapped(s, lo, d, n) ==
    [i \in 1..Len(s) |->
        IF i <= lo \/ i > lo + d + n THEN s[i]
        ELSE IF i <= lo + n THEN s[i + d] ELSE s[lo + 1 + ((i - lo - 1) % d)]]

-----------------------------------------------------------------------------
(* The operations.                                                         *)

Call ==
    /\ calls < MaxCalls
    /\ calls' = calls + 1

\* The insert calls under way whose row is not before row r see it change.
Disturb(r) ==
    [k \in DOMAIN inserting |->
        [inserting[k] EXCEPT !.disturbed = @ \/ r <= inserting[k].row]]

\* Mutant: one row more is announced.
NewRowsOneMore(r, n) ==
    /\ r \in 0..Len(rows) /\ Len(rows) + n <= MaxRows
    /\ rows' = Inserted(rows, r, n, Null)
    /\ shown' = Inserted(shown, r, n + 1, Unread)

\* Mutant: the rows go behind the row announced.
NewRowsBehind(r, n) ==
    /\ r \in 0..Len(rows) /\ Len(rows) + n <= MaxRows
    /\ rows' = Inserted(rows, IF r < Len(rows) THEN r + 1 ELSE r, n, Null)
    /\ shown' = Inserted(shown, r, n, Unread)

\* insertRows from the announcement on.
NewRows(r, n) ==
    /\ r \in 0..Len(rows) /\ Len(rows) + n <= MaxRows
    /\ rows' = Inserted(rows, r, n, Null)
    /\ shown' = Inserted(shown, r, n, Unread)

InsertRows(r, n) ==
    /\ Call
    /\ NewRows(r, n)
    /\ inserting' = Disturb(r)
    /\ UNCHANGED <<data, taken, behind, astray>>

\* A row that is none means the end.
RowBefore(r) == IF r \in 0..Len(rows) THEN r ELSE Len(rows)

\* insert up to the return of insertRows, which runs the slots ...
Insert(t, r) ==
    /\ Call
    /\ Len(inserting) < MaxDepth
    /\ NewRows(RowBefore(r), 1)
    /\ inserting' = Append(Disturb(RowBefore(r)),
                           [thing |-> t, row |-> RowBefore(r), disturbed |-> FALSE])
    /\ UNCHANGED <<data, taken, behind, astray>>

\* ... and the assignment after them.
Assign ==
    /\ inserting # <<>>
    /\ LET f == inserting[Len(inserting)]
       IN  /\ f.row < Len(rows)
           /\ rows' = [rows EXCEPT ![f.row + 1] = f.thing]
           /\ astray' = (astray \/ rows[f.row + 1] \notin {Null, f.thing})
    /\ inserting' = SubSeq(inserting, 1, Len(inserting) - 1)
    /\ UNCHANGED <<data, shown, taken, behind, calls>>

\* The program assigns to the reference at returns, to a row of the model or not.
AssignAt(t, r) ==
    /\ Call
    /\ r < Len(rows)
    /\ rows' = [rows EXCEPT ![r + 1] = t]
    /\ astray' = (astray \/ rows[r + 1] \notin {Null, t})
    /\ inserting' = Disturb(r)
    /\ UNCHANGED <<data, shown, taken, behind>>

\* take: no announcement.
Take(r) ==
    /\ Call
    /\ r < Len(rows)
    /\ rows' = Removed(rows, r, 1)
    /\ taken' = taken + 1
    /\ astray' = (astray \/ r + 1 < Len(rows))
    /\ inserting' = Disturb(r)
    /\ UNCHANGED <<data, shown, behind>>

RemoveRows(r, n) ==
    /\ Call
    /\ r + n <= Len(rows)
    /\ rows' = Removed(rows, r, n)
    /\ shown' = Removed(shown, r, n)
    /\ inserting' = Disturb(r)
    /\ UNCHANGED <<data, taken, behind, astray>>

\* Swapping is moving if the block goes up by a divisor of its length.
MovesAsTold(r, n, dest) == dest < r /\ n % (r - dest) = 0

\* Mutant: the rows that give way are not put back.
MoveRowsCopy(r, n, dest) ==
    /\ Call
    /\ r + n <= Len(rows) /\ dest + n <= Len(rows) /\ dest \notin r..(r + n)
    /\ rows' = [i \in DOMAIN rows |->
                  IF dest < i /\ i <= dest + n THEN rows[i + r - dest] ELSE rows[i]]
    /\ inserting' = Disturb(IF dest < r THEN dest ELSE r)
    /\ shown' = Moved(shown, r, n, dest)
    /\ astray' = (astray \/ ~MovesAsTold(r, n, dest))
    /\ UNCHANGED <<data, taken, behind>>

\* moveRows.
MoveRows(r, n, dest) ==
    /\ Call
    /\ r + n <= Len(rows) /\ dest + n <= Len(rows) /\ dest \notin r..(r + n)
    /\ LET lo == IF dest < r THEN dest ELSE r
           d == IF dest < r THEN r - dest ELSE dest - r
       IN  /\ rows' = Swapped(rows, lo, d, n)
           /\ inserting' = Disturb(lo)
    /\ shown' = Moved(shown, r, n, dest)
    /\ astray' = (astray \/ ~MovesAsTold(r, n, dest))
    /\ UNCHANGED <<data, taken, behind>>

\* Mutant: no announcement.
SetDataSilent(r, d) ==
    /\ Call
    /\ r < Len(rows) /\ rows[r + 1] # Null
    /\ data' = [data EXCEPT ![rows[r + 1]] = d]
    /\ behind' = IF \E i \in DOMAIN rows \ {r + 1} : rows[i] = rows[r + 1]
                 THEN behind \cup {rows[r + 1]} ELSE behind
    /\ UNCHANGED <<rows, inserting, shown, taken, astray>>

\* setData announces the row it was called for.
SetData(r, d) ==
    /\ Call
    /\ r < Len(rows) /\ rows[r + 1] # Null
    /\ data' = [data EXCEPT ![rows[r + 1]] = d]
    /\ shown' = [shown EXCEPT ![r + 1] = Unread]
    /\ behind' = IF \E i \in DOMAIN rows \ {r + 1} : rows[i] = rows[r + 1]
                 THEN behind \cup {rows[r + 1]} ELSE behind
    /\ UNCHANGED <<rows, inserting, taken, astray>>

\* The program sets a property of the object itself; onPropertyChanged is empty.
PropertyChanged(t, d) ==
    /\ Call
    /\ data' = [data EXCEPT ![t] = d]
    /\ behind' = behind \cup {t}
    /\ UNCHANGED <<rows, inserting, shown, taken, astray>>

\* The view reads a row: data.
Paint(r) ==
    /\ r < Len(rows) /\ rows[r + 1] # Null
    /\ shown' = [shown EXCEPT ![r + 1] = <<rows[r + 1], data[rows[r + 1]]>>]
    /\ UNCHANGED <<rows, data, inserting, taken, behind, astray, calls>>

Init ==
    /\ rows = <<>> /\ inserting = <<>> /\ shown = <<>>
    /\ data \in [Things -> Data]
    /\ taken = 0 /\ behind = {} /\ astray = FALSE /\ calls = 0

Row   == 0..MaxRows
Count == 1..MaxRows

Next ==
    \/ \E r \in Row, n \in Count :
        \/ InsertRows(r, n)
        \/ RemoveRows(r, n)
        \/ \E dest \in Row : MoveRows(r, n, dest)
    \/ \E r \in Row, t \in Things : Insert(t, r) \/ AssignAt(t, r)
    \/ \E t \in Things : Insert(t, -1)
    \/ \E r \in Row : Take(r) \/ Paint(r)
    \/ \E r \in Row, d \in Data : SetData(r, d)
    \/ \E t \in Things, d \in Data : PropertyChanged(t, d)
    \/ Assign

Spec == Init /\ [][Next]_vars

-----------------------------------------------------------------------------
(* Properties.                                                             *)

\* The types, and how many rows the view knows of: those of the model and
\* every row that was taken (take alone changes the rows without a word).
TypeOK ==
    /\ rows \in Seq(Pointer)
    /\ data \in [Things -> Data]
    /\ inserting \in Seq(Frame)
    /\ shown \in Seq(Picture \cup {Unread})
    /\ taken \in Nat /\ behind \subseteq Things /\ astray \in BOOLEAN /\ calls \in Nat
    /\ Len(shown) = Len(rows) + taken

\* What the view has read of a row is what is in it, with calls of slots in
\* the middle of insert and all, until a row that has been filled is replaced,
\* a row before the last is taken, or a block is moved other than up by a
\* divisor of its length; data may be old if they changed behind the model, or
\* in another row (insertRows, removeRows, moveRows, setData).
ViewTrue ==
    ~astray =>
        \A i \in DOMAIN rows :
            shown[i] # Unread =>
                /\ shown[i][1] = rows[i]
                /\ rows[i] \notin behind => shown[i][2] = data[rows[i]]

\* insert comes back from the slots to the row it had announced, which is still
\* there and Null, unless they changed that row or one before it.
InsertsOwnRow ==
    \A k \in DOMAIN inserting :
        LET f == inserting[k] IN ~f.disturbed => f.row < Len(rows) /\ rows[f.row + 1] = Null

\* moveRows neither loses nor duplicates a row, even if the ranges it swaps
\* overlap, for which std::swap_ranges promises nothing.
MoveKeepsRows ==
    [][\A r \in Row, n \in Count, dest \in Row :
        MoveRows(r, n, dest) =>
            \A p \in Pointer :
                Cardinality({i \in DOMAIN rows : rows[i] = p})
                    = Cardinality({i \in DOMAIN rows' : rows'[i] = p})]_vars

=============================================================================
