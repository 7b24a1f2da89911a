---------------------------- MODULE OrmLoadProofs ----------------------------
(***************************************************************************)
(* What select builds, for every schema and every content of the tables.   *)
(***************************************************************************)
EXTENDS OrmEngineProofs, FiniteSetTheorems, WellFoundedInduction

-----------------------------------------------------------------------------
(* Induction, rows in rowid order, and the recursive definitions.          *)

\* The least counterexample of an induction.
LEMMA LeastNumber ==
    ASSUME NEW T, T \subseteq Nat, T # {}
    PROVE  \E x \in T : \A y \in T : ~(y < x)
  <1>1. \E x \in T : \A y \in T : ~(<<y, x>> \in OpToRel(<, Nat))
        BY WFMin, NatLessThanWellFounded
  <1>2. PICK x \in T : \A y \in T : ~(<<y, x>> \in OpToRel(<, Nat))
        BY <1>1
  <1>3. \A y \in T : <<y, x>> \in Nat \X Nat
        OBVIOUS
  <1>4. \A y \in T : y < x => <<y, x>> \in OpToRel(<, Nat)
        BY <1>3 DEF OpToRel
  <1> QED BY <1>2, <1>4

\* ORDER BY rowid: every row, once, with growing rowids.
LEMMA RowsInOrder ==
    ASSUME NEW S, IsFiniteSet(S), \A r \in S : r.id \in Nat,
           \A r, q \in S : r.id = q.id => r = q
    PROVE  /\ Cardinality(S) \in Nat
           /\ ByRowid(S) \in [1..Cardinality(S) -> S]
           /\ \A r \in S : \E n \in 1..Cardinality(S) : ByRowid(S)[n] = r
           /\ \A m, n \in 1..Cardinality(S) : m < n => ByRowid(S)[m].id < ByRowid(S)[n].id
  <1> DEFINE below(r) == {q \in S : q.id <= r.id}
             rank == [r \in S |-> Cardinality(below(r))]
             N == Cardinality(S)
  <1>1. N \in Nat
        BY FS_CardinalityType
  <1>2. \A r \in S : below(r) \in SUBSET S /\ r \in below(r)
        OBVIOUS
  <1>3. \A r \in S : IsFiniteSet(below(r)) /\ Cardinality(below(r)) \in Nat
        BY <1>2, FS_Subset, FS_CardinalityType
  <1>4. \A r \in S : rank[r] \in 1..N
    <2> SUFFICES ASSUME NEW r \in S PROVE rank[r] \in 1..N
        OBVIOUS
    <2>1. Cardinality(below(r)) <= N
          BY <1>2, FS_Subset
    <2>2. Cardinality(below(r)) # 0
          BY <1>2, <1>3, FS_EmptySet
    <2> QED BY <1>1, <1>3, <2>1, <2>2
  <1>5. \A r, q \in S : r.id < q.id => rank[r] < rank[q]
    <2> SUFFICES ASSUME NEW r \in S, NEW q \in S, r.id < q.id PROVE rank[r] < rank[q]
        OBVIOUS
    <2>1. below(r) \in SUBSET below(q) /\ q \notin below(r) /\ q \in below(q)
          OBVIOUS
    <2>2. Cardinality(below(r)) <= Cardinality(below(q))
          BY <1>3, <2>1, FS_Subset
    <2>3. Cardinality(below(r)) # Cardinality(below(q))
          BY <1>3, <2>1, FS_Subset
    <2> HIDE DEF below
    <2> QED BY <1>3, <2>2, <2>3
  <1>6. rank \in Injection(S, 1..N)
    <2>1. rank \in [S -> 1..N]
          BY <1>4
    <2>2. ASSUME NEW r \in S, NEW q \in S, rank[r] = rank[q] PROVE r = q
      <3> HIDE DEF rank
      <3>1. rank[r] \in Nat /\ rank[q] \in Nat /\ r.id \in Nat /\ q.id \in Nat
            BY <1>1, <1>4
      <3>2. r.id = q.id
            BY <1>5, <2>2, <3>1
      <3> QED BY <3>2
    <2> HIDE DEF rank
    <2> QED BY <2>1, <2>2 DEF Injection, IsInjective
  <1>7. IsFiniteSet(1..N) /\ Cardinality(1..N) = N
        BY <1>1, FS_Interval
  <1>8. rank \in Surjection(S, 1..N)
        BY <1>6, <1>7, FS_Injection
  <1>9. \A n \in 1..N : \E r \in S : rank[r] = n
        BY <1>8 DEF Surjection
  <1>10. \A n \in 1..N : \E r \in S : Cardinality({q \in S : q.id <= r.id}) = n
         BY <1>9
  <1>11. \A n \in 1..N : ByRowid(S)[n] \in S /\ rank[ByRowid(S)[n]] = n
    <2> SUFFICES ASSUME NEW n \in 1..N
                 PROVE  ByRowid(S)[n] \in S /\ rank[ByRowid(S)[n]] = n
        OBVIOUS
    <2>1. ByRowid(S)[n] = CHOOSE r \in S : Cardinality({q \in S : q.id <= r.id}) = n
          BY DEF ByRowid
    <2>2. /\ ByRowid(S)[n] \in S
          /\ Cardinality({q \in S : q.id <= ByRowid(S)[n].id}) = n
          BY <1>10, <2>1
    <2> QED BY <2>2
  <1> HIDE DEF rank
  <1>12. ByRowid(S) \in [1..N -> S]
         BY <1>11 DEF ByRowid
  <1>13. ASSUME NEW r \in S PROVE \E n \in 1..N : ByRowid(S)[n] = r
    <2>1. rank[r] \in 1..N /\ rank[ByRowid(S)[rank[r]]] = rank[r] /\ ByRowid(S)[rank[r]] \in S
          BY <1>4, <1>11
    <2>2. ByRowid(S)[rank[r]] = r
          BY <2>1, <1>6 DEF Injection, IsInjective
    <2> QED BY <2>1, <2>2
  <1>14. ASSUME NEW m \in 1..N, NEW n \in 1..N, m < n
         PROVE  ByRowid(S)[m].id < ByRowid(S)[n].id
    <2> DEFINE r == ByRowid(S)[m]
               q == ByRowid(S)[n]
    <2>1. r \in S /\ q \in S /\ rank[r] = m /\ rank[q] = n
          BY <1>11
    <2> HIDE DEF r, q
    <2>2. r.id \in Nat /\ q.id \in Nat /\ m \in Nat /\ n \in Nat
          BY <1>1, <2>1
    <2>3. ~(q.id < r.id) /\ r.id # q.id
      <3>1. r.id # q.id
            BY <1>14, <2>1, <2>2
      <3>2. ~(q.id < r.id)
            BY <1>5, <1>14, <2>1, <2>2
      <3> QED BY <3>1, <3>2
    <2>4. r.id < q.id
          BY <2>2, <2>3
    <2> QED BY <2>4 DEF r, q
  <1> QED BY <1>1, <1>12, <1>13, <1>14

\* The recursive definitions are what their equations say.
HangsAll(g, N, o, subs) ==
    g = [n \in 0..N |-> IF n = 0 THEN o ELSE Hang(g[n - 1], subs[n])]

LEMMA GraftSteps ==
    ASSUME NEW o, NEW subs, Len(subs) \in Nat
    PROVE  \E g : HangsAll(g, Len(subs), o, subs) /\ Graft(o, subs) = g[Len(subs)]
  <1> DEFINE T == {N \in Nat : ~\E g : HangsAll(g, N, o, subs)}
  <1>1. T = {}
    <2> SUFFICES ASSUME T # {} PROVE FALSE
        OBVIOUS
    <2>1. PICK N \in T : \A M \in T : ~(M < N)
          BY LeastNumber
    <2>2. CASE N = 0
      <3>1. HangsAll([n \in 0..0 |-> o], 0, o, subs)
            BY DEF HangsAll
      <3> QED BY <2>2, <3>1
    <2>3. CASE N # 0
      <3>1. N - 1 \in Nat /\ N - 1 < N
            BY <2>3
      <3>2. PICK g : HangsAll(g, N - 1, o, subs)
            BY <2>1, <3>1
      <3> DEFINE h == [n \in 0..N |-> IF n = N THEN Hang(g[N - 1], subs[N]) ELSE g[n]]
      <3>3. \A n \in 0..(N - 1) : h[n] = g[n]
            OBVIOUS
      <3>4. \A n \in 0..(N - 1) : g[n] = IF n = 0 THEN o ELSE Hang(g[n - 1], subs[n])
            BY <3>2 DEF HangsAll
      <3>5. \A n \in 0..N : h[n] = IF n = 0 THEN o ELSE Hang(h[n - 1], subs[n])
        <4> SUFFICES ASSUME NEW n \in 0..N
                     PROVE  h[n] = IF n = 0 THEN o ELSE Hang(h[n - 1], subs[n])
            OBVIOUS
        <4>1. CASE n = N
          <5>1. h[n] = Hang(g[N - 1], subs[N]) /\ h[N - 1] = g[N - 1]
                BY <3>1, <3>3, <4>1
          <5> QED BY <2>3, <4>1, <5>1
        <4>2. CASE n # N
          <5>1. n \in 0..(N - 1) /\ (n # 0 => n - 1 \in 0..(N - 1))
                BY <4>2
          <5> QED BY <3>3, <3>4, <5>1
        <4> QED BY <4>1, <4>2
      <3>6. h = [n \in 0..N |-> h[n]]
            OBVIOUS
      <3> HIDE DEF h
      <3>7. HangsAll(h, N, o, subs)
            BY <3>5, <3>6 DEF HangsAll
      <3> QED BY <3>7
    <2> QED BY <2>2, <2>3
  <1>2. PICK g : HangsAll(g, Len(subs), o, subs)
        BY <1>1
  <1> DEFINE f == CHOOSE h : HangsAll(h, Len(subs), o, subs)
  <1>3. HangsAll(f, Len(subs), o, subs)
        BY <1>2
  <1>4. Graft(o, subs) = f[Len(subs)]
        BY DEF Graft, HangsAll
  <1> QED BY <1>3, <1>4

GraftsAll(a, N, node, parts) ==
    a = [k \in 0..N |-> IF k = 0 THEN <<node>> ELSE Graft(a[k - 1], parts[k])]

LEMMA AssembledSteps ==
    ASSUME NEW node, NEW parts, Len(parts) \in Nat
    PROVE  \E a : GraftsAll(a, Len(parts), node, parts) /\ Assembled(node, parts) = a[Len(parts)]
  <1> DEFINE T == {N \in Nat : ~\E a : GraftsAll(a, N, node, parts)}
  <1>1. T = {}
    <2> SUFFICES ASSUME T # {} PROVE FALSE
        OBVIOUS
    <2>1. PICK N \in T : \A M \in T : ~(M < N)
          BY LeastNumber
    <2>2. CASE N = 0
      <3>1. GraftsAll([k \in 0..0 |-> <<node>>], 0, node, parts)
            BY DEF GraftsAll
      <3> QED BY <2>2, <3>1
    <2>3. CASE N # 0
      <3>1. N - 1 \in Nat /\ N - 1 < N
            BY <2>3
      <3>2. PICK a : GraftsAll(a, N - 1, node, parts)
            BY <2>1, <3>1
      <3> DEFINE b == [k \in 0..N |-> IF k = N THEN Graft(a[N - 1], parts[N]) ELSE a[k]]
      <3>3. \A k \in 0..(N - 1) : b[k] = a[k]
            OBVIOUS
      <3>4. \A k \in 0..(N - 1) : a[k] = IF k = 0 THEN <<node>> ELSE Graft(a[k - 1], parts[k])
            BY <3>2 DEF GraftsAll
      <3>5. \A k \in 0..N : b[k] = IF k = 0 THEN <<node>> ELSE Graft(b[k - 1], parts[k])
        <4> SUFFICES ASSUME NEW k \in 0..N
                     PROVE  b[k] = IF k = 0 THEN <<node>> ELSE Graft(b[k - 1], parts[k])
            OBVIOUS
        <4>1. CASE k = N
          <5>1. b[k] = Graft(a[N - 1], parts[N]) /\ b[N - 1] = a[N - 1]
                BY <3>1, <3>3, <4>1
          <5> QED BY <2>3, <4>1, <5>1
        <4>2. CASE k # N
          <5>1. k \in 0..(N - 1) /\ (k # 0 => k - 1 \in 0..(N - 1))
                BY <4>2
          <5> QED BY <3>3, <3>4, <5>1
        <4> QED BY <4>1, <4>2
      <3>6. b = [k \in 0..N |-> b[k]]
            OBVIOUS
      <3> HIDE DEF b
      <3>7. GraftsAll(b, N, node, parts)
            BY <3>5, <3>6 DEF GraftsAll
      <3> QED BY <3>7
    <2> QED BY <2>2, <2>3
  <1>2. PICK a : GraftsAll(a, Len(parts), node, parts)
        BY <1>1
  <1> DEFINE f == CHOOSE b : GraftsAll(b, Len(parts), node, parts)
  <1>3. GraftsAll(f, Len(parts), node, parts)
        BY <1>2
  <1>4. Assembled(node, parts) = f[Len(parts)]
        BY DEF Assembled, GraftsAll
  <1> QED BY <1>3, <1>4

Parts(lost, L, e, r) ==
    [k \in Entries |-> IF Up[k] = e THEN Part(k, Taken(lost, k, r), L[k]) ELSE <<>>]
Entrywise(lost, L, e) ==
    [r \in db[e].rows \cup {NoRow} |-> Assembled(NodeOf(e, r), Parts(lost, L, e, r))]
LoadsFrom(L, m, lost) ==
    L = [e \in Entries |-> IF e > m THEN Entrywise(lost, L, e) ELSE <<>>]

\* The members of a value come from later entries.
LEMMA PartsFromLater ==
    ASSUME NEW lost, NEW L, NEW M, NEW e \in Entries,
           \A k \in Entries : k > e => L[k] = M[k]
    PROVE  Entrywise(lost, L, e) = Entrywise(lost, M, e)
  <1>1. \A k \in Entries : Up[k] = e => L[k] = M[k]
    <2> SUFFICES ASSUME NEW k \in Entries, Up[k] = e PROVE k > e
        OBVIOUS
    <2>1. k # 1
          BY SchemaAssumption DEF Entries
    <2> QED BY <2>1, SchemaAssumption DEF Entries
  <1>2. ASSUME NEW r PROVE Parts(lost, L, e, r) = Parts(lost, M, e, r)
    <2>1. \A k \in Entries :
             (IF Up[k] = e THEN Part(k, Taken(lost, k, r), L[k]) ELSE <<>>)
               = (IF Up[k] = e THEN Part(k, Taken(lost, k, r), M[k]) ELSE <<>>)
          BY <1>1
    <2> QED BY <2>1 DEF Parts
  <1> QED BY <1>2 DEF Entrywise

LEMMA LoadedSteps ==
    ASSUME NEW lost
    PROVE  \A e \in Entries : Loaded(lost)[e] = Entrywise(lost, Loaded(lost), e)
  <1> DEFINE N == Len(Up)
             T == {n \in 0..N : ~\E L : LoadsFrom(L, N - n, lost)}
  <1>1. N \in Nat /\ Entries = 1..N
        BY SchemaAssumption DEF Entries
  <1> HIDE DEF N
  <1>2. T = {}
    <2> SUFFICES ASSUME T # {} PROVE FALSE
        OBVIOUS
    <2>1. PICK n \in T : \A m \in T : ~(m < n)
      <3>1. T \subseteq Nat
            BY <1>1
      <3> HIDE DEF T
      <3> QED BY <3>1, LeastNumber
    <2>2. CASE n = 0
      <3>1. \A e \in Entries : ~(e > N)
            BY <1>1
      <3>2. LoadsFrom([e \in Entries |-> <<>>], N - n, lost)
            BY <1>1, <2>2, <3>1 DEF LoadsFrom
      <3> QED BY <3>2
    <2>3. CASE n # 0
      <3>1. n - 1 \in 0..N /\ n - 1 < n
            BY <1>1, <2>3
      <3>2. PICK L : LoadsFrom(L, N - (n - 1), lost)
            BY <2>1, <3>1
      <3> DEFINE x == N - (n - 1)
                 M == [e \in Entries |-> IF e = x THEN Entrywise(lost, L, x) ELSE L[e]]
      <3>3. x \in Entries /\ N - n = x - 1
            BY <1>1, <2>3
      <3>4. \A e \in Entries : L[e] = IF e > x THEN Entrywise(lost, L, e) ELSE <<>>
            BY <3>2 DEF LoadsFrom
      <3> HIDE DEF x
      <3>5. \A e \in Entries : e > x => M[e] = L[e]
            BY <1>1, <3>3
      <3>6. \A e \in Entries : M[e] = IF e > x - 1 THEN Entrywise(lost, M, e) ELSE <<>>
        <4> SUFFICES ASSUME NEW e \in Entries
                     PROVE  M[e] = IF e > x - 1 THEN Entrywise(lost, M, e) ELSE <<>>
            OBVIOUS
        <4>1. e \in Int /\ x \in Int
              BY <1>1, <3>3
        <4>2. e >= x => Entrywise(lost, M, e) = Entrywise(lost, L, e)
          <5>1. e >= x => \A k \in Entries : k > e => M[k] = L[k]
                BY <1>1, <3>5, <4>1
          <5> HIDE DEF M
          <5> QED BY <5>1, PartsFromLater
        <4>3. M[e] = IF e = x THEN Entrywise(lost, L, x) ELSE L[e]
              OBVIOUS
        <4> HIDE DEF M
        <4> QED BY <3>4, <4>1, <4>2, <4>3
      <3>7. M = [e \in Entries |-> M[e]]
            OBVIOUS
      <3> HIDE DEF M
      <3>8. LoadsFrom(M, N - n, lost)
            BY <3>3, <3>6, <3>7 DEF LoadsFrom
      <3> QED BY <3>8
    <2> QED BY <2>2, <2>3
  <1>3. PICK L : LoadsFrom(L, 0, lost)
    <2>1. N \in 0..N /\ N - N = 0
          BY <1>1
    <2>2. ASSUME ~\E L : LoadsFrom(L, N - N, lost) PROVE FALSE
      <3>1. N \in T
            BY <2>1, <2>2
      <3> QED BY <1>2, <3>1
    <2> QED BY <2>1, <2>2
  <1> DEFINE Solves(M) ==
         M = [e \in Entries |->
                [r \in db[e].rows \cup {NoRow} |->
                   Assembled(NodeOf(e, r),
                             [k \in Entries |-> IF Up[k] = e THEN Part(k, Taken(lost, k, r), M[k])
                                                ELSE <<>>])]]
  <1>4. ASSUME NEW M PROVE Solves(M) <=> M = [e \in Entries |-> Entrywise(lost, M, e)]
        BY DEF Entrywise, Parts
  <1>5. Solves(L)
    <2>1. \A e \in Entries : e > 0
          BY <1>1
    <2>2. L = [e \in Entries |-> Entrywise(lost, L, e)]
          BY <1>3, <2>1 DEF LoadsFrom
    <2> HIDE DEF Solves
    <2> QED BY <1>4, <2>2
  <1>6. Loaded(lost) = CHOOSE M : Solves(M)
        BY DEF Loaded
  <1> HIDE DEF Solves
  <1>7. Solves(Loaded(lost))
        BY <1>5, <1>6
  <1>8. Loaded(lost) = [e \in Entries |-> Entrywise(lost, Loaded(lost), e)]
        BY <1>4, <1>7
  <1> QED BY <1>8

-----------------------------------------------------------------------------
(* The rows a value is made of.                                            *)

\* A row is told from the values that come from none.
LEMMA RowIsSome == \A r \in Row : r # NoRow
  <1> SUFFICES ASSUME NEW r \in Row, r = NoRow PROVE FALSE
      OBVIOUS
  <1>1. "pid" \in DOMAIN r
        BY DEF Row
  <1>2. "pid" \notin DOMAIN NoRow
        BY DEF NoRow
  <1> QED BY <1>1, <1>2

LEMMA RowsFinite ==
    ASSUME DbOK, NEW k \in Entries
    PROVE  /\ IsFiniteSet(db[k].rows) /\ db[k].rows \subseteq Row
           /\ \A r \in db[k].rows : r.id \in 0..MaxRowid
           /\ \A r, q \in db[k].rows : r.id = q.id => r = q
  <1>1. db[k].rows \subseteq Row /\ \A r, q \in db[k].rows : r.id = q.id => r = q
        BY DEF DbOK, Table
  <1>2. \A r \in db[k].rows : r.id \in 0..MaxRowid
        BY <1>1 DEF Row
  <1> DEFINE f == [r \in db[k].rows |-> r.id]
  <1>3. f \in Injection(db[k].rows, 0..MaxRowid)
        BY <1>1, <1>2 DEF Injection, IsInjective
  <1>4. IsFiniteSet(0..MaxRowid)
        BY BoundAssumption, FS_Interval
  <1> QED BY <1>1, <1>2, <1>3, <1>4, FS_Injection

\* What the members of class k of the value made from row r are made from.
Sources(lost, k, r) ==
    IF Taken(lost, k, r) = <<>> /\ Kind[k] = "one" THEN <<NoRow>> ELSE Taken(lost, k, r)

SourceOf(k) == db[k].rows \cup {NoRow}

LEMMA TakenRows ==
    ASSUME DbOK, NEW lost, NEW k \in Entries, NEW r
    PROVE  LET xs == Taken(lost, k, r) IN
           /\ Len(xs) \in Nat /\ DOMAIN xs = 1..Len(xs)
           /\ \A m \in DOMAIN xs : r # NoRow /\ xs[m] \in Children(k, r)
           /\ \A m, n \in DOMAIN xs : m < n => Kind[k] = "many" /\ xs[m].id < xs[n].id
           /\ xs = <<>> <=> Len(xs) = 0
           /\ r # NoRow /\ lost = {} /\ Children(k, r) # {} => Len(xs) > 0
           /\ r # NoRow /\ lost = {} /\ Kind[k] = "many" =>
                 \A x \in Children(k, r) : \E m \in DOMAIN xs : xs[m] = x
  <1> DEFINE S == Children(k, r)
             xs == Taken(lost, k, r)
             N == Cardinality(S)
  <1>1. S \subseteq db[k].rows
        BY DEF Children
  <1>2. IsFiniteSet(S) /\ \A x \in S : x.id \in Nat
    <2>1. S \in SUBSET db[k].rows
          BY <1>1
    <2>2. IsFiniteSet(S)
          BY <2>1, RowsFinite, FS_Subset
    <2> QED BY <1>1, <2>2, RowsFinite, BoundAssumption
  <1>3. \A x, y \in S : x.id = y.id => x = y
        BY <1>1, RowsFinite
  <1>4. /\ N \in Nat /\ ByRowid(S) \in [1..N -> S]
        /\ \A x \in S : \E n \in 1..N : ByRowid(S)[n] = x
        /\ \A m, n \in 1..N : m < n => ByRowid(S)[m].id < ByRowid(S)[n].id
    <2> HIDE DEF S
    <2> QED BY <1>2, <1>3, RowsInOrder
  <1>5. CASE r = NoRow \/ <<k, r>> \in lost \/ S = {}
    <2>1. xs = <<>>
          BY <1>5 DEF Taken
    <2>2. ~(r # NoRow /\ lost = {} /\ S # {})
          BY <1>5
    <2> HIDE DEF xs, S
    <2> QED BY <2>1, <2>2 DEF S, xs
  <1>6. CASE r # NoRow /\ <<k, r>> \notin lost /\ S # {} /\ Kind[k] = "many"
    <2>1. xs = ByRowid(S)
          BY <1>6 DEF Taken
    <2>2. N # 0
          BY <1>4, <1>6
    <2> HIDE DEF xs, S
    <2>3. DOMAIN ByRowid(S) = 1..N /\ Len(ByRowid(S)) = N
          BY <1>4
    <2>4. ByRowid(S) # <<>>
          BY <2>2, <2>3, <1>4
    <2> QED BY <1>4, <1>6, <2>1, <2>2, <2>3, <2>4 DEF S, xs
  <1>7. CASE r # NoRow /\ <<k, r>> \notin lost /\ S # {} /\ Kind[k] # "many"
    <2>1. xs = <<ByRowid(S)[1]>>
          BY <1>7 DEF Taken
    <2>2. N # 0
          BY <1>4, <1>7
    <2>3. ByRowid(S)[1] \in S
          BY <1>4, <2>2
    <2> HIDE DEF xs, S
    <2> QED BY <1>7, <2>1, <2>3 DEF S, xs
  <1> QED BY <1>5, <1>6, <1>7

MadeFrom(lost, k, r, xs) ==
    /\ Len(xs) \in Nat /\ DOMAIN xs = 1..Len(xs)
    /\ \A m \in DOMAIN xs : /\ xs[m] \in SourceOf(k)
                            /\ xs[m] # NoRow => r # NoRow /\ xs[m] \in Children(k, r)
    /\ \A m, n \in DOMAIN xs : m < n => Kind[k] = "many" /\ xs[m].id < xs[n].id
    /\ Kind[k] = "one" => 1 \in DOMAIN xs
    /\ r # NoRow /\ lost = {} /\ Children(k, r) # {} =>
          1 \in DOMAIN xs /\ \A m \in DOMAIN xs : xs[m] \in Children(k, r)
    /\ r # NoRow /\ lost = {} /\ Kind[k] = "many" =>
          \A x \in Children(k, r) : \E m \in DOMAIN xs : xs[m] = x

LEMMA SourcesRows ==
    ASSUME DbOK, NEW lost, NEW k \in Entries, NEW r
    PROVE  MadeFrom(lost, k, r, Sources(lost, k, r))
  <1> DEFINE ts == Taken(lost, k, r)
             xs == Sources(lost, k, r)
  <1>1. /\ Len(ts) \in Nat /\ DOMAIN ts = 1..Len(ts)
        /\ \A m \in DOMAIN ts : r # NoRow /\ ts[m] \in Children(k, r)
        /\ \A m, n \in DOMAIN ts : m < n => Kind[k] = "many" /\ ts[m].id < ts[n].id
        /\ ts = <<>> <=> Len(ts) = 0
        /\ r # NoRow /\ lost = {} /\ Children(k, r) # {} => Len(ts) > 0
        /\ r # NoRow /\ lost = {} /\ Kind[k] = "many" =>
              \A x \in Children(k, r) : \E m \in DOMAIN ts : ts[m] = x
        BY TakenRows
  <1>2. Children(k, r) \subseteq SourceOf(k)
        BY DEF Children, SourceOf
  <1>3. CASE ts = <<>> /\ Kind[k] = "one"
    <2>1. xs = <<NoRow>>
          BY <1>3 DEF Sources
    <2>2. NoRow \in SourceOf(k)
          BY DEF SourceOf
    <2>3. ~(r # NoRow /\ lost = {} /\ Children(k, r) # {})
          BY <1>1, <1>3
    <2> HIDE DEF ts, xs
    <2> QED BY <1>3, <2>1, <2>2, <2>3 DEF ts, xs, MadeFrom
  <1>4. CASE ~(ts = <<>> /\ Kind[k] = "one")
    <2>1. xs = ts
          BY <1>4 DEF Sources
    <2> HIDE DEF ts, xs
    <2> QED BY <1>1, <1>2, <1>4, <2>1 DEF ts, xs, MadeFrom
  <1> QED BY <1>3, <1>4

LEMMA PartMade ==
    ASSUME DbOK, NEW lost, NEW k \in Entries, NEW r, NEW made
    PROVE  /\ Len(Part(k, Taken(lost, k, r), made)) = Len(Sources(lost, k, r))
           /\ \A m \in DOMAIN Sources(lost, k, r) :
                 Part(k, Taken(lost, k, r), made)[m] = made[Sources(lost, k, r)[m]]
  <1> DEFINE ts == Taken(lost, k, r)
             xs == Sources(lost, k, r)
             p  == Part(k, ts, made)
  <1>1. CASE ts = <<>> /\ Kind[k] = "one"
    <2>1. xs = <<NoRow>> /\ p = <<made[NoRow]>>
          BY <1>1 DEF Sources, Part
    <2> HIDE DEF ts, xs, p
    <2> QED BY <2>1 DEF ts, xs, p
  <1>2. CASE ~(ts = <<>> /\ Kind[k] = "one")
    <2>1. xs = ts /\ p = [x \in DOMAIN ts |-> made[ts[x]]]
          BY <1>2 DEF Sources, Part
    <2>2. Len(ts) \in Nat /\ DOMAIN ts = 1..Len(ts)
          BY TakenRows
    <2> HIDE DEF ts, xs, p
    <2> QED BY <2>1, <2>2 DEF ts, xs, p
  <1> QED BY <1>1, <1>2

-----------------------------------------------------------------------------
(* An object and the rows it is made from.                                 *)

AnyRow == Row \cup {NoRow}

\* Node by node, src says which row is in o.
Mirrors(o, src) ==
    /\ o \in Seq(Node) /\ src \in Seq(AnyRow) /\ Len(src) = Len(o) /\ Len(o) > 0
    /\ \A i \in DOMAIN o :
          /\ src[i] \in SourceOf(o[i].e)
          /\ o[i].id = IF Keyed[o[i].e] THEN src[i].id ELSE 0
          /\ o[i].val = src[i].val /\ o[i].tok = src[i].tok

\* The tree of a value of class e made from row r: owners before members,
\* members in the order of the entries, those of a container in rowid order.
Shaped(o, src, e, r) ==
    /\ o[1].e = e /\ o[1].up = 0 /\ src[1] = r
    /\ \A i \in DOMAIN o \ {1} : o[i].up \in 1..(i - 1) /\ Up[o[i].e] = o[o[i].up].e
    /\ \A i, j \in DOMAIN o : o[j].up < i /\ i < j => o[i].up >= o[j].up
    /\ \A i, j \in DOMAIN o : i < j /\ o[i].up = o[j].up =>
          o[i].e <= o[j].e /\ (o[i].e = o[j].e => Kind[o[i].e] = "many" /\ src[i].id < src[j].id)

\* The members of node i are those its row has.
Nested(lost, o, src, i) ==
    /\ \A j \in DOMAIN o : o[j].up = i =>
          \E m \in DOMAIN Sources(lost, o[j].e, src[i]) : src[j] = Sources(lost, o[j].e, src[i])[m]
    /\ \A k \in Entries : Up[k] = o[i].e =>
          \A m \in DOMAIN Sources(lost, k, src[i]) :
             \E j \in DOMAIN o : o[j].up = i /\ o[j].e = k /\ src[j] = Sources(lost, k, src[i])[m]

Grown(lost, o, src, e, r) ==
    Mirrors(o, src) /\ Shaped(o, src, e, r) /\ \A i \in DOMAIN o \ {1} : Nested(lost, o, src, i)

Faithful(lost, o, src, e, r) == Grown(lost, o, src, e, r) /\ Nested(lost, o, src, 1)

\* Where the nodes of a value and of its new member are.
SideBySide(o, so, s, ss, h, sh, n, m) ==
    /\ n \in Nat /\ m \in Nat /\ DOMAIN o = 1..n /\ DOMAIN s = 1..m
    /\ h \in Seq(Node) /\ Len(h) = n + m /\ DOMAIN h = 1..(n + m)
    /\ sh \in Seq(AnyRow) /\ Len(sh) = n + m
    /\ \A i \in 1..n : h[i] = o[i] /\ sh[i] = so[i]
    /\ \A j \in 1..m : /\ h[n + j].up = IF j = 1 THEN 1 ELSE s[j].up + n
                       /\ h[n + j].e = s[j].e /\ h[n + j].id = s[j].id
                       /\ h[n + j].val = s[j].val /\ h[n + j].tok = s[j].tok
                       /\ sh[n + j] = ss[j]

LEMMA HangNodes ==
    ASSUME NEW o \in Seq(Node), NEW s \in Seq(Node), NEW so \in Seq(AnyRow), NEW ss \in Seq(AnyRow),
           Len(so) = Len(o), Len(ss) = Len(s),
           NEW h, h = Hang(o, s), NEW sh, sh = so \o ss, NEW n, n = Len(o), NEW m, m = Len(s)
    PROVE  SideBySide(o, so, s, ss, h, sh, n, m)
  <1> DEFINE t == [j \in DOMAIN s |-> [s[j] EXCEPT !.up = IF j = 1 THEN 1 ELSE @ + Len(o)]]
  <1>1. n \in Nat /\ m \in Nat /\ DOMAIN o = 1..n /\ DOMAIN s = 1..m
        OBVIOUS
  <1>2. ASSUME NEW j \in 1..m
        PROVE  /\ t[j] \in Node /\ t[j].up = IF j = 1 THEN 1 ELSE s[j].up + n
               /\ t[j].e = s[j].e /\ t[j].id = s[j].id /\ t[j].val = s[j].val /\ t[j].tok = s[j].tok
    <2>1. s[j] \in Node /\ t[j] = [s[j] EXCEPT !.up = IF j = 1 THEN 1 ELSE s[j].up + n]
          BY <1>1
    <2>2. (IF j = 1 THEN 1 ELSE s[j].up + n) \in Nat
          BY <1>1, <2>1 DEF Node
    <2> HIDE DEF t
    <2> QED BY <2>1, <2>2 DEF Node
  <1>3. t = [j \in 1..m |-> t[j]]
        BY <1>1
  <1> HIDE DEF t
  <1>4. t \in Seq(Node) /\ Len(t) = m
        BY <1>1, <1>2, <1>3
  <1>5. h = o \o t
        BY DEF Hang, t
  <1>6. h \in Seq(Node) /\ Len(h) = n + m /\ DOMAIN h = 1..(n + m)
        /\ \A i \in 1..(n + m) : h[i] = IF i <= n THEN o[i] ELSE t[i - n]
    <2>1. /\ o \o t \in Seq(Node) /\ Len(o \o t) = Len(o) + Len(t)
          /\ \A i \in 1..Len(o) + Len(t) : (o \o t)[i] = IF i <= Len(o) THEN o[i] ELSE t[i - Len(o)]
          BY <1>4, ConcatProperties
    <2> QED BY <1>1, <1>4, <1>5, <2>1
  <1>7. sh \in Seq(AnyRow) /\ Len(sh) = n + m
        /\ \A i \in 1..(n + m) : sh[i] = IF i <= n THEN so[i] ELSE ss[i - n]
    <2>1. /\ so \o ss \in Seq(AnyRow) /\ Len(so \o ss) = Len(so) + Len(ss)
          /\ \A i \in 1..Len(so) + Len(ss) :
                (so \o ss)[i] = IF i <= Len(so) THEN so[i] ELSE ss[i - Len(so)]
          BY ConcatProperties
    <2> QED BY <1>1, <2>1
  <1>8. \A i \in 1..n : h[i] = o[i] /\ sh[i] = so[i]
        BY <1>1, <1>6, <1>7
  <1>9. \A j \in 1..m : h[n + j] = t[j] /\ sh[n + j] = ss[j]
    <2> SUFFICES ASSUME NEW j \in 1..m PROVE h[n + j] = t[j] /\ sh[n + j] = ss[j]
        OBVIOUS
    <2>1. n + j \in 1..(n + m) /\ ~(n + j <= n) /\ (n + j) - n = j
          BY <1>1
    <2> QED BY <1>6, <1>7, <2>1
  <1>10. \A j \in 1..m : /\ h[n + j].up = IF j = 1 THEN 1 ELSE s[j].up + n
                         /\ h[n + j].e = s[j].e /\ h[n + j].id = s[j].id
                         /\ h[n + j].val = s[j].val /\ h[n + j].tok = s[j].tok
                         /\ sh[n + j] = ss[j]
    <2> SUFFICES ASSUME NEW j \in 1..m
                 PROVE  /\ h[n + j].up = IF j = 1 THEN 1 ELSE s[j].up + n
                        /\ h[n + j].e = s[j].e /\ h[n + j].id = s[j].id
                        /\ h[n + j].val = s[j].val /\ h[n + j].tok = s[j].tok
                        /\ sh[n + j] = ss[j]
        OBVIOUS
    <2>1. h[n + j] = t[j] /\ sh[n + j] = ss[j]
          BY ONLY <1>9, j \in 1..m
    <2>2. /\ t[j].up = IF j = 1 THEN 1 ELSE s[j].up + n
          /\ t[j].e = s[j].e /\ t[j].id = s[j].id /\ t[j].val = s[j].val /\ t[j].tok = s[j].tok
          BY ONLY <1>2, j \in 1..m
    <2> QED BY ONLY <2>1, <2>2
  <1>11. /\ h \in Seq(Node) /\ Len(h) = n + m /\ DOMAIN h = 1..(n + m)
         /\ sh \in Seq(AnyRow) /\ Len(sh) = n + m
         BY <1>6, <1>7
  <1> QED BY ONLY <1>1, <1>8, <1>10, <1>11 DEF SideBySide

\* A member of class k made from row x comes after the members o has.
RoomFor(o, so, k, x) ==
    \A j \in DOMAIN o : o[j].up = 1 =>
       o[j].e <= k /\ (o[j].e = k => Kind[k] = "many" /\ so[j].id < x.id)

\* It is the only new member of the root.
HungBehind(o, so, h, sh, k, x, n) ==
    /\ n \in Nat /\ n + 1 \in DOMAIN h
    /\ \A j \in DOMAIN o : j \in DOMAIN h /\ h[j] = o[j] /\ sh[j] = so[j]
    /\ h[n + 1].up = 1 /\ h[n + 1].e = k /\ sh[n + 1] = x
    /\ \A j \in DOMAIN h : h[j].up = 1 => j \in DOMAIN o \/ j = n + 1

\* A finished member becomes the next member of a growing value.
LEMMA HangGrows ==
    ASSUME NEW lost, NEW o, NEW so, NEW e, NEW r, NEW s, NEW ss, NEW k, NEW x,
           Grown(lost, o, so, e, r), Faithful(lost, s, ss, k, x), Up[k] = e,
           RoomFor(o, so, k, x),
           NEW h, h = Hang(o, s), NEW sh, sh = so \o ss, NEW n, n = Len(o)
    PROVE  Grown(lost, h, sh, e, r) /\ HungBehind(o, so, h, sh, k, x, n)
  <1> DEFINE m == Len(s)
  <1>1. /\ Mirrors(o, so) /\ Shaped(o, so, e, r) /\ Mirrors(s, ss) /\ Shaped(s, ss, k, x)
        /\ \A i \in DOMAIN o \ {1} : Nested(lost, o, so, i)
        /\ \A i \in DOMAIN s : Nested(lost, s, ss, i)
        BY DEF Grown, Faithful
  <1>typed. /\ o \in Seq(Node) /\ s \in Seq(Node) /\ so \in Seq(AnyRow) /\ ss \in Seq(AnyRow)
            /\ Len(so) = Len(o) /\ Len(ss) = Len(s) /\ Len(o) > 0 /\ Len(s) > 0
            BY <1>1 DEF Mirrors
  <1>nodes. SideBySide(o, so, s, ss, h, sh, n, m)
    <2>1. h = Hang(o, s) /\ sh = so \o ss /\ n = Len(o) /\ m = Len(s)
          OBVIOUS
    <2> HIDE DEF m
    <2> QED BY <1>typed, <2>1, HangNodes
  <1>2. /\ n \in Nat \ {0} /\ m \in Nat \ {0} /\ DOMAIN o = 1..n /\ DOMAIN s = 1..m
        /\ h \in Seq(Node) /\ Len(h) = n + m /\ DOMAIN h = 1..(n + m)
        /\ sh \in Seq(AnyRow) /\ Len(sh) = n + m
    <2> QED BY <1>nodes, <1>typed DEF SideBySide
  <1>3. /\ \A i \in 1..n : h[i] = o[i] /\ sh[i] = so[i]
        /\ \A j \in 1..m : /\ h[n + j].up = IF j = 1 THEN 1 ELSE s[j].up + n
                           /\ h[n + j].e = s[j].e /\ h[n + j].id = s[j].id
                           /\ h[n + j].val = s[j].val /\ h[n + j].tok = s[j].tok
                           /\ sh[n + j] = ss[j]
    <2> QED BY <1>nodes DEF SideBySide
  <1>4. /\ o[1].up = 0 /\ o[1].e = e /\ so[1] = r /\ s[1].up = 0 /\ s[1].e = k /\ ss[1] = x
        /\ \A i \in 2..n : o[i].up \in 1..(i - 1) /\ Up[o[i].e] = o[o[i].up].e
        /\ \A j \in 2..m : s[j].up \in 1..(j - 1) /\ Up[s[j].e] = s[s[j].up].e
    <2>1. \A i \in 2..n : i \in DOMAIN o \ {1}
          BY <1>2
    <2>2. \A j \in 2..m : j \in DOMAIN s \ {1}
          BY <1>2
    <2> QED BY <1>1, <2>1, <2>2 DEF Shaped
  <1> HIDE DEF m
  <1>5. \A i \in 1..(n + m) : i \in 1..n \/ \E j \in 1..m : i = n + j
    <2> SUFFICES ASSUME NEW i \in 1..(n + m), i \notin 1..n PROVE i - n \in 1..m /\ i = n + (i - n)
        OBVIOUS
    <2> QED BY <1>2
  <1>6. /\ h[n + 1].up = 1 /\ h[n + 1].e = k /\ sh[n + 1] = x /\ n + 1 \in DOMAIN h
        /\ \A i \in 1..n : h[i].up \in Nat /\ h[i].up < i
        /\ \A j \in 2..m : h[n + j].up = s[j].up + n /\ h[n + j].up \in (n + 1)..(n + j - 1)
    <2>1. 1 \in 1..m /\ n + 1 \in DOMAIN h
          BY <1>2
    <2>2. h[n + 1].up = 1 /\ h[n + 1].e = k /\ sh[n + 1] = x
          BY <1>3, <1>4, <2>1
    <2>3. ASSUME NEW i \in 1..n PROVE h[i].up \in Nat /\ h[i].up < i
      <3>1. h[i] = o[i] /\ i \in Nat
            BY <1>2, <1>3
      <3>2. CASE i = 1
            BY <1>4, <3>1, <3>2
      <3>3. CASE i # 1
        <4>1. o[i].up \in 1..(i - 1)
              BY <1>2, <1>4, <3>3
        <4> QED BY <3>1, <4>1
      <3> QED BY <3>2, <3>3
    <2>4. ASSUME NEW j \in 2..m
          PROVE  h[n + j].up = s[j].up + n /\ h[n + j].up \in (n + 1)..(n + j - 1)
      <3>1. h[n + j].up = s[j].up + n
            BY <1>2, <1>3
      <3>2. s[j].up \in 1..(j - 1)
            BY <1>4
      <3> QED BY <1>2, <3>1, <3>2
    <2> QED BY <2>1, <2>2, <2>3, <2>4
  <1>os. /\ \A i, j \in 1..n : o[j].up < i /\ i < j => o[i].up >= o[j].up
         /\ \A i, j \in 1..n : i < j /\ o[i].up = o[j].up =>
               /\ o[i].e <= o[j].e
               /\ o[i].e = o[j].e => Kind[o[i].e] = "many" /\ so[i].id < so[j].id
    <2>1. DOMAIN o = 1..n
          BY <1>2
    <2>2. Shaped(o, so, e, r)
          BY <1>1
    <2> QED BY ONLY <2>1, <2>2 DEF Shaped
  <1>ss. /\ \A i, j \in 1..m : s[j].up < i /\ i < j => s[i].up >= s[j].up
         /\ \A i, j \in 1..m : i < j /\ s[i].up = s[j].up =>
               /\ s[i].e <= s[j].e
               /\ s[i].e = s[j].e => Kind[s[i].e] = "many" /\ ss[i].id < ss[j].id
    <2>1. DOMAIN s = 1..m
          BY <1>2
    <2>2. Shaped(s, ss, k, x)
          BY <1>1
    <2> QED BY ONLY <2>1, <2>2 DEF Shaped
  <1>places. \A i \in DOMAIN h : i \in 1..n \/ i = n + 1 \/ \E j \in 2..m : i = n + j
    <2> SUFFICES ASSUME NEW i \in DOMAIN h, i \notin 1..n, i # n + 1
                 PROVE  i - n \in 2..m /\ i = n + (i - n)
        OBVIOUS
    <2> QED BY <1>2
  <1>ups. \A j \in 2..m : /\ s[j].up \in Nat /\ s[j].up >= 1 /\ s[j].up < j
                         /\ h[n + j].up = s[j].up + n
    <2> SUFFICES ASSUME NEW j \in 2..m
                 PROVE  s[j].up \in Nat /\ s[j].up >= 1 /\ s[j].up < j
        BY <1>6
    <2> QED BY <1>2, <1>4
  <1>7. Mirrors(h, sh)
    <2> SUFFICES ASSUME NEW i \in DOMAIN h
                 PROVE  /\ sh[i] \in SourceOf(h[i].e)
                        /\ h[i].id = IF Keyed[h[i].e] THEN sh[i].id ELSE 0
                        /\ h[i].val = sh[i].val /\ h[i].tok = sh[i].tok
        BY <1>2 DEF Mirrors
    <2>1. CASE i \in 1..n
      <3>1. i \in DOMAIN o /\ h[i] = o[i] /\ sh[i] = so[i]
            BY <1>2, <1>3, <2>1
      <3> QED BY <1>1, <3>1 DEF Mirrors
    <2>2. ASSUME NEW j \in 1..m, i = n + j
          PROVE  /\ sh[i] \in SourceOf(h[i].e)
                 /\ h[i].id = IF Keyed[h[i].e] THEN sh[i].id ELSE 0
                 /\ h[i].val = sh[i].val /\ h[i].tok = sh[i].tok
      <3>1. j \in DOMAIN s
            BY <1>2
      <3>2. /\ ss[j] \in SourceOf(s[j].e)
            /\ s[j].id = IF Keyed[s[j].e] THEN ss[j].id ELSE 0
            /\ s[j].val = ss[j].val /\ s[j].tok = ss[j].tok
            BY <1>1, <3>1 DEF Mirrors
      <3>3. /\ h[i].e = s[j].e /\ h[i].id = s[j].id /\ h[i].val = s[j].val
            /\ h[i].tok = s[j].tok /\ sh[i] = ss[j]
            BY <1>3, <2>2
      <3> QED BY ONLY <3>2, <3>3
    <2> QED BY <1>2, <1>5, <2>1, <2>2
  <1>8. \A i \in DOMAIN h \ {1} : h[i].up \in 1..(i - 1) /\ Up[h[i].e] = h[h[i].up].e
    <2> SUFFICES ASSUME NEW i \in DOMAIN h \ {1}
                 PROVE  h[i].up \in 1..(i - 1) /\ Up[h[i].e] = h[h[i].up].e
        OBVIOUS
    <2>1. CASE i \in 1..n
      <3>1. i \in 2..n
            BY <1>2, <2>1
      <3>2. o[i].up \in 1..(i - 1) /\ Up[o[i].e] = o[o[i].up].e
            BY <1>4, <3>1
      <3>3. o[i].up \in 1..n /\ h[i] = o[i]
            BY <1>2, <1>3, <2>1, <3>2
      <3> QED BY <1>3, <3>2, <3>3
    <2>2. CASE i = n + 1
          BY <1>2, <1>3, <1>4, <1>6, <2>2
    <2>3. ASSUME NEW j \in 2..m, i = n + j
          PROVE  h[i].up \in 1..(i - 1) /\ Up[h[i].e] = h[h[i].up].e
      <3>1. s[j].up \in 1..m /\ j \in 1..m
            BY <1>2, <1>4
      <3>2. h[i].up = n + s[j].up /\ h[i].e = s[j].e /\ h[n + s[j].up].e = s[s[j].up].e
        <4>1. h[n + j].up = s[j].up + n /\ s[j].up \in Nat
              BY <1>ups
        <4>2. h[n + j].e = s[j].e /\ h[n + s[j].up].e = s[s[j].up].e
              BY <1>3, <3>1
        <4> QED BY <1>2, <2>3, <4>1, <4>2
      <3>3. Up[s[j].e] = s[s[j].up].e
            BY <1>4, <2>3
      <3>4. h[i].up \in 1..(i - 1)
        <4>1. s[j].up \in Nat /\ s[j].up >= 1 /\ s[j].up < j /\ h[i].up = s[j].up + n
              BY <1>ups, <2>3
        <4> QED BY <1>2, <2>3, <4>1
      <3>5. h[i].up = n + s[j].up /\ Up[h[i].e] = h[n + s[j].up].e
            BY <3>2, <3>3
      <3> QED BY <3>4, <3>5
    <2> QED BY <1>places, <2>1, <2>2, <2>3
  <1>9. ASSUME NEW i \in DOMAIN h, NEW j \in DOMAIN h, h[j].up < i, i < j
        PROVE  h[i].up >= h[j].up
    <2>1. CASE j \in 1..n
      <3>1. i \in 1..n
            BY <1>2, <1>9, <2>1
      <3>2. h[i] = o[i] /\ h[j] = o[j]
            BY <1>3, <2>1, <3>1
      <3>3. o[j].up < i
            BY <1>9, <3>2
      <3>4. o[i].up >= o[j].up
            BY ONLY <1>9, <1>os, <2>1, <3>1, <3>3
      <3> QED BY ONLY <3>2, <3>4
    <2>2. CASE j = n + 1
      <3>1. i \in 2..n /\ h[j].up = 1
            BY <1>2, <1>6, <1>9, <2>2
      <3>2. h[i] = o[i]
            BY <1>3, <3>1
      <3>3. o[i].up \in 1..(i - 1)
            BY <1>4, <3>1
      <3> QED BY <3>1, <3>2, <3>3
    <2>3. ASSUME NEW b \in 2..m, j = n + b PROVE h[i].up >= h[j].up
      <3>0. h[j].up = s[b].up + n /\ s[b].up \in Nat /\ s[b].up >= 1
            BY <1>ups, <2>3
      <3>1. PICK a \in 2..m : i = n + a
        <4>1. i \in Int /\ i > n + 1
              BY <1>2, <1>9, <3>0
        <4>2. i \notin 1..n /\ i # n + 1
              BY <1>2, <4>1
        <4> QED BY <1>places, <4>2
      <3>2. a < b /\ s[b].up < a
            BY <1>2, <1>9, <2>3, <3>0, <3>1
      <3>5. a \in 1..m /\ b \in 1..m
            BY <1>2, <2>3, <3>1
      <3>3. s[a].up >= s[b].up
            BY <1>ss, <3>2, <3>5
      <3>4. h[i].up = s[a].up + n /\ s[a].up \in Nat
            BY <1>ups, <3>1
      <3> QED BY <1>2, <3>0, <3>3, <3>4
    <2> QED BY <1>places, <2>1, <2>2, <2>3
  <1>10. ASSUME NEW i \in DOMAIN h, NEW j \in DOMAIN h, i < j, h[i].up = h[j].up
         PROVE  /\ h[i].e <= h[j].e
                /\ h[i].e = h[j].e => Kind[h[i].e] = "many" /\ sh[i].id < sh[j].id
    <2>1. CASE j \in 1..n
      <3>1. i \in 1..n
            BY <1>2, <1>10, <2>1
      <3>2. h[i] = o[i] /\ sh[i] = so[i] /\ h[j] = o[j] /\ sh[j] = so[j]
            BY <1>3, <2>1, <3>1
      <3> QED BY <1>10, <1>os, <2>1, <3>1, <3>2
    <2>2. CASE j = n + 1
      <3>1. i \in 1..n /\ h[i].up = 1 /\ h[j].e = k /\ sh[j] = x
            BY <1>2, <1>6, <1>10, <2>2
      <3>2. h[i] = o[i] /\ sh[i] = so[i] /\ i \in DOMAIN o
            BY <1>2, <1>3, <3>1
      <3> QED BY <3>1, <3>2 DEF RoomFor
    <2>3. ASSUME NEW b \in 2..m, j = n + b
          PROVE  /\ h[i].e <= h[j].e
                 /\ h[i].e = h[j].e => Kind[h[i].e] = "many" /\ sh[i].id < sh[j].id
      <3>0. h[j].up = s[b].up + n /\ s[b].up \in Nat /\ s[b].up >= 1
            BY <1>ups, <2>3
      <3>1. PICK a \in 2..m : i = n + a
        <4>1. h[i].up >= n + 1
              BY <1>2, <1>10, <3>0
        <4>2. i \notin 1..n /\ i # n + 1
              BY <1>2, <1>6, <4>1
        <4> QED BY <1>places, <4>2
      <3>4. h[i].up = s[a].up + n /\ s[a].up \in Nat
            BY <1>ups, <3>1
      <3>2. a < b /\ s[b].up = s[a].up
        <4>1. n + a < n + b /\ s[a].up + n = s[b].up + n
              BY <1>10, <2>3, <3>0, <3>1, <3>4
        <4>2. a \in Nat /\ b \in Nat /\ n \in Nat
              BY <1>2, <2>3, <3>1
        <4>3. a < b
              BY ONLY <4>1, <4>2
        <4>4. s[a].up = s[b].up
          <5>1. s[a].up \in Nat /\ s[b].up \in Nat
                BY <3>0, <3>4
          <5> QED BY ONLY <4>1, <4>2, <5>1
        <4> QED BY <4>3, <4>4
      <3>5. a \in 1..m /\ b \in 1..m
            BY <1>2, <2>3, <3>1
      <3>3. /\ s[a].e <= s[b].e
            /\ s[a].e = s[b].e => Kind[s[a].e] = "many" /\ ss[a].id < ss[b].id
            BY <1>ss, <3>2, <3>5
      <3> QED BY <1>3, <2>3, <3>1, <3>3, <3>5
    <2> QED BY <1>places, <2>1, <2>2, <2>3
  <1>11. Shaped(h, sh, e, r)
    <2>1. 1 \in 1..n
          BY <1>2
    <2> QED BY <1>3, <1>4, <1>8, <1>9, <1>10, <2>1 DEF Shaped
  <1>12. ASSUME NEW i \in DOMAIN h \ {1} PROVE Nested(lost, h, sh, i)
    <2>1. CASE i \in 1..n
      <3>1. \A j \in DOMAIN h : h[j].up = i => j \in 1..n
        <4> SUFFICES ASSUME NEW j \in DOMAIN h, h[j].up = i, j \notin 1..n PROVE FALSE
            OBVIOUS
        <4>1. j # n + 1
              BY <1>6, <1>12
        <4>2. PICK b \in 2..m : j = n + b
              BY <1>places, <4>1
        <4>3. h[j].up = s[b].up + n /\ s[b].up \in Nat /\ s[b].up >= 1
              BY <1>ups, <4>2
        <4> QED BY <1>2, <2>1, <4>3
      <3>2. Nested(lost, o, so, i) /\ h[i] = o[i] /\ sh[i] = so[i]
            BY <1>1, <1>2, <1>3, <1>12, <2>1
      <3>3. \A j \in 1..n : j \in DOMAIN h /\ j \in DOMAIN o /\ h[j] = o[j] /\ sh[j] = so[j]
            BY <1>2, <1>3
      <3>4. DOMAIN o = 1..n
            BY <1>2
      <3> QED BY ONLY <3>1, <3>2, <3>3, <3>4 DEF Nested
    <2>2. ASSUME NEW a \in 1..m, i = n + a PROVE Nested(lost, h, sh, i)
      <3>1. Nested(lost, s, ss, a) /\ h[i].e = s[a].e /\ sh[i] = ss[a]
            BY <1>1, <1>2, <1>3, <2>2
      <3>2. \A j \in DOMAIN h : h[j].up = i => \E b \in 1..m : j = n + b /\ s[b].up = a
        <4> SUFFICES ASSUME NEW j \in DOMAIN h, h[j].up = i
                     PROVE  \E b \in 1..m : j = n + b /\ s[b].up = a
            OBVIOUS
        <4>1. j \notin 1..n /\ j # n + 1
              BY <1>2, <1>6, <2>2
        <4>2. PICK b \in 1..m : j = n + b
              BY <1>2, <1>5, <4>1
        <4>3. b \in 2..m /\ s[b].up \in Nat
              BY <1>2, <1>4, <4>1, <4>2
        <4>4. s[b].up + n = n + a
              BY <1>6, <2>2, <4>2, <4>3
        <4>5. s[b].up = a
              BY <1>2, <4>3, <4>4
        <4> QED BY <4>2, <4>5
      <3>3. \A b \in 1..m : /\ n + b \in DOMAIN h /\ h[n + b].e = s[b].e /\ sh[n + b] = ss[b]
                            /\ s[b].up = a => h[n + b].up = i
        <4> SUFFICES ASSUME NEW b \in 1..m
                     PROVE  /\ n + b \in DOMAIN h /\ h[n + b].e = s[b].e /\ sh[n + b] = ss[b]
                            /\ s[b].up = a => h[n + b].up = i
            OBVIOUS
        <4>0. n + b \in DOMAIN h
              BY <1>2
        <4>1. h[n + b].e = s[b].e /\ sh[n + b] = ss[b]
              BY <1>3
        <4>2. ASSUME s[b].up = a PROVE h[n + b].up = i
          <5>1. b \in 2..m
            <6>1. b # 1
                  BY <1>4, <4>2
            <6> QED BY <1>2, <6>1
          <5>2. h[n + b].up = s[b].up + n
                BY <1>ups, <5>1
          <5> QED BY <1>2, <2>2, <4>2, <5>2
        <4> QED BY <4>0, <4>1, <4>2
      <3>4. DOMAIN s = 1..m
            BY <1>2
      <3>5. \A j \in DOMAIN h : h[j].up = i =>
               \E q \in DOMAIN Sources(lost, h[j].e, sh[i]) : sh[j] = Sources(lost, h[j].e, sh[i])[q]
            BY ONLY <3>1, <3>2, <3>3, <3>4 DEF Nested
      <3>6. \A c \in Entries : Up[c] = h[i].e =>
               \A q \in DOMAIN Sources(lost, c, sh[i]) :
                  \E j \in DOMAIN h : h[j].up = i /\ h[j].e = c /\ sh[j] = Sources(lost, c, sh[i])[q]
        <4> SUFFICES ASSUME NEW c \in Entries, Up[c] = h[i].e, NEW q \in DOMAIN Sources(lost, c, sh[i])
                     PROVE  \E j \in DOMAIN h :
                               h[j].up = i /\ h[j].e = c /\ sh[j] = Sources(lost, c, sh[i])[q]
            OBVIOUS
        <4>1. PICK b \in DOMAIN s : s[b].up = a /\ s[b].e = c /\ ss[b] = Sources(lost, c, ss[a])[q]
              BY <3>1 DEF Nested
        <4> QED BY ONLY <3>1, <3>3, <3>4, <4>1
      <3> QED BY ONLY <3>5, <3>6 DEF Nested
    <2> QED BY <1>2, <1>5, <2>1, <2>2
  <1>13. Grown(lost, h, sh, e, r)
         BY <1>7, <1>11, <1>12 DEF Grown
  <1>14. \A j \in DOMAIN h : h[j].up = 1 => j \in DOMAIN o \/ j = n + 1
    <2> SUFFICES ASSUME NEW j \in DOMAIN h, h[j].up = 1, j \notin 1..n, j # n + 1 PROVE FALSE
        BY <1>2
    <2>1. PICK b \in 2..m : j = n + b
          BY <1>places
    <2>2. h[j].up = s[b].up + n /\ s[b].up \in Nat /\ s[b].up >= 1
          BY <1>ups, <2>1
    <2> QED BY <1>2, <2>2
  <1>15. \A j \in DOMAIN o : j \in DOMAIN h /\ h[j] = o[j] /\ sh[j] = so[j]
         BY <1>2, <1>3
  <1> QED BY <1>2, <1>6, <1>13, <1>14, <1>15 DEF HungBehind

\* The first n of the members made from xs stand behind the nodes of o.
Added(o, so, g, sg, k, xs, n) ==
    /\ \A j \in DOMAIN o : j \in DOMAIN g /\ g[j] = o[j] /\ sg[j] = so[j]
    /\ \A j \in DOMAIN g : g[j].up = 1 => \/ j \in DOMAIN o
                                          \/ g[j].e = k /\ \E m \in 1..n : sg[j] = xs[m]
    /\ \A m \in 1..n : \E j \in DOMAIN g : g[j].up = 1 /\ g[j].e = k /\ sg[j] = xs[m]

\* All members of one class are hung behind each other.
LEMMA GraftGrows ==
    ASSUME NEW lost, NEW o, NEW so, NEW e, NEW r, NEW k \in Entries, NEW subs, NEW xs,
           Grown(lost, o, so, e, r), Up[k] = e, Len(subs) = Len(xs), Len(xs) \in Nat,
           \A m \in 1..Len(xs) : \E ss : Faithful(lost, subs[m], ss, k, xs[m]),
           \A m, n \in 1..Len(xs) : m < n => Kind[k] = "many" /\ xs[m].id < xs[n].id,
           \A j \in DOMAIN o : o[j].up = 1 => o[j].e < k
    PROVE  \E sg : /\ Grown(lost, Graft(o, subs), sg, e, r)
                   /\ Added(o, so, Graft(o, subs), sg, k, xs, Len(xs))
  <1> DEFINE N == Len(xs)
  <1>1. PICK g : HangsAll(g, N, o, subs) /\ Graft(o, subs) = g[N]
        BY GraftSteps
  <1>2. /\ N \in Nat /\ g[0] = o
        /\ \A n \in 1..N : g[n] = Hang(g[n - 1], subs[n])
        BY <1>1 DEF HangsAll
  <1> DEFINE Good(n, sg) == Grown(lost, g[n], sg, e, r) /\ Added(o, so, g[n], sg, k, xs, n)
             T == {n \in 0..N : ~\E sg : Good(n, sg)}
  <1>3. T = {}
    <2> SUFFICES ASSUME T # {} PROVE FALSE
        OBVIOUS
    <2>1. PICK n \in T : \A m \in T : ~(m < n)
      <3>1. T \subseteq Nat
            BY <1>2
      <3> HIDE DEF T
      <3> QED BY <3>1, LeastNumber
    <2>2. n \in 0..N
          OBVIOUS
    <2>3. CASE n = 0
      <3>1. Added(o, so, o, so, k, xs, 0)
            BY DEF Added
      <3>2. Good(0, so)
            BY <1>2, <3>1
      <3> QED BY <2>3, <3>2
    <2>4. CASE n # 0
      <3>1. n \in 1..N /\ n - 1 \in 0..N /\ n - 1 < n
            BY <1>2, <2>2, <2>4
      <3>2. n - 1 \notin T
            BY <2>1, <3>1
      <3>3. PICK sp : Good(n - 1, sp)
            BY <3>1, <3>2
      <3>4. PICK ss : Faithful(lost, subs[n], ss, k, xs[n])
            BY <3>1
      <3> DEFINE p == g[n - 1]
                 h == g[n]
                 sh == sp \o ss
                 z == Len(p)
      <3>5. h = Hang(p, subs[n])
            BY <1>2, <3>1
      <3>6. Grown(lost, p, sp, e, r) /\ Added(o, so, p, sp, k, xs, n - 1)
            BY <3>3
      <3> HIDE DEF p, h, sh, z, T, N
      <3>7. ASSUME NEW j \in DOMAIN p, p[j].up = 1
            PROVE  p[j].e <= k /\ (p[j].e = k => Kind[k] = "many" /\ sp[j].id < xs[n].id)
        <4>1. CASE j \in DOMAIN o
          <5>1. p[j] = o[j]
                BY <3>6, <4>1 DEF Added
          <5>2. o[j].e < k /\ o[j] \in Node
                BY <3>7, <4>1, <5>1 DEF Grown, Mirrors
          <5>3. o[j].e \in Int /\ k \in Int
                BY <5>2, SchemaAssumption DEF Node, Entries
          <5> QED BY <5>1, <5>2, <5>3
        <4>2. CASE j \notin DOMAIN o
          <5>1. p[j].e = k /\ \E m \in 1..(n - 1) : sp[j] = xs[m]
                BY <3>6, <3>7, <4>2 DEF Added
          <5>2. PICK m \in 1..(n - 1) : sp[j] = xs[m]
                BY <5>1
          <5>3. m \in 1..N /\ m < n
                BY <1>2, <3>1
          <5>4. Kind[k] = "many" /\ xs[m].id < xs[n].id
                BY <3>1, <5>3 DEF N
          <5>5. k \in Int
                BY SchemaAssumption DEF Entries
          <5> QED BY <5>1, <5>2, <5>4, <5>5
        <4> QED BY <4>1, <4>2
      <3>8. /\ Grown(lost, h, sh, e, r)
            /\ z \in Nat /\ z + 1 \in DOMAIN h
            /\ \A j \in DOMAIN p : j \in DOMAIN h /\ h[j] = p[j] /\ sh[j] = sp[j]
            /\ h[z + 1].up = 1 /\ h[z + 1].e = k /\ sh[z + 1] = xs[n]
            /\ \A j \in DOMAIN h : h[j].up = 1 => j \in DOMAIN p \/ j = z + 1
        <4>1. RoomFor(p, sp, k, xs[n])
              BY <3>7 DEF RoomFor
        <4>2. sh = sp \o ss /\ z = Len(p)
              BY DEF sh, z
        <4>3. Grown(lost, h, sh, e, r) /\ HungBehind(p, sp, h, sh, k, xs[n], z)
              BY <3>4, <3>5, <3>6, <4>1, <4>2, HangGrows
        <4> QED BY <4>3 DEF HungBehind
      <3>9. Added(o, so, h, sh, k, xs, n)
        <4>1. \A j \in DOMAIN o : j \in DOMAIN h /\ h[j] = o[j] /\ sh[j] = so[j]
              BY <3>6, <3>8 DEF Added
        <4>2. ASSUME NEW j \in DOMAIN h, h[j].up = 1, j \notin DOMAIN o
              PROVE  h[j].e = k /\ \E m \in 1..n : sh[j] = xs[m]
          <5>1. CASE j = z + 1
                BY <3>1, <3>8, <5>1
          <5>2. CASE j # z + 1
            <6>1. j \in DOMAIN p /\ p[j].up = 1 /\ h[j] = p[j] /\ sh[j] = sp[j]
                  BY <3>8, <4>2, <5>2
            <6>2. p[j].e = k /\ \E m \in 1..(n - 1) : sp[j] = xs[m]
                  BY <3>6, <4>2, <6>1 DEF Added
            <6>3. 1..(n - 1) \subseteq 1..n
                  BY <3>1
            <6> QED BY <6>1, <6>2, <6>3
          <5> QED BY <5>1, <5>2
        <4>3. ASSUME NEW m \in 1..n
              PROVE  \E j \in DOMAIN h : h[j].up = 1 /\ h[j].e = k /\ sh[j] = xs[m]
          <5>1. CASE m = n
                BY <3>8, <5>1
          <5>2. CASE m # n
            <6>1. m \in 1..(n - 1)
                  BY <3>1, <5>2
            <6>2. PICK j \in DOMAIN p : p[j].up = 1 /\ p[j].e = k /\ sp[j] = xs[m]
                  BY <3>6, <6>1 DEF Added
            <6> QED BY <3>8, <6>2
          <5> QED BY <5>1, <5>2
        <4> QED BY <4>1, <4>2, <4>3 DEF Added
      <3>10. Good(n, sh)
             BY <3>8, <3>9 DEF h
      <3> QED BY <2>2, <3>10 DEF T
    <2> QED BY <2>3, <2>4
  <1>4. PICK sg : Good(N, sg)
    <2>1. N \in 0..N
          BY <1>2
    <2>2. N \notin T
          BY <1>3
    <2> HIDE DEF Good, N
    <2> QED BY <2>1, <2>2
  <1> QED BY <1>1, <1>4

\* A default-constructed or stored value by itself, before its members.
LEMMA NodeGrows ==
    ASSUME DbOK, NEW lost, NEW e \in Entries, NEW r \in SourceOf(e)
    PROVE  Grown(lost, <<NodeOf(e, r)>>, <<r>>, e, r)
  <1> DEFINE v == NodeOf(e, r)
             o == <<v>>
             src == <<r>>
  <1>1. r \in AnyRow /\ r.id \in 0..MaxRowid /\ r.val \in Val /\ r.tok \in Nat
    <2>1. CASE r = NoRow
          BY <2>1, SchemaAssumption, BoundAssumption DEF NoRow, AnyRow
    <2>2. CASE r \in db[e].rows
      <3>1. r \in Row
            BY <2>2, RowsFinite
      <3> QED BY <3>1 DEF Row, AnyRow
    <2> QED BY <2>1, <2>2 DEF SourceOf
  <1>2. /\ v \in Node /\ v.e = e /\ v.up = 0 /\ v.val = r.val /\ v.tok = r.tok
        /\ v.id = IF Keyed[e] THEN r.id ELSE 0
    <2>1. (IF Keyed[e] THEN r.id ELSE 0) \in 0..MaxRowid
          BY <1>1, BoundAssumption
    <2> QED BY <1>1, <2>1 DEF NodeOf, Node
  <1> HIDE DEF v
  <1>3. /\ o \in Seq(Node) /\ Len(o) = 1 /\ DOMAIN o = {1} /\ o[1] = v
        /\ src \in Seq(AnyRow) /\ Len(src) = 1 /\ src[1] = r
        BY <1>1, <1>2
  <1> HIDE DEF o, src
  <1>4. Mirrors(o, src)
        BY <1>2, <1>3 DEF Mirrors
  <1>5. Shaped(o, src, e, r)
        BY <1>2, <1>3 DEF Shaped
  <1>6. \A i \in DOMAIN o \ {1} : Nested(lost, o, src, i)
        BY <1>3
  <1> QED BY <1>4, <1>5, <1>6 DEF Grown, o, src, v

\* A value is assembled from finished members.
LEMMA AssembledGrows ==
    ASSUME DbOK, NEW lost, NEW e \in Entries, NEW r \in SourceOf(e), NEW parts,
           Len(parts) = Len(Up),
           \A k \in Entries : Up[k] # e => parts[k] = <<>>,
           \A k \in Entries : Up[k] = e =>
              /\ Len(parts[k]) = Len(Sources(lost, k, r))
              /\ \A m \in DOMAIN Sources(lost, k, r) :
                    \E ss : Faithful(lost, parts[k][m], ss, k, Sources(lost, k, r)[m])
    PROVE  \E src : Faithful(lost, Assembled(NodeOf(e, r), parts), src, e, r)
  <1> DEFINE N == Len(Up)
             node == NodeOf(e, r)
             o == Assembled(node, parts)
  <1>1. N \in Nat /\ Entries = 1..N
        BY SchemaAssumption DEF Entries
  <1>2. PICK a : GraftsAll(a, N, node, parts) /\ o = a[N]
        BY <1>1, AssembledSteps
  <1>3. /\ a[0] = <<node>>
        /\ \A k \in 1..N : a[k] = Graft(a[k - 1], parts[k])
    <2> HIDE DEF N, node
    <2>1. a = [k \in 0..N |-> IF k = 0 THEN <<node>> ELSE Graft(a[k - 1], parts[k])]
          BY <1>2 DEF GraftsAll
    <2>2. 0 \in 0..N /\ \A k \in 1..N : k \in 0..N /\ k # 0
          BY <1>1
    <2> QED BY ONLY <2>1, <2>2
  <1> DEFINE
        Asked(k, sg) == \A j \in DOMAIN a[k] : a[k][j].up = 1 =>
                           /\ a[k][j].e <= k
                           /\ \E m \in DOMAIN Sources(lost, a[k][j].e, r) :
                                 sg[j] = Sources(lost, a[k][j].e, r)[m]
        Answered(k, sg) == \A c \in 1..k : Up[c] = e =>
                              \A m \in DOMAIN Sources(lost, c, r) :
                                 \E j \in DOMAIN a[k] : /\ a[k][j].up = 1 /\ a[k][j].e = c
                                                        /\ sg[j] = Sources(lost, c, r)[m]
        Good(k, sg) == Grown(lost, a[k], sg, e, r) /\ Asked(k, sg) /\ Answered(k, sg)
        T == {k \in 0..N : ~\E sg : Good(k, sg)}
  <1> HIDE DEF N, node, o
  <1>4. T = {}
    <2> SUFFICES ASSUME T # {} PROVE FALSE
        OBVIOUS
    <2>1. PICK k \in T : \A m \in T : ~(m < k)
      <3>1. T \subseteq Nat
            BY <1>1
      <3> HIDE DEF T
      <3> QED BY <3>1, LeastNumber
    <2>2. k \in 0..N
          OBVIOUS
    <2>3. CASE k = 0
      <3> DEFINE g == <<node>>
                 sg == <<r>>
      <3>1. Grown(lost, g, sg, e, r)
            BY NodeGrows DEF node
      <3>2. a[0] = g /\ DOMAIN g = {1} /\ g[1].up # 1
            BY <1>3 DEF node, NodeOf
      <3> HIDE DEF g, sg
      <3>3. Asked(0, sg)
            BY <3>2
      <3>4. Answered(0, sg)
            OBVIOUS
      <3>5. Good(0, sg)
            BY <3>1, <3>2, <3>3, <3>4
      <3> HIDE DEF Good
      <3> QED BY <2>3, <3>5
    <2>4. CASE k # 0
      <3>1. k \in 1..N /\ k \in Entries /\ k - 1 \in 0..N /\ k - 1 < k
            BY <1>1, <2>2, <2>4
      <3>2. k - 1 \notin T
            BY <2>1, <3>1
      <3>3. PICK sp : Good(k - 1, sp)
            BY <3>1, <3>2
      <3> DEFINE p == a[k - 1]
                 h == a[k]
                 xs == Sources(lost, k, r)
      <3>4. h = Graft(p, parts[k])
            BY <1>3, <3>1
      <3>5. Grown(lost, p, sp, e, r)
            BY <3>3
      <3>6. \A j \in DOMAIN p : p[j].up = 1 => p[j].e < k /\ p[j].e \in Int
        <4> SUFFICES ASSUME NEW j \in DOMAIN p, p[j].up = 1 PROVE p[j].e < k /\ p[j].e \in Int
            OBVIOUS
        <4>1. p[j].e <= k - 1
              BY <3>3
        <4>2. p[j] \in Node
          <5> HIDE DEF p, xs
          <5>1. p \in Seq(Node)
                BY ONLY <3>5 DEF Grown, Mirrors
          <5> QED BY ONLY <5>1, j \in DOMAIN p
        <4>3. p[j].e \in Int /\ k \in Int
              BY <1>1, <3>1, <4>2 DEF Node
        <4> QED BY <4>1, <4>3
      <3>7. CASE Up[k] # e
        <4>1. parts[k] = <<>>
              BY <3>1, <3>7
        <4>2. h = p
          <5>1. PICK g : HangsAll(g, 0, p, <<>>) /\ Graft(p, <<>>) = g[0]
            <6>1. PICK q, z : q = p /\ z = <<>>
                  OBVIOUS
            <6>2. Len(z) = 0
                  BY ONLY <6>1
            <6>3. \E g : HangsAll(g, Len(z), q, z) /\ Graft(q, z) = g[Len(z)]
                  BY ONLY <6>2, GraftSteps
            <6> HIDE DEF p
            <6> QED BY ONLY <6>1, <6>2, <6>3
          <5>2. g[0] = p
            <6> HIDE DEF p
            <6>1. HangsAll(g, 0, p, <<>>) /\ 0 \in 0..0
                  BY <5>1
            <6> QED BY ONLY <6>1 DEF HangsAll
          <5>3. h = Graft(p, <<>>)
                BY <3>4, <4>1
          <5> QED BY ONLY <5>1, <5>2, <5>3
        <4>3. Asked(k, sp)
              BY <3>1, <3>3, <3>6, <4>2
        <4>4. Answered(k, sp)
          <5> SUFFICES ASSUME NEW c \in 1..k, Up[c] = e, NEW m \in DOMAIN Sources(lost, c, r)
                       PROVE  \E j \in DOMAIN h : /\ h[j].up = 1 /\ h[j].e = c
                                                  /\ sp[j] = Sources(lost, c, r)[m]
              OBVIOUS
          <5>1. c \in 1..(k - 1)
                BY <3>1, <3>7
          <5> QED BY <3>3, <4>2, <5>1
        <4>5. Good(k, sp)
              BY <3>5, <4>2, <4>3, <4>4
        <4> HIDE DEF Good
        <4> QED BY <2>2, <4>5
      <3>8. CASE Up[k] = e
        <4>1. /\ Len(xs) \in Nat /\ DOMAIN xs = 1..Len(xs)
              /\ \A m, n \in DOMAIN xs : m < n => Kind[k] = "many" /\ xs[m].id < xs[n].id
          <5>1. MadeFrom(lost, k, r, xs)
                BY <3>1, SourcesRows
          <5> HIDE DEF xs
          <5> QED BY <5>1 DEF MadeFrom
        <4>2. /\ Len(parts[k]) = Len(xs)
              /\ \A m \in 1..Len(xs) : \E ss : Faithful(lost, parts[k][m], ss, k, xs[m])
              BY <3>1, <3>8, <4>1
        <4> HIDE DEF xs, p, h, Good, T
        <4>3. PICK sg : /\ Grown(lost, Graft(p, parts[k]), sg, e, r)
                        /\ Added(p, sp, Graft(p, parts[k]), sg, k, xs, Len(xs))
              BY <3>1, <3>5, <3>6, <3>8, <4>1, <4>2, GraftGrows
        <4>4. Grown(lost, h, sg, e, r) /\ Added(p, sp, h, sg, k, xs, Len(xs))
              BY <3>4, <4>3
        <4>5. ASSUME NEW j \in DOMAIN h, h[j].up = 1
              PROVE  /\ h[j].e <= k
                     /\ \E m \in DOMAIN Sources(lost, h[j].e, r) : sg[j] = Sources(lost, h[j].e, r)[m]
          <5>1. CASE j \in DOMAIN p
            <6>1. h[j] = p[j] /\ sg[j] = sp[j]
                  BY <4>4, <5>1 DEF Added
            <6>2. p[j].e < k /\ p[j].e \in Int /\ k \in Int
                  BY <1>1, <3>1, <3>6, <4>5, <5>1, <6>1
            <6>3. \E m \in DOMAIN Sources(lost, p[j].e, r) : sp[j] = Sources(lost, p[j].e, r)[m]
                  BY <3>3, <4>5, <5>1, <6>1 DEF Good, p
            <6> QED BY <6>1, <6>2, <6>3
          <5>2. CASE j \notin DOMAIN p
            <6>1. h[j].e = k /\ \E m \in DOMAIN xs : sg[j] = xs[m]
                  BY <4>1, <4>4, <4>5, <5>2 DEF Added
            <6>2. k \in Int
                  BY <1>1, <3>1
            <6> QED BY <6>1, <6>2 DEF xs
          <5> QED BY <5>1, <5>2
        <4>6. ASSUME NEW c \in 1..k, Up[c] = e, NEW m \in DOMAIN Sources(lost, c, r)
              PROVE  \E j \in DOMAIN h : /\ h[j].up = 1 /\ h[j].e = c
                                         /\ sg[j] = Sources(lost, c, r)[m]
          <5>1. CASE c = k
            <6>1. m \in 1..Len(xs)
                  BY <4>1, <5>1 DEF xs
            <6> QED BY <4>4, <5>1, <6>1 DEF Added, xs
          <5>2. CASE c # k
            <6>1. c \in 1..(k - 1)
                  BY <3>1, <5>2
            <6>2. PICK j \in DOMAIN p : /\ p[j].up = 1 /\ p[j].e = c
                                        /\ sp[j] = Sources(lost, c, r)[m]
                  BY <3>3, <4>6, <6>1 DEF Good, p
            <6>3. j \in DOMAIN h /\ h[j] = p[j] /\ sg[j] = sp[j]
                  BY <4>4 DEF Added
            <6> QED BY <6>2, <6>3
          <5> QED BY <5>1, <5>2
        <4>7. Good(k, sg)
              BY <4>4, <4>5, <4>6 DEF Good, h
        <4> QED BY <2>2, <4>7 DEF T
      <3> QED BY <3>7, <3>8
    <2> QED BY <2>3, <2>4
  <1>5. PICK src : Good(N, src)
    <2>1. N \in 0..N
          BY <1>1
    <2>2. N \notin T
          BY <1>4
    <2> HIDE DEF Good
    <2> QED BY <2>1, <2>2
  <1>6. Grown(lost, o, src, e, r)
        BY <1>2, <1>5
  <1>7. src[1] = r /\ o[1].e = e
        BY <1>6 DEF Grown, Shaped
  <1>8. Nested(lost, o, src, 1)
    <2>1. \A j \in DOMAIN o : o[j].up = 1 =>
             \E m \in DOMAIN Sources(lost, o[j].e, src[1]) : src[j] = Sources(lost, o[j].e, src[1])[m]
          BY <1>2, <1>5, <1>7
    <2>2. \A c \in Entries : Up[c] = o[1].e =>
             \A m \in DOMAIN Sources(lost, c, src[1]) :
                \E j \in DOMAIN o : o[j].up = 1 /\ o[j].e = c /\ src[j] = Sources(lost, c, src[1])[m]
          BY <1>1, <1>2, <1>5, <1>7
    <2> QED BY ONLY <2>1, <2>2 DEF Nested
  <1> QED BY <1>6, <1>8 DEF Faithful, o, node

\* Every value select builds mirrors its row and the rows of its members,
\* whichever queries fail.
LEMMA LoadedFaithful ==
    ASSUME DbOK, NEW lost, NEW e \in Entries, NEW r \in SourceOf(e)
    PROVE  \E src : Faithful(lost, Loaded(lost)[e][r], src, e, r)
  <1> DEFINE N == Len(Up)
             L == Loaded(lost)
             Done(k) == \A x \in SourceOf(k) : \E src : Faithful(lost, L[k][x], src, k, x)
             T == {n \in 0..N : ~\A k \in Entries : k > N - n => Done(k)}
  <1>1. N \in Nat /\ Entries = 1..N
        BY SchemaAssumption DEF Entries
  <1>2. \A k \in Entries : L[k] = Entrywise(lost, L, k)
        BY LoadedSteps
  <1> HIDE DEF N, L, Done
  <1>3. ASSUME NEW k \in Entries, \A c \in Entries : c > k => Done(c)
        PROVE  Done(k)
    <2> SUFFICES ASSUME NEW x \in SourceOf(k)
                 PROVE  \E src : Faithful(lost, L[k][x], src, k, x)
        BY DEF Done
    <2> DEFINE parts == Parts(lost, L, k, x)
    <2>1. L[k][x] = Assembled(NodeOf(k, x), parts)
          BY <1>2 DEF Entrywise, SourceOf
    <2>2. /\ parts = [c \in Entries |-> IF Up[c] = k THEN Part(c, Taken(lost, c, x), L[c]) ELSE <<>>]
          /\ Len(parts) = Len(Up)
          BY <1>1 DEF Parts, N
    <2> HIDE DEF parts
    <2>3. ASSUME NEW c \in Entries, Up[c] = k
          PROVE  /\ Len(parts[c]) = Len(Sources(lost, c, x))
                 /\ \A m \in DOMAIN Sources(lost, c, x) :
                       \E ss : Faithful(lost, parts[c][m], ss, c, Sources(lost, c, x)[m])
      <3> DEFINE xs == Sources(lost, c, x)
      <3>1. c > k
        <4>1. c # 1
              BY <1>1, <2>3, SchemaAssumption
        <4> QED BY <1>1, <2>3, <4>1, SchemaAssumption
      <3>2. Done(c)
            BY <1>3, <3>1
      <3>3. MadeFrom(lost, c, x, xs)
            BY SourcesRows
      <3>4. parts[c] = Part(c, Taken(lost, c, x), L[c])
            BY <2>2, <2>3
      <3>5. Len(parts[c]) = Len(xs) /\ \A m \in DOMAIN xs : parts[c][m] = L[c][xs[m]]
        <4> DEFINE made == L[c]
        <4> HIDE DEF made
        <4>1. Len(Part(c, Taken(lost, c, x), made)) = Len(Sources(lost, c, x))
              BY PartMade
        <4>2. \A m \in DOMAIN Sources(lost, c, x) :
                 Part(c, Taken(lost, c, x), made)[m] = made[Sources(lost, c, x)[m]]
              BY PartMade
        <4> QED BY <3>4, <4>1, <4>2 DEF made
      <3> HIDE DEF xs
      <3>6. \A m \in DOMAIN xs : xs[m] \in SourceOf(c)
            BY <3>3 DEF MadeFrom
      <3>7. \A m \in DOMAIN xs : \E ss : Faithful(lost, parts[c][m], ss, c, xs[m])
            BY <3>2, <3>5, <3>6 DEF Done
      <3> QED BY <3>5, <3>7 DEF xs
    <2>4. \A c \in Entries : Up[c] # k => parts[c] = <<>>
          BY <2>2
    <2>5. Len(parts) = Len(Up)
          BY <2>2
    <2> QED BY <2>1, <2>3, <2>4, <2>5, AssembledGrows
  <1>4. T = {}
    <2> SUFFICES ASSUME T # {} PROVE FALSE
        OBVIOUS
    <2>1. PICK n \in T : \A m \in T : ~(m < n)
      <3>1. T \subseteq Nat
            BY <1>1
      <3> HIDE DEF T
      <3> QED BY <3>1, LeastNumber
    <2>2. n \in 0..N
          OBVIOUS
    <2>3. PICK k \in Entries : k > N - n /\ ~Done(k)
          OBVIOUS
    <2>4. n # 0
          BY <1>1, <2>3
    <2>5. n - 1 \in 0..N /\ n - 1 < n
          BY <1>1, <2>2, <2>4
    <2>6. \A c \in Entries : c > N - (n - 1) => Done(c)
          BY <2>1, <2>5
    <2>7. \A c \in Entries : c > k => Done(c)
      <3> SUFFICES ASSUME NEW c \in Entries, c > k PROVE c > N - (n - 1)
          BY <2>6
      <3> QED BY <1>1, <2>2, <2>3
    <2> QED BY <1>3, <2>3, <2>7
  <1>5. Done(e)
    <2>1. N \in 0..N /\ e > N - N
          BY <1>1
    <2>2. N \notin T
          BY <1>4
    <2> QED BY <2>1, <2>2
  <1> QED BY <1>5 DEF Done, L

-----------------------------------------------------------------------------
(* What a client holds.                                                    *)

WholeObject(o) == IsObject(o) /\ InOrder(o) /\ IsWhole(o)

\* A faithful value of the root class is a whole object.
LEMMA FaithfulIsWhole ==
    ASSUME DbOK, NEW lost, NEW o, NEW src, NEW r, Faithful(lost, o, src, 1, r)
    PROVE  WholeObject(o)
  <1>1. Mirrors(o, src) /\ Shaped(o, src, 1, r) /\ \A i \in DOMAIN o : Nested(lost, o, src, i)
        BY DEF Faithful, Grown
  <1>2. IsObject(o)
        BY <1>1 DEF Mirrors, Shaped, IsObject
  <1>3. InOrder(o)
        BY <1>1 DEF Shaped, InOrder
  <1>4. ASSUME NEW i \in DOMAIN o, NEW k \in Entries, Up[k] = o[i].e
        PROVE  /\ Kind[k] = "one" => \E j \in DOMAIN o : o[j].up = i /\ o[j].e = k
               /\ Kind[k] # "many" => \A j, n \in DOMAIN o :
                     o[j].up = i /\ o[j].e = k /\ o[n].up = i /\ o[n].e = k => j = n
    <2>1. ASSUME Kind[k] = "one"
          PROVE  \E j \in DOMAIN o : o[j].up = i /\ o[j].e = k
      <3>1. MadeFrom(lost, k, src[i], Sources(lost, k, src[i]))
            BY SourcesRows
      <3>2. 1 \in DOMAIN Sources(lost, k, src[i])
            BY <2>1, <3>1 DEF MadeFrom
      <3> QED BY <1>1, <1>4, <3>2 DEF Nested
    <2>2. ASSUME Kind[k] # "many", NEW j \in DOMAIN o, NEW n \in DOMAIN o,
                 o[j].up = i, o[j].e = k, o[n].up = i, o[n].e = k
          PROVE  j = n
      <3>1. j \in Nat /\ n \in Nat
            BY <1>1 DEF Mirrors
      <3>2. ~(j < n) /\ ~(n < j)
            BY <1>1, <2>2 DEF Shaped
      <3> QED BY <3>1, <3>2
    <2> QED BY <2>1, <2>2
  <1>5. IsWhole(o)
    <2> SUFFICES ASSUME NEW i \in DOMAIN o, NEW k \in Entries, Up[k] = o[i].e
                 PROVE  LET there == {j \in DOMAIN o : o[j].up = i /\ o[j].e = k}
                        IN  /\ Kind[k] = "one" => there # {}
                            /\ Kind[k] # "many" => \A j, n \in there : j = n
        BY DEF IsWhole
    <2> QED BY <1>4
  <1> QED BY <1>2, <1>3, <1>5 DEF WholeObject

\* Wholeness looks at the tree alone.
LEMMA SameTreeIsWhole ==
    ASSUME NEW o, WholeObject(o), NEW w, IsObject(w), DOMAIN w = DOMAIN o,
           \A j \in DOMAIN o : w[j].e = o[j].e /\ w[j].up = o[j].up
    PROVE  WholeObject(w)
  <1>1. InOrder(w)
        BY DEF WholeObject, InOrder
  <1>2. IsWhole(w)
    <2> SUFFICES ASSUME NEW i \in DOMAIN w, NEW k \in Entries, Up[k] = w[i].e
                 PROVE  LET there == {j \in DOMAIN w : w[j].up = i /\ w[j].e = k}
                        IN  /\ Kind[k] = "one" => there # {}
                            /\ Kind[k] # "many" => \A j, n \in there : j = n
        BY DEF IsWhole
    <2> DEFINE there == {j \in DOMAIN o : o[j].up = i /\ o[j].e = k}
    <2>1. {j \in DOMAIN w : w[j].up = i /\ w[j].e = k} = there
          OBVIOUS
    <2>2. /\ Kind[k] = "one" => there # {}
          /\ Kind[k] # "many" => \A j, n \in there : j = n
          BY DEF WholeObject, IsWhole
    <2> QED BY <2>1, <2>2
  <1> QED BY <1>1, <1>2 DEF WholeObject

\* A rowid written back, wherever it goes.
LEMMA WriteBackIsWhole ==
    ASSUME NEW o, o # <<>> => WholeObject(o), NEW i, NEW id \in 0..MaxRowid, NEW tok \in Nat,
           Written(o, i, id, tok) # <<>>
    PROVE  WholeObject(Written(o, i, id, tok))
  <1>1. CASE i \in DOMAIN o
    <2>1. o # <<>>
          BY <1>1
    <2> QED BY <1>1, <2>1, WriteBack, SameTreeIsWhole DEF WholeObject
  <1>2. CASE i \notin DOMAIN o /\ o # <<>>
    <2>1. o \in Seq(Node)
          BY <1>2 DEF WholeObject, IsObject
    <2>2. Written(o, i, id, tok) = o
          BY <1>2, <2>1 DEF Written
    <2> QED BY <1>2, <2>2
  <1>3. CASE o = <<>>
    <2>1. Written(o, i, id, tok) = <<>>
          BY <1>3 DEF Written
    <2> QED BY <2>1
  <1> QED BY <1>1, <1>2, <1>3

\* What a query gives back.
LEMMA SelectedIsWhole ==
    ASSUME DbOK, NEW lost, NEW r \in db[1].rows
    PROVE  WholeObject(LoadWithout(lost)[r])
  <1>1. 1 \in Entries /\ r \in SourceOf(1)
        BY SchemaAssumption DEF Entries, SourceOf
  <1>2. PICK src : Faithful(lost, Loaded(lost)[1][r], src, 1, r)
        BY <1>1, LoadedFaithful
  <1> QED BY <1>2, FaithfulIsWhole DEF LoadWithout

\* What a client holds is an object of its class, whole and in order: select
\* builds nothing else, and what the program makes of it has the form of one.
HeldIsObject ==
    \A c \in Clients : held[c] # <<>> =>
        IsObject(held[c]) /\ InOrder(held[c]) /\ IsWhole(held[c])

LEMMA EditIsWhole ==
    ASSUME NEW h, WholeObject(h), NEW o \in Edits(h)
    PROVE  WholeObject(o)
  <1>1. CASE o = h
        BY <1>1
  <1>2. CASE o # h
    <2>1. PICK n \in NewObjects :
            \E f \in [DOMAIN n -> 0..Len(h)] :
               /\ \A i \in DOMAIN n : f[i] # 0 => h[f[i]].e = n[i].e
               /\ o = Remade(n, h, f)
          BY <1>2 DEF Edits
    <2>2. /\ IsObject(o) /\ DOMAIN o = DOMAIN n
          /\ \A i \in DOMAIN n : o[i].e = n[i].e /\ o[i].up = n[i].up
          BY <2>1, RemadeIsObject DEF WholeObject
    <2>3. WholeObject(n)
          BY ObjectAssumption DEF WholeObject
    <2> QED BY <2>2, <2>3, SameTreeIsWhole
  <1> QED BY <1>1, <1>2

LEMMA HoldsWhole ==
    ASSUME HeldIsObject, DOMAIN held = Clients, NEW c \in Clients, NEW h,
           h # <<>> => WholeObject(h), held' = [held EXCEPT ![c] = h]
    PROVE  HeldIsObject'
  <1> SUFFICES ASSUME NEW d \in Clients, held'[d] # <<>> PROVE WholeObject(held'[d])
      BY DEF HeldIsObject, WholeObject
  <1>1. held'[d] = IF d = c THEN h ELSE held[d]
        OBVIOUS
  <1> QED BY <1>1 DEF HeldIsObject, WholeObject

LEMMA NextHeldIsObject == TypeOK /\ HeldIsObject /\ [Next]_vars => HeldIsObject'
  <1> SUFFICES ASSUME TypeOK, HeldIsObject, [Next]_vars PROVE HeldIsObject'
      OBVIOUS
  <1>1. DbOK /\ CallOK /\ DOMAIN held = Clients /\ clock \in Nat
        BY DEF TypeOK
  <1>2. ASSUME held' = held PROVE HeldIsObject'
        BY <1>2 DEF HeldIsObject
  <1>3. ASSUME NEW c \in Clients, Call(c) PROVE HeldIsObject'
    <2>0. ASSUME NEW op, NEW o, WholeObject(o), NEW mine, Enter(c, op, o, mine)
          PROVE  HeldIsObject'
      <3>1. held' = held \/ held' = [held EXCEPT ![c] = o]
            BY <2>0 DEF Enter
      <3> QED BY <1>1, <1>2, <2>0, <3>1, HoldsWhole
    <2>1. CASE CallCreate(c) \/ CallDrop(c)
          BY <1>2, <2>1 DEF CallCreate, CallDrop, Enter
    <2>2. CASE CallInsert(c)
      <3>1. PICK o \in NewObjects, mine \in BOOLEAN : Enter(c, "insert", o, mine)
            BY <2>2 DEF CallInsert
      <3>2. WholeObject(o)
            BY ObjectAssumption DEF WholeObject
      <3> QED BY <2>0, <3>1, <3>2
    <2>9. CASE CallDelete(c)
      <3>1. PICK o \in Edits(held[c]) : Enter(c, "delete", o, TRUE)
            BY <2>9 DEF CallDelete
      <3>2. WholeObject(held[c])
            BY <2>9 DEF CallDelete, IsObject, HeldIsObject, WholeObject
      <3> QED BY <2>0, <3>1, <3>2, EditIsWhole
    <2>3. CASE CallUpdate(c)
      <3>1. PICK h \in Edits(held[c]) : \E i \in DOMAIN h, v \in Val :
                   Enter(c, "update", [h EXCEPT ![i].val = v], TRUE)
            BY <2>3 DEF CallUpdate
      <3>2. IsObject(h) /\ h # <<>> /\ WholeObject(h)
        <4>1. WholeObject(held[c])
              BY <2>3 DEF CallUpdate, IsObject, HeldIsObject, WholeObject
        <4>2. WholeObject(h)
              BY <4>1, EditIsWhole
        <4> QED BY <4>2 DEF WholeObject, IsObject
      <3>3. PICK i \in DOMAIN h, v \in Val : Enter(c, "update", [h EXCEPT ![i].val = v], TRUE)
            BY <3>1
      <3> DEFINE o == [h EXCEPT ![i].val = v]
      <3>4. /\ IsObject(o) /\ DOMAIN o = DOMAIN h
            /\ \A j \in DOMAIN h : o[j].e = h[j].e /\ o[j].up = h[j].up
            BY <3>2, <3>3, ChangeValue
      <3> HIDE DEF o
      <3>5. WholeObject(o)
            BY <3>2, <3>4, SameTreeIsWhole
      <3>6. Enter(c, "update", o, TRUE)
            BY <3>3 DEF o
      <3> QED BY <2>0, <3>5, <3>6
    <2>4. CASE Select(c)
      <3>1. PICK r \in db[1].rows : held' = [held EXCEPT ![c] = LoadWithout({})[r]]
            BY <2>4 DEF Select, Load
      <3>2. WholeObject(LoadWithout({})[r])
            BY <1>1, SelectedIsWhole
      <3> QED BY <1>1, <3>1, <3>2, HoldsWhole
    <2>5. CASE FailSelect(c)
      <3>1. PICK k \in Entries \ {1} : \E q \in db[Up[k]].rows, r \in db[1].rows :
               held' = [held EXCEPT ![c] = LoadWithout({<<k, q>>})[r]]
            BY <2>5 DEF FailSelect
      <3>2. PICK q \in db[Up[k]].rows, r \in db[1].rows :
               held' = [held EXCEPT ![c] = LoadWithout({<<k, q>>})[r]]
            BY <3>1
      <3>3. WholeObject(LoadWithout({<<k, q>>})[r])
            BY <1>1, SelectedIsWhole
      <3> QED BY <1>1, <3>2, <3>3, HoldsWhole
    <2> QED BY <1>3, <2>1, <2>2, <2>3, <2>4, <2>5, <2>9 DEF Call
  <1>4. ASSUME NEW c \in Clients, NEW i, NEW id \in 0..MaxRowid, NEW tok \in Nat,
               held' = [held EXCEPT ![c] = Written(@, i, id, tok)]
        PROVE  HeldIsObject'
    <2>1. held[c] # <<>> => WholeObject(held[c])
          BY DEF HeldIsObject, WholeObject
    <2>2. Written(held[c], i, id, tok) # <<>> => WholeObject(Written(held[c], i, id, tok))
          BY <2>1, WriteBackIsWhole
    <2>3. held' = [held EXCEPT ![c] = Written(held[c], i, id, tok)]
          BY <1>4
    <2> QED BY <1>1, <2>2, <2>3, HoldsWhole
  <1>5. ASSUME NEW c \in Clients, Statement(c) PROVE HeldIsObject'
    <2>1. CASE InsertRow(c)
      <3>1. PICK i \in Turn(c) :
              LET e == call[c].obj[i].e
              IN  \E id \in NextRowids(e) :
                     held' = IF ByRef[e] /\ call[c].mine
                             THEN [held EXCEPT ![c] = Written(@, i, IF Keyed[e] THEN id ELSE 0, clock + 1)]
                             ELSE held
            BY <2>1 DEF InsertRow
      <3> DEFINE e == call[c].obj[i].e
      <3>2. e \in Entries
            BY <1>1, TurnIsLeft
      <3>3. PICK id \in NextRowids(e) :
                held' = IF ByRef[e] /\ call[c].mine
                        THEN [held EXCEPT ![c] = Written(@, i, IF Keyed[e] THEN id ELSE 0, clock + 1)]
                        ELSE held
            BY <3>1
      <3>4. (IF Keyed[e] THEN id ELSE 0) \in 0..MaxRowid /\ clock + 1 \in Nat
            BY <1>1, <3>2, RowidIsNew, BoundAssumption
      <3> QED BY <1>2, <1>4, <3>3, <3>4
    <2>2. CASE FailInsert(c)
      <3>1. PICK i \in Turn(c) : held' = IF ByRef[call[c].obj[i].e] /\ call[c].mine
                                         THEN [held EXCEPT ![c] = Written(@, i, 0, 0)] ELSE held
            BY <2>2 DEF FailInsert
      <3>2. 0 \in 0..MaxRowid /\ 0 \in Nat
            BY BoundAssumption
      <3> QED BY <1>2, <1>4, <3>1, <3>2
    <2>3. CASE CreateTable(c) \/ DropTable(c) \/ UpdateRows(c) \/ DeleteRows(c) \/ FailStatement(c)
          BY <1>2, <2>3 DEF CreateTable, DropTable, UpdateRows, DeleteRows, FailStatement
    <2> QED BY <1>5, <2>1, <2>2, <2>3 DEF Statement
  <1>6. ASSUME NEW c \in Clients, Crash(c) PROVE HeldIsObject'
        BY <1>1, <1>6, HoldsWhole DEF Crash
  <1>7. CASE UNCHANGED vars
        BY <1>2, <1>7 DEF vars
  <1> QED BY <1>3, <1>5, <1>6, <1>7 DEF Next

-----------------------------------------------------------------------------
(* Where the rowids in objects come from: ids[e] are those there may be for a  *)
(* value of class e, 0 for none among them.                                    *)

Carried(o, ids) == \A i \in DOMAIN o : Keyed[o[i].e] => o[i].id \in ids[o[i].e]

\* The rowids in the tables are among them.
Filed(d, ids) ==
    \A e \in Entries : 0 \in ids[e] /\ (Keyed[e] => \A r \in d[e].rows : r.id \in ids[e])

AllCarried(ids) == \A c \in Clients : Carried(held[c], ids) /\ Carried(call[c].obj, ids)

\* While the program inserts an object it goes on holding, it holds the same tree.
HeldAlike ==
    \A c \in Clients : Busy(c) /\ call[c].op = "insert" /\ call[c].mine =>
        /\ DOMAIN held[c] = DOMAIN call[c].obj
        /\ \A i \in DOMAIN held[c] : held[c][i].e = call[c].obj[i].e

LEMMA CarriedLater ==
    ASSUME NEW o, o # <<>> => IsObject(o), NEW x, NEW y, Carried(o, x),
           \A e \in Entries : x[e] \subseteq y[e]
    PROVE  Carried(o, y)
  <1> SUFFICES ASSUME NEW i \in DOMAIN o, Keyed[o[i].e] PROVE o[i].id \in y[o[i].e]
      BY DEF Carried
  <1>1. o \in Seq(Node)
        BY DEF IsObject
  <1>2. o[i] \in Node
        BY <1>1
  <1> QED BY <1>2 DEF Node, Carried

LEMMA WriteBackCarries ==
    ASSUME NEW o, IsObject(o), NEW i \in DOMAIN o, NEW id \in 0..MaxRowid, NEW tok \in Nat,
           NEW x, Carried(o, x), Keyed[o[i].e] => id \in x[o[i].e]
    PROVE  Carried(Written(o, i, id, tok), x)
  <1> DEFINE w == Written(o, i, id, tok)
  <1>1. /\ DOMAIN w = DOMAIN o /\ w[i].id = id
        /\ \A j \in DOMAIN o : w[j].e = o[j].e /\ (j # i => w[j] = o[j])
        BY WriteBack
  <1> HIDE DEF w
  <1> SUFFICES Carried(w, x)
      BY DEF w
  <1> QED BY <1>1 DEF Carried

LEMMA SelectedIsCarried ==
    ASSUME DbOK, NEW x, Filed(db, x), NEW lost, NEW r \in db[1].rows
    PROVE  Carried(LoadWithout(lost)[r], x)
  <1> DEFINE o == Loaded(lost)[1][r]
  <1>1. 1 \in Entries /\ r \in SourceOf(1)
        BY SchemaAssumption DEF Entries, SourceOf
  <1>2. PICK src : Faithful(lost, o, src, 1, r)
        BY <1>1, LoadedFaithful
  <1>3. Mirrors(o, src)
        BY <1>2 DEF Faithful, Grown
  <1> HIDE DEF o
  <1>4. ASSUME NEW i \in DOMAIN o, Keyed[o[i].e] PROVE o[i].id \in x[o[i].e]
    <2>1. o \in Seq(Node)
          BY <1>3 DEF Mirrors
    <2>2. o[i] \in Node
          BY <2>1
    <2>3. o[i].e \in Entries
          BY <2>2 DEF Node
    <2>4. src[i] \in SourceOf(o[i].e) /\ o[i].id = src[i].id
          BY <1>3, <1>4 DEF Mirrors
    <2>5. CASE src[i] = NoRow
          BY <2>3, <2>4, <2>5 DEF NoRow, Filed
    <2>6. CASE src[i] \in db[o[i].e].rows
          BY <1>4, <2>3, <2>4, <2>6 DEF Filed
    <2> QED BY <2>4, <2>5, <2>6 DEF SourceOf
  <1> QED BY <1>4 DEF Carried, LoadWithout, o

LEMMA EditIsCarried ==
    ASSUME NEW h, IsObject(h), NEW x, \A e \in Entries : 0 \in x[e], Carried(h, x),
           NEW o \in Edits(h)
    PROVE  Carried(o, x)
  <1>1. IsObject(o) /\ IdsFrom(o, h)
        BY EditIsObject
  <1> SUFFICES ASSUME NEW i \in DOMAIN o, Keyed[o[i].e] PROVE o[i].id \in x[o[i].e]
      BY DEF Carried
  <1>2. o[i] \in Node
        BY <1>1 DEF IsObject
  <1>3. CASE o[i].id = 0
        BY <1>2, <1>3 DEF Node
  <1>4. CASE \E j \in DOMAIN h : h[j].e = o[i].e /\ h[j].id = o[i].id
        BY <1>4 DEF Carried
  <1> QED BY <1>1, <1>3, <1>4 DEF IdsFrom

LEMMA SchemaIsCarried ==
    ASSUME NEW x, \A e \in Entries : 0 \in x[e]
    PROVE  Carried(Schema, x)
  <1> SUFFICES ASSUME NEW e \in Entries PROVE 0 \in x[e]
      BY SchemaIsObject DEF Carried, Schema
  <1> QED OBVIOUS

LEMMA InitCarried ==
    ASSUME Init, NEW x, \A e \in Entries : 0 \in x[e]
    PROVE  HeldAlike /\ AllCarried(x)
  <1>1. \A c \in Clients : held[c] = <<>> /\ call[c] = Idle
        BY DEF Init
  <1>2. HeldAlike
        BY <1>1 DEF HeldAlike, Busy, Idle
  <1>3. \A c \in Clients : Carried(held[c], x)
        BY <1>1 DEF Carried
  <1>4. \A c \in Clients : Carried(call[c].obj, x)
        BY <1>1, SchemaIsCarried DEF Idle
  <1> QED BY <1>2, <1>3, <1>4 DEF AllCarried

\* What holds of a step: the rowids in objects are among ids.
Carries(ids) ==
    HeldAlike' /\ \A d \in Clients : Carried(held'[d], ids) /\ Carried(call'[d].obj, ids)

LEMMA CallCarries ==
    ASSUME TypeOK, NEW x, Filed(db, x), HeldAlike, AllCarried(x), NEW c \in Clients, Call(c)
    PROVE  Carries(x)
  <1>1. DbOK /\ DOMAIN held = Clients /\ DOMAIN call = Clients
        BY DEF TypeOK, CallOK
  <1>2. ~Busy(c)
        BY DEF Call, CallCreate, CallDrop, CallInsert, CallUpdate, CallDelete, Select,
                FailSelect, Enter, Free
  <1>3. ASSUME NEW h, Carried(h, x), held' = [held EXCEPT ![c] = h], call' = call
        PROVE  Carries(x)
    <2>1. \A d \in Clients : held'[d] = IF d = c THEN h ELSE held[d]
          BY <1>1, <1>3
    <2>2. HeldAlike'
          BY <1>2, <1>3, <2>1 DEF HeldAlike, Busy
    <2> QED BY <1>3, <2>1, <2>2 DEF Carries, AllCarried
  <1>4. ASSUME NEW op, NEW o, Carried(o, x), NEW mine \in BOOLEAN, Enter(c, op, o, mine)
        PROVE  Carries(x)
    <2>0. held' = IF mine THEN [held EXCEPT ![c] = o] ELSE held
          BY <1>4 DEF Enter
    <2>1. call' = [call EXCEPT ![c] = [op |-> op, obj |-> o, todo |-> DOMAIN o, ok |-> TRUE,
                                       mine |-> mine]]
          BY <1>4 DEF Enter
    <2>2. \A d \in Clients : held'[d] = held[d] \/ held'[d] = o
          BY <1>1, <2>0
    <2>3. \A d \in Clients : call'[d].obj = call[d].obj \/ call'[d].obj = o
          BY <1>1, <2>1
    <2>4. HeldAlike'
      <3> SUFFICES ASSUME NEW d \in Clients, call'[d].todo # {}, call'[d].op = "insert",
                          call'[d].mine
                   PROVE  /\ DOMAIN held'[d] = DOMAIN call'[d].obj
                          /\ \A i \in DOMAIN held'[d] : held'[d][i].e = call'[d].obj[i].e
          BY DEF HeldAlike, Busy
      <3>1. CASE d = c
            BY <1>1, <2>0, <2>1, <3>1
      <3>2. CASE d # c
        <4>1. call'[d] = call[d] /\ held'[d] = held[d]
              BY <1>1, <2>0, <2>1, <3>2
        <4> QED BY <4>1 DEF HeldAlike, Busy
      <3> QED BY <3>1, <3>2
    <2>5. \A d \in Clients : Carried(held'[d], x) /\ Carried(call'[d].obj, x)
          BY <1>4, <2>2, <2>3 DEF AllCarried
    <2> QED BY <2>4, <2>5 DEF Carries
  <1>5. \A e \in Entries : 0 \in x[e]
        BY DEF Filed
  <1>6. CASE CallCreate(c) \/ CallDrop(c)
        BY <1>4, <1>5, <1>6, SchemaIsCarried DEF CallCreate, CallDrop
  <1>7. CASE CallInsert(c)
    <2>1. PICK o \in NewObjects, mine \in BOOLEAN : Enter(c, "insert", o, mine)
          BY <1>7 DEF CallInsert
    <2>2. IsObject(o) /\ \A i \in DOMAIN o : o[i].id = 0
          BY ObjectAssumption
    <2>3. ASSUME NEW i \in DOMAIN o PROVE o[i].id \in x[o[i].e]
      <3>1. o[i] \in Node
            BY <2>2 DEF IsObject
      <3> QED BY <1>5, <2>2, <3>1 DEF Node
    <2>4. Carried(o, x)
          BY <2>3 DEF Carried
    <2> QED BY <1>4, <2>1, <2>4
  <1>8. CASE CallUpdate(c)
    <2>1. PICK h \in Edits(held[c]) : \E i \in DOMAIN h, v \in Val :
             Enter(c, "update", [h EXCEPT ![i].val = v], TRUE)
          BY <1>8 DEF CallUpdate
    <2>2. IsObject(h) /\ Carried(h, x)
          BY <1>5, <1>8, EditIsObject, EditIsCarried DEF CallUpdate, AllCarried
    <2>3. PICK i \in DOMAIN h, v \in Val : Enter(c, "update", [h EXCEPT ![i].val = v], TRUE)
          BY <2>1
    <2> DEFINE o == [h EXCEPT ![i].val = v]
    <2>4. DOMAIN o = DOMAIN h /\ \A j \in DOMAIN h : o[j].e = h[j].e /\ o[j].id = h[j].id
          BY <2>2, <2>3, ChangeValue
    <2> HIDE DEF o
    <2>5. Carried(o, x)
          BY <2>2, <2>4 DEF Carried
    <2>6. Enter(c, "update", o, TRUE)
          BY <2>3 DEF o
    <2> QED BY <1>4, <2>5, <2>6
  <1>9. CASE CallDelete(c)
    <2>1. PICK o \in Edits(held[c]) : Enter(c, "delete", o, TRUE)
          BY <1>9 DEF CallDelete
    <2>2. Carried(o, x)
          BY <1>5, <1>9, EditIsCarried DEF CallDelete, AllCarried
    <2> QED BY <1>4, <2>1, <2>2
  <1>10. CASE Select(c)
    <2>1. PICK r \in db[1].rows : held' = [held EXCEPT ![c] = LoadWithout({})[r]]
          BY <1>10 DEF Select, Load
    <2>2. call' = call
          BY <1>10 DEF Select
    <2> QED BY <1>1, <1>3, <2>1, <2>2, SelectedIsCarried
  <1>11. CASE FailSelect(c)
    <2>1. PICK k \in Entries \ {1} : \E q \in db[Up[k]].rows, r \in db[1].rows :
             held' = [held EXCEPT ![c] = LoadWithout({<<k, q>>})[r]]
          BY <1>11 DEF FailSelect
    <2>2. PICK q \in db[Up[k]].rows, r \in db[1].rows :
             held' = [held EXCEPT ![c] = LoadWithout({<<k, q>>})[r]]
          BY <2>1
    <2>3. call' = call
          BY <1>11 DEF FailSelect
    <2> QED BY <1>1, <1>3, <2>2, <2>3, SelectedIsCarried
  <1> QED BY <1>6, <1>7, <1>8, <1>9, <1>10, <1>11 DEF Call

\* What a call still walks after a statement is what it walked, or the schema.
LEMMA OtherStatementsCarry ==
    ASSUME TypeOK, NEW x, \A e \in Entries : 0 \in x[e], HeldAlike, AllCarried(x), NEW c \in Clients,
           CreateTable(c) \/ DropTable(c) \/ UpdateRows(c) \/ DeleteRows(c) \/ FailStatement(c)
    PROVE  Carries(x)
  <1>1. CallOK
        BY DEF TypeOK
  <1>2. PICK done, ok : ok \in BOOLEAN /\ Advance(c, done, call[c].obj, ok)
        BY OtherStatements
  <1>3. call[c].op # "insert" /\ held' = held
        BY OtherStatements
  <1>4. \/ call'[c] = Idle
        \/ call'[c].op = call[c].op /\ call'[c].obj = call[c].obj
        BY <1>1, <1>2, Advanced
  <1>5. \A d \in Clients : d # c => call'[d] = call[d]
        BY <1>1, <1>2, AdvanceKeepsOp
  <1>6. \A d \in Clients : Carried(call'[d].obj, x)
    <2>1. Carried(Schema, x)
          BY SchemaIsCarried
    <2> QED BY <1>4, <1>5, <2>1 DEF Idle, AllCarried
  <1>7. HeldAlike'
    <2> SUFFICES ASSUME NEW d \in Clients, call'[d].op = "insert", call'[d].todo # {},
                        call'[d].mine
                 PROVE  /\ DOMAIN held'[d] = DOMAIN call'[d].obj
                        /\ \A i \in DOMAIN held'[d] : held'[d][i].e = call'[d].obj[i].e
        BY DEF HeldAlike, Busy
    <2>1. d # c
          BY <1>3, <1>4 DEF Idle
    <2> QED BY <1>3, <1>5, <2>1 DEF HeldAlike, Busy
  <1> QED BY <1>3, <1>6, <1>7 DEF Carries, AllCarried

\* The rowid of an insert is written to the call's object, and to the program's
\* if it is the one the program goes on holding.
WritesBack(c, i, id, tok) ==
    \/ held' = held
    \/ call[c].mine /\ held' = [held EXCEPT ![c] = Written(@, i, id, tok)]

LEMMA InsertWritesBack ==
    ASSUME NEW c, NEW i, NEW id, NEW tok, NEW p,
           held' = IF p /\ call[c].mine THEN [held EXCEPT ![c] = Written(@, i, id, tok)] ELSE held
    PROVE  WritesBack(c, i, id, tok)
  <1>1. CASE p /\ call[c].mine
        BY <1>1 DEF WritesBack
  <1>2. CASE ~(p /\ call[c].mine)
    <2>1. held' = held
          BY <1>2, Zenon
    <2> QED BY <2>1 DEF WritesBack
  <1> QED BY <1>1, <1>2

LEMMA RowidsCarry ==
    ASSUME TypeOK, HeldIsObject, NEW x, \A e \in Entries : 0 \in x[e], HeldAlike, AllCarried(x),
           NEW c \in Clients, call[c].op = "insert", NEW i \in Turn(c),
           NEW id \in 0..MaxRowid, NEW tok \in Nat, NEW ok \in BOOLEAN,
           Advance(c, {i}, Written(call[c].obj, i, id, tok), ok),
           WritesBack(c, i, id, tok),
           Keyed[call[c].obj[i].e] => id \in x[call[c].obj[i].e]
    PROVE  Carries(x)
  <1> DEFINE o == call[c].obj
             w == Written(o, i, id, tok)
             h == held[c]
             v == Written(h, i, id, tok)
  <1>1. CallOK /\ DOMAIN held = Clients
        BY DEF TypeOK
  <1>2. IsObject(o) /\ i \in DOMAIN o /\ i \in call[c].todo
        BY <1>1, TurnIsLeft DEF CallOK
  <1>3. \A d \in Clients : Carried(held[d], x) /\ Carried(call[d].obj, x)
        BY DEF AllCarried
  <1>4. /\ DOMAIN w = DOMAIN o /\ Carried(w, x)
        /\ \A j \in DOMAIN o : w[j].e = o[j].e
    <2>1. Carried(o, x) /\ (Keyed[o[i].e] => id \in x[o[i].e])
          BY <1>2, <1>3
    <2> HIDE DEF o
    <2>2. DOMAIN w = DOMAIN o /\ \A j \in DOMAIN o : w[j].e = o[j].e
          BY <1>2, WriteBack
    <2>3. Carried(w, x)
          BY <1>2, <2>1, WriteBackCarries
    <2> QED BY <2>2, <2>3
  <1>5. ASSUME call[c].mine
        PROVE  DOMAIN h = DOMAIN o /\ \A j \in DOMAIN h : h[j].e = o[j].e
        BY <1>2, <1>5 DEF HeldAlike, Busy
  <1>6. ASSUME call[c].mine PROVE IsObject(h)
    <2>1. h # <<>>
          BY <1>2, <1>5, <1>6
    <2> QED BY <2>1 DEF HeldIsObject
  <1>7. ASSUME call[c].mine
        PROVE  /\ DOMAIN v = DOMAIN h /\ Carried(v, x)
               /\ \A j \in DOMAIN h : v[j].e = h[j].e
    <2>0. IsObject(h)
          BY <1>6, <1>7
    <2>1. Keyed[h[i].e] => id \in x[h[i].e]
          BY <1>2, <1>5, <1>7
    <2>2. Carried(h, x) /\ i \in DOMAIN h
          BY <1>2, <1>3, <1>5, <1>7
    <2> HIDE DEF h
    <2>3. DOMAIN v = DOMAIN h /\ \A j \in DOMAIN h : v[j].e = h[j].e
          BY <2>0, <2>2, WriteBack
    <2>4. Carried(v, x)
          BY <2>0, <2>1, <2>2, WriteBackCarries
    <2> QED BY <2>3, <2>4
  <1>8. \/ call'[c] = Idle
        \/ call'[c].op = call[c].op /\ call'[c].obj = w /\ call'[c].mine = call[c].mine
        BY <1>1, Advanced, AdvanceKeepsMine
  <1>9. \A d \in Clients : d # c => call'[d] = call[d]
        BY <1>1, AdvanceKeepsOp
  <1>10. /\ held'[c] = h \/ (call[c].mine /\ held'[c] = v)
         /\ \A d \in Clients : d # c => held'[d] = held[d]
        BY <1>1 DEF WritesBack
  <1>11. Carried(Schema, x)
         BY SchemaIsCarried
  <1>12. ASSUME NEW d \in Clients PROVE Carried(held'[d], x) /\ Carried(call'[d].obj, x)
    <2>1. CASE d # c
          BY <1>3, <1>9, <1>10, <2>1
    <2>2. CASE d = c
          BY <1>3, <1>4, <1>7, <1>8, <1>10, <1>11, <2>2 DEF Idle
    <2> QED BY <2>1, <2>2
  <1>13. HeldAlike'
    <2> SUFFICES ASSUME NEW d \in Clients, call'[d].op = "insert", call'[d].todo # {},
                        call'[d].mine
                 PROVE  /\ DOMAIN held'[d] = DOMAIN call'[d].obj
                        /\ \A j \in DOMAIN held'[d] : held'[d][j].e = call'[d].obj[j].e
        BY DEF HeldAlike, Busy
    <2>1. CASE d # c
          BY <1>9, <1>10, <2>1 DEF HeldAlike, Busy
    <2>2. CASE d = c
      <3>1. call'[c].obj = w /\ call[c].mine
            BY <1>8, <2>2 DEF Idle
      <3> QED BY <1>4, <1>5, <1>7, <1>10, <2>2, <3>1
    <2> QED BY <2>1, <2>2
  <1> QED BY <1>12, <1>13 DEF Carries

\* The row an INSERT adds, and where its rowid is written.
AddsRow(c, i, row) ==
    LET o   == call[c].obj
        e   == o[i].e
        key == IF Keyed[e] THEN row.id ELSE 0
    IN  /\ e \in Entries /\ row.id \in NextRowids(e) /\ row.tok = clock + 1
        /\ row.pid = ParentId(c, i) /\ db' = Inserted(e, row)
        /\ db'[e].rows = db[e].rows \cup {row}
        /\ db'[e].seq = IF Keyed[e] THEN row.id ELSE db[e].seq
        /\ \A k \in Entries : k # e => db'[k] = db[k]
        /\ key \in 0..MaxRowid /\ clock + 1 \in Nat
        /\ Advance(c, {i}, Written(o, i, key, clock + 1), TRUE)
        /\ WritesBack(c, i, key, clock + 1)

LEMMA InsertAddsRow ==
    ASSUME TypeOK, NEW c \in Clients, InsertRow(c)
    PROVE  \E i \in Turn(c) : \E row : AddsRow(c, i, row)
  <1> DEFINE o == call[c].obj
             Key(i, id) == IF Keyed[o[i].e] THEN id ELSE 0
  <1>1. PICK i \in Turn(c) :
          \E id \in NextRowids(o[i].e) :
             /\ \E row \in [id : {id}, pid : {ParentId(c, i)}, val : {o[i].val}, tok : {clock + 1},
                            ptok : {IF Linked(o[i].e) THEN o[o[i].up].tok ELSE 0}] :
                   db' = Inserted(o[i].e, row)
             /\ Advance(c, {i}, Written(o, i, Key(i, id), clock + 1), TRUE)
             /\ held' = IF ByRef[o[i].e] /\ call[c].mine
                        THEN [held EXCEPT ![c] = Written(@, i, Key(i, id), clock + 1)] ELSE held
        BY DEF InsertRow
  <1> DEFINE e == o[i].e
  <1>2. PICK id \in NextRowids(e) :
             /\ \E row : /\ row.id = id /\ row.pid = ParentId(c, i) /\ row.tok = clock + 1
                         /\ db' = Inserted(e, row)
             /\ Advance(c, {i}, Written(o, i, Key(i, id), clock + 1), TRUE)
             /\ held' = IF ByRef[e] /\ call[c].mine
                        THEN [held EXCEPT ![c] = Written(@, i, Key(i, id), clock + 1)] ELSE held
        BY <1>1
  <1>3. PICK row : /\ row.id = id /\ row.pid = ParentId(c, i) /\ row.tok = clock + 1
                   /\ db' = Inserted(e, row)
        BY <1>2
  <1>4. DbOK /\ CallOK /\ db \in [Entries -> Table] /\ clock \in Nat
        BY DEF TypeOK, DbOK
  <1>5. e \in Entries
        BY <1>4, TurnIsLeft
  <1>6. id \in 1..MaxRowid
        BY <1>4, <1>5, RowidIsNew
  <1>7. /\ db'[e].rows = db[e].rows \cup {row}
        /\ db'[e].seq = IF Keyed[e] THEN id ELSE db[e].seq
        /\ \A k \in Entries : k # e => db'[k] = db[k]
        BY <1>3, <1>4, <1>5 DEF Inserted, Autoincrement, Table
  <1>8. Key(i, id) \in 0..MaxRowid /\ clock + 1 \in Nat
        BY <1>4, <1>6, BoundAssumption
  <1>9. Advance(c, {i}, Written(o, i, Key(i, id), clock + 1), TRUE)
        BY <1>2
  <1>10. WritesBack(c, i, Key(i, id), clock + 1)
        BY <1>2, InsertWritesBack
  <1> QED BY <1>2, <1>3, <1>5, <1>7, <1>8, <1>9, <1>10 DEF AddsRow

\* What is in objects after a step was there before, or came from a table.
LEMMA NextCarries ==
    ASSUME TypeOK, HeldIsObject, HeldAlike, NEW x, NEW y, Filed(db, x), Filed(db', y),
           \A e \in Entries : x[e] \subseteq y[e], AllCarried(x), [Next]_vars
    PROVE  Carries(y)
  <1>1. DbOK /\ CallOK /\ DOMAIN held = Clients /\ DOMAIN call = Clients
        BY DEF TypeOK, CallOK
  <1>2. Filed(db, y) /\ \A e \in Entries : 0 \in y[e]
        BY DEF Filed
  <1>3. AllCarried(y)
    <2> SUFFICES ASSUME NEW c \in Clients PROVE Carried(held[c], y) /\ Carried(call[c].obj, y)
        BY DEF AllCarried
    <2>1. IsObject(call[c].obj) /\ (held[c] # <<>> => IsObject(held[c]))
          BY <1>1 DEF CallOK, HeldIsObject
    <2>2. Carried(held[c], x) /\ Carried(call[c].obj, x)
          BY DEF AllCarried
    <2> QED BY <2>1, <2>2, CarriedLater
  <1>4. ASSUME NEW c \in Clients, Call(c) PROVE Carries(y)
        BY <1>2, <1>3, <1>4, CallCarries
  <1>5. ASSUME NEW c \in Clients, InsertRow(c) PROVE Carries(y)
    <2>0. PICK i \in Turn(c) : \E row : AddsRow(c, i, row)
          BY <1>5, InsertAddsRow
    <2>1. PICK row : AddsRow(c, i, row)
          BY <2>0
    <2> DEFINE e   == call[c].obj[i].e
               key == IF Keyed[e] THEN row.id ELSE 0
    <2>2. call[c].op = "insert"
          BY <1>5 DEF InsertRow
    <2>3. /\ e \in Entries /\ row \in db'[e].rows /\ key \in 0..MaxRowid /\ clock + 1 \in Nat
          /\ Advance(c, {i}, Written(call[c].obj, i, key, clock + 1), TRUE)
          /\ WritesBack(c, i, key, clock + 1)
          BY <2>1 DEF AddsRow
    <2>4. Keyed[e] => key \in y[e]
          BY <2>3 DEF Filed
    <2> HIDE DEF key
    <2> QED BY <1>2, <1>3, <2>2, <2>3, <2>4, RowidsCarry
  <1>6. ASSUME NEW c \in Clients, FailInsert(c) PROVE Carries(y)
    <2>1. PICK i \in Turn(c) :
            /\ Advance(c, {i}, Written(call[c].obj, i, 0, 0), FALSE)
            /\ held' = IF ByRef[call[c].obj[i].e] /\ call[c].mine
                       THEN [held EXCEPT ![c] = Written(@, i, 0, 0)] ELSE held
          BY <1>6 DEF FailInsert
    <2>5. WritesBack(c, i, 0, 0)
          BY <2>1, InsertWritesBack
    <2>2. call[c].op = "insert" /\ 0 \in 0..MaxRowid /\ 0 \in Nat
          BY <1>6, BoundAssumption DEF FailInsert
    <2>3. call[c].obj[i].e \in Entries
          BY <1>1, TurnIsLeft
    <2>4. 0 \in y[call[c].obj[i].e]
          BY <1>2, <2>3
    <2> QED BY <1>2, <1>3, <2>1, <2>2, <2>4, <2>5, RowidsCarry
  <1>7. ASSUME NEW c \in Clients, Statement(c) PROVE Carries(y)
        BY <1>2, <1>3, <1>5, <1>6, <1>7, OtherStatementsCarry DEF Statement
  <1>8. ASSUME NEW c \in Clients, Crash(c) PROVE Carries(y)
    <2>1. call' = [call EXCEPT ![c] = Idle] /\ held' = [held EXCEPT ![c] = <<>>]
          BY <1>8 DEF Crash
    <2>2. \A d \in Clients : d # c => call'[d] = call[d] /\ held'[d] = held[d]
          BY <2>1
    <2>3. call'[c] = Idle /\ held'[c] = <<>>
          BY <1>1, <2>1
    <2>4. HeldAlike'
          BY <2>2, <2>3 DEF HeldAlike, Busy, Idle
    <2>5. Carried(Schema, y) /\ Carried(<<>>, y)
          BY <1>2, SchemaIsCarried DEF Carried
    <2>6. \A d \in Clients : Carried(held'[d], y) /\ Carried(call'[d].obj, y)
          BY <1>3, <2>2, <2>3, <2>5 DEF Idle, AllCarried
    <2> QED BY <2>4, <2>6 DEF Carries
  <1>9. CASE UNCHANGED vars
        BY <1>3, <1>9 DEF vars, Carries, HeldAlike, Busy, AllCarried
  <1> QED BY <1>4, <1>7, <1>8, <1>9 DEF Next

-----------------------------------------------------------------------------
(* A rowid somebody holds is not given out again.                          *)

\* The rowids up to the mark of each table.
UpToMark == [e \in Entries |-> 0..db[e].seq]

MarkInv ==
    /\ TypeOK /\ HeldIsObject /\ OnlyCalls(Operations \ {"drop"})
    /\ \A e \in Entries : \A r \in db[e].rows : r.tok <= clock
    /\ Filed(db, UpToMark) /\ HeldAlike /\ AllCarried(UpToMark)

LEMMA InitMarkInv == Init => MarkInv
  <1> SUFFICES ASSUME Init PROVE MarkInv
      OBVIOUS
  <1>1. TypeOK /\ HeldIsObject /\ OnlyCalls(Operations \ {"drop"})
    <2>1. "create" \in Operations \ {"drop"}
          BY DEF Operations
    <2> QED BY <2>1, InitTypeOK, InitOnlyCalls DEF Init, HeldIsObject
  <1>2. \A e \in Entries : db[e].rows = {} /\ db[e].seq = 0
        BY DEF Init, NoTable
  <1>3. \A e \in Entries : 0 \in UpToMark[e]
        BY <1>2 DEF UpToMark
  <1>4. HeldAlike /\ AllCarried(UpToMark)
        BY <1>3, InitCarried
  <1> QED BY <1>1, <1>2, <1>3, <1>4 DEF MarkInv, Filed

\* UPDATE writes a rowid from an object over a row: one below the mark.
LEMMA UpdateStaysFiled ==
    ASSUME TypeOK, NEW x, Filed(db, x), AllCarried(x), NEW c \in Clients, UpdateRows(c)
    PROVE  /\ Filed(db', x) /\ \A e \in Entries : db'[e].seq = db[e].seq
           /\ \A e \in Entries : \A r \in db'[e].rows : \E q \in db[e].rows : r.tok = q.tok
  <1>1. DbOK /\ CallOK /\ db \in [Entries -> Table]
        BY DEF TypeOK, DbOK
  <1>2. PICK i \in Turn(c) :
           LET n == call[c].obj[i]
           IN  Keyed[n.e] /\ db' = Updated(n.e, ParentId(c, i), n.id, n.val)
        BY DEF UpdateRows
  <1> DEFINE n == call[c].obj[i]
  <1>3. n.e \in Entries /\ n.id \in x[n.e]
    <2>1. i \in DOMAIN call[c].obj /\ n \in Node
          BY <1>1, TurnIsLeft
    <2> QED BY <1>2, <2>1 DEF AllCarried, Carried, Node
  <1>4. Keyed[n.e] /\ db' = Updated(n.e, ParentId(c, i), n.id, n.val)
        BY <1>2
  <1> HIDE DEF n
  <1>5. PICK hit \in SUBSET db[n.e].rows :
           db' = [db EXCEPT ![n.e].rows =
                    (@ \ hit) \cup {[r EXCEPT !.id = n.id, !.val = n.val] : r \in hit}]
        BY <1>4 DEF Updated, Matching
  <1>6. /\ \A e \in Entries : db'[e].seq = db[e].seq
        /\ \A e \in Entries : e # n.e => db'[e].rows = db[e].rows
        /\ db'[n.e].rows = (db[n.e].rows \ hit) \cup
                              {[r EXCEPT !.id = n.id, !.val = n.val] : r \in hit}
        BY <1>1, <1>3, <1>5 DEF Table
  <1>7. ASSUME NEW r \in db'[n.e].rows
        PROVE  r.id \in x[n.e] /\ \E q \in db[n.e].rows : r.tok = q.tok
    <2>1. CASE r \in db[n.e].rows
          BY <1>3, <1>4, <2>1 DEF Filed
    <2>2. CASE \E q \in hit : r = [q EXCEPT !.id = n.id, !.val = n.val]
      <3>1. PICK q \in hit : r = [q EXCEPT !.id = n.id, !.val = n.val]
            BY <2>2
      <3>2. q \in Row
            BY <1>1, <1>3 DEF Table
      <3>3. r.tok = q.tok /\ r.id = n.id
            BY <3>1, <3>2 DEF Row
      <3> QED BY <1>3, <3>3
    <2> QED BY <1>6, <2>1, <2>2
  <1> QED BY <1>6, <1>7 DEF Filed

\* After a step a row is one of before, maybe under another rowid up to the mark,
\* or the new one of an INSERT, beyond it.
Aged(e, r) == r.tok <= clock /\ (Keyed[e] => r.id \in 0..db[e].seq)
Fresh(e, r) ==
    /\ r.tok = clock + 1 /\ clock' = clock + 1
    /\ Keyed[e] => r.id \in 1..MaxRowid /\ r.id > db[e].seq /\ db'[e].seq = r.id
AgedOrFresh == \A e \in Entries : \A r \in db'[e].rows : Aged(e, r) \/ Fresh(e, r)

LEMMA StepIsFresh ==
    ASSUME MarkInv, [Next]_vars
    PROVE  AgedOrFresh /\ clock' \in {clock, clock + 1} /\ \A e \in Entries : db[e].seq <= db'[e].seq
  <1>1. TypeOK /\ DbOK /\ CallOK /\ db \in [Entries -> Table] /\ clock \in Nat
        BY DEF MarkInv, TypeOK, DbOK
  <1>2. \A e \in Entries : db[e].seq \in Nat
        BY <1>1, BoundAssumption DEF Table
  <1>3. \A e \in Entries : \A r \in db[e].rows : Aged(e, r)
        BY DEF MarkInv, Filed, UpToMark, Aged
  <1>4. ASSUME clock' = clock, \A e \in Entries : db'[e].rows \subseteq db[e].rows,
               \A e \in Entries : db'[e].seq = db[e].seq
        PROVE  AgedOrFresh /\ clock' \in {clock, clock + 1} /\ \A e \in Entries : db[e].seq <= db'[e].seq
        BY <1>2, <1>3, <1>4 DEF AgedOrFresh
  <1>5. ASSUME NEW c \in Clients, InsertRow(c)
        PROVE  AgedOrFresh /\ clock' \in {clock, clock + 1} /\ \A e \in Entries : db[e].seq <= db'[e].seq
    <2>0. PICK i \in Turn(c) : \E row : AddsRow(c, i, row)
          BY <1>1, <1>5, InsertAddsRow
    <2>1. PICK row : AddsRow(c, i, row)
          BY <2>0
    <2>2. PICK e : e = call[c].obj[i].e
          OBVIOUS
    <2>3. /\ e \in Entries /\ row.id \in NextRowids(e) /\ row.tok = clock + 1
          /\ db'[e].rows = db[e].rows \cup {row}
          /\ db'[e].seq = IF Keyed[e] THEN row.id ELSE db[e].seq
          /\ \A k \in Entries : k # e => db'[k] = db[k]
          BY <2>1, <2>2 DEF AddsRow
    <2>4. row.id \in 1..MaxRowid /\ (Keyed[e] => row.id > db[e].seq)
          BY <1>1, <2>3, RowidIsNew
    <2>5. clock' = clock + 1
          BY <1>5 DEF InsertRow
    <2>6. Fresh(e, row)
          BY <2>3, <2>4, <2>5 DEF Fresh
    <2>7. \A k \in Entries : db[k].seq <= db'[k].seq
          BY <1>2, <2>3, <2>4, BoundAssumption
    <2>8. AgedOrFresh
          BY <1>3, <2>3, <2>6 DEF AgedOrFresh
    <2> QED BY <2>5, <2>7, <2>8
  <1>6. ASSUME NEW c \in Clients, Statement(c)
        PROVE  AgedOrFresh /\ clock' \in {clock, clock + 1} /\ \A e \in Entries : db[e].seq <= db'[e].seq
    <2>1. CASE CreateTable(c)
      <3>1. PICK i \in Turn(c) : db' = [db EXCEPT ![Entry(c, i)].exists = TRUE]
            BY <2>1 DEF CreateTable
      <3>2. \A e \in Entries : db'[e].rows = db[e].rows /\ db'[e].seq = db[e].seq
            BY <1>1, <3>1 DEF Table
      <3>3. clock' = clock
            BY <2>1 DEF CreateTable
      <3> QED BY <1>4, <3>2, <3>3
    <2>2. CASE DropTable(c)
          BY <2>2 DEF DropTable, MarkInv, OnlyCalls
    <2>3. CASE UpdateRows(c)
      <3>1. /\ Filed(db', UpToMark) /\ \A e \in Entries : db'[e].seq = db[e].seq
            /\ \A e \in Entries : \A r \in db'[e].rows : \E q \in db[e].rows : r.tok = q.tok
            <4>1. PICK x : x = UpToMark
                  OBVIOUS
            <4> QED BY <1>1, <2>3, <4>1, UpdateStaysFiled DEF MarkInv
      <3>2. clock' = clock
            BY <2>3 DEF UpdateRows
      <3>3. AgedOrFresh
        <4> SUFFICES ASSUME NEW e \in Entries, NEW r \in db'[e].rows PROVE Aged(e, r)
            BY DEF AgedOrFresh
        <4>1. r.tok <= clock
              BY <1>3, <3>1 DEF Aged
        <4>2. Keyed[e] => r.id \in 0..db[e].seq
              BY <3>1 DEF Filed, UpToMark
        <4> QED BY <4>1, <4>2 DEF Aged
      <3> QED BY <1>2, <3>1, <3>2, <3>3
    <2>4. CASE DeleteRows(c)
      <3>1. PICK i \in Turn(c) : db' = Deleted(Entry(c, i), ParentId(c, i))
            BY <2>4 DEF DeleteRows
      <3>2. \A e \in Entries : db'[e].rows \subseteq db[e].rows /\ db'[e].seq = db[e].seq
            BY <1>1, <3>1 DEF Table, Deleted
      <3>3. clock' = clock
            BY <2>4 DEF DeleteRows
      <3> QED BY <1>4, <3>2, <3>3
    <2>5. CASE FailStatement(c) \/ FailInsert(c)
          BY <1>4, <2>5 DEF FailStatement, FailInsert
    <2> QED BY <1>5, <1>6, <2>1, <2>2, <2>3, <2>4, <2>5 DEF Statement
  <1>7. ASSUME NEW c \in Clients, Call(c) \/ Crash(c) PROVE db' = db /\ clock' = clock
        BY <1>7 DEF Call, CallCreate, CallDrop, CallInsert, CallUpdate, CallDelete, Select,
                    FailSelect, Enter, Crash
  <1>8. CASE UNCHANGED vars
        BY <1>4, <1>8 DEF vars
  <1> QED BY <1>4, <1>6, <1>7, <1>8 DEF Next

LEMMA NextMarkInv ==
    ASSUME "drop" \notin Calls
    PROVE  MarkInv /\ [Next]_vars => MarkInv'
  <1> SUFFICES ASSUME MarkInv, [Next]_vars PROVE MarkInv'
      OBVIOUS
  <1>1. TypeOK' /\ HeldIsObject' /\ OnlyCalls(Operations \ {"drop"})'
    <2>1. "create" \in Operations \ {"drop"} /\ Calls \ {"select"} \subseteq Operations \ {"drop"}
          BY BoundAssumption DEF Operations
    <2> QED BY <2>1, NextTypeOK, NextHeldIsObject, NextOnlyCalls DEF MarkInv, TypeOK
  <1>2. /\ AgedOrFresh /\ clock' \in {clock, clock + 1}
        /\ \A e \in Entries : db[e].seq <= db'[e].seq
        BY StepIsFresh
  <1>3. clock \in Nat /\ \A e \in Entries : db[e].seq \in Nat /\ db'[e].seq \in Nat
        BY <1>1, BoundAssumption DEF MarkInv, TypeOK, DbOK, Table
  <1>4. PICK x : x = UpToMark
        OBVIOUS
  <1>5. PICK y : y = [e \in Entries |-> 0..db'[e].seq]
        OBVIOUS
  <1>6. \A e \in Entries : x[e] \subseteq y[e]
        BY <1>2, <1>3, <1>4, <1>5 DEF UpToMark
  <1>7. Filed(db', y) /\ \A e \in Entries : \A r \in db'[e].rows : r.tok <= clock'
    <2> SUFFICES ASSUME NEW e \in Entries
                 PROVE  0 \in y[e] /\ \A r \in db'[e].rows : r.tok <= clock' /\ (Keyed[e] => r.id \in y[e])
        BY DEF Filed
    <2>1. y[e] = 0..db'[e].seq
          BY <1>5
    <2>2. ASSUME NEW r \in db'[e].rows PROVE r.tok <= clock' /\ (Keyed[e] => r.id \in y[e])
      <3>1. r.tok \in Nat
            BY <1>1 DEF TypeOK, DbOK, Table, Row
      <3>2. CASE Aged(e, r)
        <4>1. r.tok <= clock'
              BY <1>2, <1>3, <3>1, <3>2 DEF Aged
        <4>2. Keyed[e] => r.id \in y[e]
              BY <1>2, <1>3, <2>1, <3>2 DEF Aged
        <4> QED BY <4>1, <4>2
      <3>3. CASE Fresh(e, r)
        <4>1. r.tok <= clock'
              BY <1>3, <3>3 DEF Fresh
        <4>2. Keyed[e] => r.id \in y[e]
              BY <1>3, <2>1, <3>3, BoundAssumption DEF Fresh
        <4> QED BY <4>1, <4>2
      <3> QED BY <1>2, <3>2, <3>3 DEF AgedOrFresh
    <2> QED BY <1>3, <2>1, <2>2
  <1>8. Carries(y)
    <2>1. Filed(db, x) /\ AllCarried(x) /\ TypeOK /\ HeldIsObject /\ HeldAlike
          BY <1>4 DEF MarkInv
    <2> QED BY <1>6, <1>7, <2>1, NextCarries
  <1>9. Filed(db, UpToMark)' /\ AllCarried(UpToMark)' /\ HeldAlike'
        BY <1>5, <1>7, <1>8 DEF Carries, AllCarried, Carried, Filed, UpToMark
  <1> QED BY <1>1, <1>7, <1>9 DEF MarkInv

\* The step for FreshRowids.
FreshStep ==
    \A e \in Entries : Keyed[e] =>
      \A r \in db'[e].rows \ db[e].rows : r.tok > clock =>
        \A c \in Clients : held[c] # <<>> =>
          \A i \in DOMAIN held[c] : held[c][i].e = e => held[c][i].id # r.id

LEMMA NextFreshStep == MarkInv /\ [Next]_vars => FreshStep
  <1> SUFFICES ASSUME MarkInv, [Next]_vars,
                      NEW e \in Entries, Keyed[e], NEW r \in db'[e].rows, r.tok > clock,
                      NEW c \in Clients, NEW i \in DOMAIN held[c], held[c][i].e = e
               PROVE  held[c][i].id # r.id
      BY DEF FreshStep
  <1>1. TypeOK' /\ clock \in Nat /\ db[e].seq \in Nat
        BY NextTypeOK, BoundAssumption DEF MarkInv, TypeOK, DbOK, Table
  <1>2. r.tok \in Nat
        BY <1>1 DEF TypeOK, DbOK, Table, Row
  <1>3. r.id \in 1..MaxRowid /\ r.id > db[e].seq
    <2>1. ~Aged(e, r)
          BY <1>1, <1>2 DEF Aged
    <2> QED BY <2>1, StepIsFresh DEF AgedOrFresh, Fresh
  <1>4. held[c][i].id \in 0..db[e].seq
        BY DEF MarkInv, AllCarried, Carried, UpToMark
  <1> QED BY <1>1, <1>3, <1>4, BoundAssumption

\* As long as no table is dropped, and whatever else any number of clients do, a
\* rowid that a client still holds is not given to a new row, whichever way the
\* client got it and whatever an UPDATE wrote over (OrmEngine!FreshRowids;
\* AUTOINCREMENT, sqliteorm.cpp:113).
THEOREM HeldRowidsStay ==
    ASSUME "drop" \notin Calls
    PROVE  Spec => FreshRowids
  <1>1. MarkInv /\ [Next]_vars => [FreshStep]_vars
        BY NextFreshStep
  <1>2. Spec => [][FreshStep]_vars
        BY <1>1, InitMarkInv, NextMarkInv, PTL DEF Spec
  <1> QED BY <1>2 DEF FreshRowids, FreshStep

=============================================================================
