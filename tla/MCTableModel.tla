----------------------------- MODULE MCTableModel -----------------------------
(* Swapped against std::swap_ranges as it is written, for TLC.               *)
EXTENDS TableModel

\* The rows after i swaps.
SwapRanges(s, a, b, n) ==
    LET after[i \in 0..n] ==
            IF i = 0 THEN s
            ELSE [after[i - 1] EXCEPT ![a + i] = after[i - 1][b + i], ![b + i] = after[i - 1][a + i]]
    IN  after[n]

\* Every pair of ranges in up to seven rows: what one after the other leaves is
\* Swapped, and it is the announced move when MovesAsTold says so, only then.
ASSUME SwappedIsSwapRanges ==
    \A len \in 0..7 :
        LET s == [i \in 1..len |-> i]
        IN  \A n \in 1..len, r \in 0..len, dest \in 0..len :
              r + n <= len /\ dest + n <= len /\ dest \notin r..(r + n) =>
                LET done == Swapped(s, IF dest < r THEN dest ELSE r,
                                       IF dest < r THEN r - dest ELSE dest - r, n)
                IN  /\ done = SwapRanges(s, r, dest, n)
                    /\ MovesAsTold(r, n, dest) <=> done = Moved(s, r, n, dest)

=============================================================================
