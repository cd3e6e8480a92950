-------------------------- MODULE MCGoldenCompare ---------------------------
(***************************************************************************)
(* TLC instances of GoldenCompare: all slices of up to MaxRows rows and    *)
(* all captures of up to MaxLines lines, over a few changes of a book.     *)
(***************************************************************************)
EXTENDS GoldenCompare, TLC

CONSTANTS a, x,  \* instruments
          MaxRows, MaxLines

Book(bid, ask) ==
  [side \in Sides |-> [p \in Prices |->
     IF (side = "bids" /\ p = bid) \/ (side = "asks" /\ p = ask) THEN 1 ELSE 0]]

Snapshot(bid, ask) == [kind |-> "snapshot", book |-> Book(bid, ask)]
Delta(levels) == [kind |-> "delta", levels |-> levels]
Level(side, px, sz) == [side |-> side, px |-> px, sz |-> sz]

RowChanges == {Snapshot(1, 3), Delta(<<Level("bids", 2, 1)>>),
               Delta(<<Level("asks", 3, 0), Level("asks", 2, 2)>>)}
LineChanges == {Snapshot(1, 3), Delta(<<Level("bids", 2, 1)>>)}

Rows == {[ts |-> t, inst |-> a, change |-> c] : t \in 2..3, c \in RowChanges}
          \cup {[ts |-> t, inst |-> x, change |-> Snapshot(1, 3)] : t \in 2..3}
Lines == {[ts |-> t, inst |-> a, change |-> c] : t \in 1..4, c \in LineChanges}
           \cup {[ts |-> t, inst |-> x, change |-> Snapshot(1, 3)] : t \in 1..4}

Sorted(s) == \A k \in 1..(Len(s) - 1) : s[k].ts <= s[k + 1].ts

MCSlices == {s \in BoundedSeq(Rows, MaxRows) : s # <<>> /\ Sorted(s)}

\* Lines are written in any order of their capture sequence.
Numbered(s, order) ==
  [k \in DOMAIN s |-> [ts |-> s[k].ts, inst |-> s[k].inst, change |-> s[k].change,
                       seq |-> order[k]]]
MCCaptures ==
  UNION {{Numbered(s, order) : s \in [1..n -> Lines], order \in Permutations(1..n)} :
           n \in 0..MaxLines}

=============================================================================
