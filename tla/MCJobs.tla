------------------------------- MODULE MCJobs -------------------------------
(***************************************************************************)
(* TLC instances of Jobs: a scheduled window of two days fired every one   *)
(* or two days, and users who ask for the first day, which is over when a  *)
(* job begins on the next one only, or for yesterday.  MaxAsks ends the    *)
(* behaviours, so the configuration does not ask for deadlocks.            *)
(***************************************************************************)
EXTENDS Jobs, TLC

MCRequests ==
  {[explicit |-> TRUE, from |-> 0, to |-> 0],
   [explicit |-> FALSE, from |-> -1, to |-> -1]}

MCSymmetry == Permutations(Slots)

MCFrom == -2
MCTo   == -1
MCGaps == {1, 2}

=============================================================================
