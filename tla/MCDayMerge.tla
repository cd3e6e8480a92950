----------------------------- MODULE MCDayMerge -----------------------------
(* Instances of DayMerge for TLC: every sorted file of at most MaxRows rows *)
(* with timestamps 1..MaxTs and row numbers 1..MaxRows.                     *)
EXTENDS DayMerge

CONSTANTS MaxRows, MaxTs

MCFiles ==
  {f \in UNION {[1..n -> (1..MaxTs) \X (1..MaxRows)] : n \in 0..MaxRows} :
     /\ SortedFile(f)
     /\ \A i, j \in DOMAIN f : f[i][2] = f[j][2] => i = j}

=============================================================================
