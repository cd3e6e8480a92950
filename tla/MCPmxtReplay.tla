---------------------------- MODULE MCPmxtReplay ----------------------------
(***************************************************************************)
(* TLC instances of PmxtReplay.                                            *)
(***************************************************************************)
EXTENDS PmxtReplay

MCBounds    == 0..4
MCEmptyBest == [s \in Sides |-> IF s = "Buy" THEN 0 ELSE 4]

=============================================================================
