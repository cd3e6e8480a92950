---------------------------- MODULE MCBookRepair ----------------------------
(***************************************************************************)
(* TLC instances of BookRepair.                                            *)
(***************************************************************************)
EXTENDS BookRepair

\* Best prices on and beside the ladder 1..3: 0 (no bid) and 4 (above all).
MCBounds      == 0..4
MCBoundsNone  == (0..4) \cup {NoBound}

=============================================================================
