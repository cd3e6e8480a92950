------------------------- MODULE MCContractSchedule -------------------------
(***************************************************************************)
(* TLC instances of ContractSchedule: up to six adjacent contracts of      *)
(* length 2, so that a timestamp may be on a boundary or within a          *)
(* contract, and every way discovery may have missed some of them.         *)
(***************************************************************************)
EXTENDS ContractSchedule

MCLadder == {0, 2, 4, 6, 8, 10}

=============================================================================
