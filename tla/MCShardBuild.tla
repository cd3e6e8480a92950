---------------------------- MODULE MCShardBuild ----------------------------
(***************************************************************************)
(* TLC instances of ShardBuild.                                            *)
(***************************************************************************)
EXTENDS ShardBuild

\* Discovery may miss any contract.
MCFlaky == SUBSET Contracts

=============================================================================
