---------------------------- MODULE MCRawMirror ----------------------------
(***************************************************************************)
(* TLC instances of RawMirror.                                             *)
(***************************************************************************)
EXTENDS RawMirror

\* An hour of each dataset.
MCCells == {<<"pmxt", 0>>, <<"l2", 0>>, <<"fills", 0>>}

=============================================================================
