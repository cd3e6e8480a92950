-------------------------- MODULE DiscoveryPromise --------------------------
(***************************************************************************)
(* What a slice build may expect of discover_resolutions: an answer names  *)
(* every wanted contract that Gamma listed when the call began, and none   *)
(* that Gamma does not list when it returns.  Gamma goes on listing        *)
(* contracts meanwhile.  The call may raise instead; it never answers with *)
(* a part of what it found.                                                *)
(***************************************************************************)
CONSTANT Slugs

VARIABLES
  listed,  \* contracts Gamma lists
  had,     \* contracts Gamma listed when the call began
  wanted,  \* contracts the target and its window ask for
  phase,   \* "running", "returned" or "raised"
  answer   \* contracts of the answer

vars == <<listed, had, wanted, phase, answer>>

Init ==
  /\ listed \in SUBSET Slugs
  /\ had = listed
  /\ wanted \in SUBSET Slugs
  /\ phase = "running"
  /\ answer = {}

List(s) ==
  /\ s \notin listed
  /\ listed' = listed \cup {s}
  /\ UNCHANGED <<had, wanted, phase, answer>>

Return(found) ==
  /\ phase = "running"
  /\ had \cap wanted \subseteq found
  /\ found \subseteq listed \cap wanted
  /\ phase' = "returned"
  /\ answer' = found
  /\ UNCHANGED <<listed, had, wanted>>

Raise ==
  /\ phase = "running"
  /\ phase' = "raised"
  /\ UNCHANGED <<listed, had, wanted, answer>>

Next ==
  \/ \E s \in Slugs : List(s)
  \/ \E found \in SUBSET Slugs : Return(found)
  \/ Raise

Spec == Init /\ [][Next]_vars

=============================================================================
