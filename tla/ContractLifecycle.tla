------------------------- MODULE ContractLifecycle -------------------------
(***************************************************************************)
(* What a strategy may rely on while it follows one Polymarket series: the *)
(* meaning of the four contract events (src/README.md, "Polymarket Replay  *)
(* Contract Rules").  At any time the stream shows at most one current     *)
(* contract and at most one next contract that is still ahead of it;       *)
(* contracts appear in the order of their start times, and a contract that *)
(* was shown as next becomes current, unless the stream leaps over it.     *)
(*                                                                         *)
(* A contract is identified by its start time, a natural number.           *)
(***************************************************************************)
EXTENDS Naturals

CONSTANT Contracts

VARIABLE status  \* per contract: what the stream has said of it last

Statuses == {"unseen", "next", "current", "resolved"}

Shown(what) == \E d \in Contracts : status[d] = what

\* c is unseen and starts after everything seen so far.
Upcoming(c) == \A d \in Contracts : status[d] # "unseen" => d < c

Become(c, what) == status' = [status EXCEPT ![c] = what]

-----------------------------------------------------------------------------

Init == status = [c \in Contracts |-> "unseen"]

ListCurrent(c) ==
  /\ ~Shown("current")
  /\ Upcoming(c)
  /\ Become(c, "current")

\* A next contract that was leapt over does not count.
ListNext(c) ==
  /\ \E d \in Contracts :
       /\ status[d] = "current"
       /\ \A e \in Contracts : status[e] = "next" => e < d
  /\ Upcoming(c)
  /\ Become(c, "next")

Activate(c) ==
  /\ ~Shown("current")
  /\ status[c] = "next"
  /\ \A d \in Contracts : status[d] # "unseen" => d <= c
  /\ Become(c, "current")

Resolve(c) ==
  /\ status[c] = "current"
  /\ Become(c, "resolved")

Next == \E c \in Contracts : ListCurrent(c) \/ ListNext(c) \/ Activate(c) \/ Resolve(c)

Spec == Init /\ [][Next]_status

=============================================================================
