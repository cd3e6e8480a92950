-------------------------- MODULE ContractSchedule --------------------------
(***************************************************************************)
(* The contract lifecycle state machine of the replay                      *)
(* (_PolymarketContractSchedule in canonical.py): it steps a current and a *)
(* next contract forward as the timestamps of the replayed rows advance,   *)
(* and emits the contract events, which the consumer of the stream applies *)
(* one by one to its own view of the series.                               *)
(*                                                                         *)
(* All contracts of a series last equally long and none starts before its  *)
(* predecessor ends; discovery may have missed some, so the ladder may     *)
(* have gaps.  Both ends of a contract belong to it: at the boundary of    *)
(* two contracts the later one is current.  The consumer is outside the    *)
(* repository and is modelled by the meaning the README gives the events.  *)
(*                                                                         *)
(* A row may be replayed at any timestamp, so the stream may lack rows of  *)
(* a whole contract.                                                       *)
(***************************************************************************)
EXTENDS Naturals, Sequences, FiniteSetsExt

CONSTANTS
  Ladder,   \* start times a contract of the series may have
  Length,   \* duration of a contract
  MaxTs,    \* last timestamp of the replay
  None

ASSUME LadderAssumption ==
  /\ Ladder \subseteq Nat
  /\ Length \in Nat \ {0}
  /\ \A c, d \in Ladder : c < d => c + Length <= d
ASSUME MaxTsAssumption == MaxTs \in Nat
ASSUME NoneAssumption  == None \notin Nat

VARIABLES
  contracts,  \* start times in the schedule
  clock,      \* timestamp of the last call of lifecycle_events, or None
  current,    \* self.current
  next,       \* self.next
  pending,    \* events of that call which the consumer has not applied yet
  status      \* the consumer's view of every contract

machine == <<contracts, clock, current, next>>
vars == <<machine, pending, status>>

-----------------------------------------------------------------------------

\* The smallest distance of two starts, or the duration of the only contract.
Interval ==
  LET diffs == {p[2] - p[1] : p \in {q \in contracts \X contracts : q[1] < q[2]}}
  IN IF diffs # {} THEN Min(diffs) ELSE Length

Covering(ts) == {c \in contracts : c <= ts /\ ts <= c + Length}

\* current_and_next_for_ts
CurrentAt(ts) == IF Covering(ts) # {} THEN Max(Covering(ts)) ELSE None

\* Mutant of NextAfter: the schedule is not consulted.
NextUnchecked(c) == c + Interval

NextAfter(c) == IF c + Interval \in contracts THEN c + Interval ELSE None

Event(kind, c) == [kind |-> kind, contract |-> c]

\* Mutant of Announce: only if there was no next contract before.
AnnounceFirst(nxt) ==
  IF nxt # None /\ next = None THEN <<Event("ListedNext", nxt)>> ELSE <<>>

\* next_contract is announced unless it was the next contract before.
Announce(nxt) ==
  IF nxt # None /\ nxt # next THEN <<Event("ListedNext", nxt)>> ELSE <<>>

\* Mutant of Rollover: the old contract is resolved last.
RolloverResolvesLast(cur) ==
  CASE current = None -> <<Event("ListedCurrent", cur)>>
    [] current # None /\ current # cur ->
         (IF next # cur THEN <<Event("ListedCurrent", cur)>> ELSE <<>>)
         \o <<Event("Activated", cur), Event("Resolved", current)>>
    [] OTHER -> <<>>

\* What precedes the announcement: the change of the current contract.
Rollover(cur) ==
  CASE current = None -> <<Event("ListedCurrent", cur)>>
    [] current # None /\ current # cur ->
         <<Event("Resolved", current)>>
         \o (IF next # cur THEN <<Event("ListedCurrent", cur)>> ELSE <<>>)
         \o <<Event("Activated", cur)>>
    [] OTHER -> <<>>

-----------------------------------------------------------------------------

Init ==
  /\ contracts \in SUBSET Ladder \ {{}}
  /\ clock = None
  /\ current = None
  /\ next = None
  /\ pending = <<>>
  /\ status = [c \in Ladder |-> "unseen"]

\* lifecycle_events(ts): nothing happens outside of every contract.
Call(ts) ==
  /\ pending = <<>>
  /\ clock # None => clock <= ts
  /\ clock' = ts
  /\ LET cur == CurrentAt(ts) IN
     IF cur = None
       THEN UNCHANGED <<current, next, pending>>
       ELSE /\ pending' = Rollover(cur) \o Announce(NextAfter(cur))
            /\ current' = cur
            /\ next' = NextAfter(cur)
  /\ UNCHANGED <<contracts, status>>

Meaning(kind) ==
  CASE kind = "ListedNext" -> "next"
    [] kind = "Resolved" -> "resolved"
    [] kind \in {"ListedCurrent", "Activated"} -> "current"

\* The consumer applies the next event.
Deliver ==
  /\ pending # <<>>
  /\ status' = [status EXCEPT ![Head(pending).contract] = Meaning(Head(pending).kind)]
  /\ pending' = Tail(pending)
  /\ UNCHANGED machine

Next ==
  \/ \E ts \in 0..MaxTs : Call(ts)
  \/ Deliver

Spec == Init /\ [][Next]_vars

-----------------------------------------------------------------------------
(* Properties.                                                             *)

Lifecycle == INSTANCE ContractLifecycle WITH Contracts <- Ladder

Events ==
  [kind : {"ListedCurrent", "ListedNext", "Activated", "Resolved"}, contract : Ladder]

TypeOK ==
  /\ contracts \subseteq Ladder
  /\ clock \in 0..MaxTs \cup {None}
  /\ current \in contracts \cup {None}
  /\ next \in contracts \cup {None}
  /\ pending \in Seq(Events)
  /\ Len(pending) <= 4
  /\ status \in [Ladder -> Lifecycle!Statuses]

\* Every event the consumer applies is a step of the abstract lifecycle,
\* whichever contracts the schedule or the stream lacks.
LifecycleSpec == Lifecycle!Spec

\* When a call's events are applied, the consumer's current contract is the
\* machine's, and it is the one in force at the call's timestamp if there is
\* one; the next contract that is ahead of it is the machine's too: no rollover
\* and no announcement is lost, whatever rows the stream lacks.
ConsumerInStep ==
  pending = <<>> =>
    /\ \A c \in Ladder : status[c] = "current" <=> c = current
    /\ clock # None /\ CurrentAt(clock) # None => current = CurrentAt(clock)
    /\ current # None =>
         \A c \in Ladder : status[c] = "next" /\ c > current <=> c = next

=============================================================================
