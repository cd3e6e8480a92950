----------------------- MODULE ContractScheduleProofs -----------------------
(***************************************************************************)
(* Theorems about ContractSchedule: for every ladder of contracts, every   *)
(* schedule of them and every stream, the events implement the lifecycle   *)
(* and keep the consumer in step.                                          *)
(***************************************************************************)
EXTENDS ContractSchedule, SequenceTheorems, FiniteSetTheorems, WellFoundedInduction, TLAPS

-----------------------------------------------------------------------------
(* The ladder.                                                             *)

\* A set of naturals has a smallest element.
LEMMA SmallestExists ==
  ASSUME NEW S \in SUBSET Nat, S # {}
  PROVE  Min(S) \in S /\ \A x \in S : Min(S) <= x
<1>1. PICK n \in S : TRUE
  OBVIOUS
<1> DEFINE L == {p \in S : p <= n}
           Below(p) == {q \in L : q < p}
           T == {Below(p) : p \in L}
<1>2. n \in L /\ L \subseteq Nat /\ IsFiniteSet(L)
  <2>1. n \in Nat /\ 0 \in Int /\ n \in Int
    OBVIOUS
  <2>2. IsFiniteSet(0..n)
    BY <2>1, FS_Interval
  <2>3. L \in SUBSET (0..n)
    <3>1. ASSUME NEW p \in S, p <= n PROVE p \in 0..n
      BY <3>1, <2>1
    <3> QED
      BY <3>1
  <2>4. n \in L /\ L \subseteq Nat
    <3>1. n \in S /\ n <= n /\ S \subseteq Nat
      BY <2>1
    <3>2. L \subseteq S
      OBVIOUS
    <3>3. n \in L
      BY <3>1
    <3> QED
      BY <3>1, <3>2, <3>3
  <2> HIDE DEF L
  <2>5. IsFiniteSet(L)
    BY <2>2, <2>3, FS_Subset
  <2> QED
    BY <2>4, <2>5
<1>3. IsWellFoundedOn(StrictSubsetOrdering(L), FiniteSubsetsOf(L))
  BY <1>2, FS_StrictSubsetOrderingWellFounded
<1>4. T \subseteq FiniteSubsetsOf(L) /\ T # {}
  <2>1. ASSUME NEW p \in L PROVE Below(p) \in FiniteSubsetsOf(L)
    <3>1. Below(p) \subseteq L
      OBVIOUS
    <3>2. IsFiniteSet(Below(p))
      BY <1>2, <3>1, FS_Subset
    <3> HIDE DEF Below, L
    <3> QED
      BY <3>1, <3>2 DEF FiniteSubsetsOf
  <2> QED
    BY <2>1, <1>2
<1>5. PICK x \in T : \A y \in T : <<y, x>> \notin StrictSubsetOrdering(L)
  BY <1>3, <1>4, WFMin
<1>6. PICK p \in L : x = Below(p)
  BY <1>5
<1>7. \A q \in L : p <= q
  <2> SUFFICES ASSUME NEW q \in L, q < p PROVE FALSE
    BY <1>2
  <2>1. Below(q) \subseteq Below(p) /\ q \in Below(p) /\ q \notin Below(q)
    BY <1>2
  <2>2. <<Below(q), Below(p)>> \in StrictSubsetOrdering(L)
    BY <2>1 DEF StrictSubsetOrdering
  <2> QED
    BY <2>2, <1>5, <1>6
<1>8. p \in S /\ \A q \in S : p <= q
  BY <1>2, <1>7
<1> QED
  BY <1>8 DEF Min

\* The contract after c, if there is one, is the next of the schedule.
LEMMA NextIsNext ==
  ASSUME contracts \subseteq Ladder, NEW c \in contracts, NextAfter(c) # None
  PROVE  /\ NextAfter(c) \in contracts
         /\ c < NextAfter(c)
         /\ \A d \in contracts : d <= c \/ NextAfter(c) <= d
<1> DEFINE diffs == {p[2] - p[1] : p \in {q \in contracts \X contracts : q[1] < q[2]}}
<1>1. contracts \subseteq Nat /\ Length \in Nat \ {0}
  BY LadderAssumption
<1>2. \A e, d \in contracts : e < d => d - e \in diffs
  <2> SUFFICES ASSUME NEW e \in contracts, NEW d \in contracts, e < d PROVE d - e \in diffs
    OBVIOUS
  <2>1. <<e, d>> \in {p \in contracts \X contracts : p[1] < p[2]}
    OBVIOUS
  <2> QED
    BY <2>1
<1>3. \A x \in diffs : \E e, d \in contracts : e < d /\ x = d - e
  OBVIOUS
<1>4. NextAfter(c) = c + Interval /\ c + Interval \in contracts
  BY DEF NextAfter
<1>5. Interval \in Nat \ {0} /\ \A x \in diffs : Interval <= x
  <2>1. CASE diffs = {}
    BY <1>1, <2>1 DEF Interval
  <2>2. CASE diffs # {}
    <3>1. diffs \subseteq Nat \ {0}
      BY <1>1, <1>3
    <3>2. Min(diffs) \in diffs /\ \A x \in diffs : Min(diffs) <= x
      BY <3>1, <2>2, SmallestExists
    <3>3. Interval = Min(diffs)
      BY <2>2 DEF Interval
    <3> QED
      BY <3>1, <3>2, <3>3
  <2> QED
    BY <2>1, <2>2
<1>6. ASSUME NEW d \in contracts, c < d PROVE c + Interval <= d
  <2>1. d - c \in diffs
    BY <1>2, <1>6
  <2>2. Interval <= d - c
    BY <2>1, <1>5
  <2> HIDE DEF diffs
  <2> QED
    BY <2>2, <1>1, <1>5
<1> HIDE DEF diffs
<1> QED
  BY <1>1, <1>4, <1>5, <1>6

\* At most two contracts cover a timestamp; the later one is current.
LEMMA CurrentCovers ==
  ASSUME contracts \subseteq Ladder, NEW ts \in Nat
  PROVE  /\ CurrentAt(ts) = None <=> Covering(ts) = {}
         /\ CurrentAt(ts) # None =>
              /\ CurrentAt(ts) \in Covering(ts)
              /\ \A c \in Covering(ts) : c <= CurrentAt(ts)
<1>1. \A c \in contracts : c \in Nat /\ c + Length \in Nat
  BY LadderAssumption
<1>2. \A c, d \in contracts : c < d => c + Length <= d
  BY LadderAssumption
<1>3. ASSUME NEW x \in Covering(ts)
      PROVE  \E y \in Covering(ts) : \A z \in Covering(ts) : y >= z
  BY <1>1, <1>2, LadderAssumption DEF Covering
<1>4. Covering(ts) # {} =>
        /\ Max(Covering(ts)) \in Covering(ts)
        /\ \A z \in Covering(ts) : Max(Covering(ts)) >= z
  BY <1>3 DEF Max
<1>5. Covering(ts) \subseteq Nat /\ None \notin Nat
  BY <1>1, NoneAssumption DEF Covering
<1> QED
  BY <1>4, <1>5 DEF CurrentAt

-----------------------------------------------------------------------------
(* The inductive invariant: what the machine and the consumer know between *)
(* the events of one call.                                                 *)

\* The machine's contracts and timestamps fit together, and the consumer has
\* resolved nothing but what lies behind the machine's current contract.
MachineInv ==
  /\ contracts \subseteq Ladder
  /\ clock \in 0..MaxTs \cup {None}
  /\ current \in contracts \cup {None}
  /\ status \in [Ladder -> Lifecycle!Statuses]
  /\ pending \in Seq(Events)
  /\ current = None =>
       next = None /\ pending = <<>> /\ \A c \in Ladder : status[c] = "unseen"
  /\ current # None =>
       /\ clock # None /\ current <= clock
       /\ next = NextAfter(current)
       /\ \A c \in Ladder : status[c] = "resolved" => c < current
  /\ clock # None /\ CurrentAt(clock) # None => current = CurrentAt(clock)

\* m events wait, and then the announcement of next if it is still unseen.
Waiting(m) ==
  IF next # None /\ status[next] = "unseen"
    THEN Len(pending) = m + 1 /\ pending[m + 1] = Event("ListedNext", next)
    ELSE Len(pending) = m

OnlyCurrent(c) == \A d \in Ladder : status[d] = "current" <=> d = c
NoneCurrent == \A d \in Ladder : status[d] # "current"
SeenBefore(c) == \A d \in Ladder : status[d] # "unseen" => d < c
SeenUpTo(c) == \A d \in Ladder : status[d] # "unseen" => d <= c

\* The consumer has the current contract; only the announcement may be left.
Settled ==
  /\ Waiting(0)
  /\ OnlyCurrent(current)
  /\ \A d \in Ladder : status[d] # "unseen" => d <= current \/ d = next

\* The first contract of the replay waits to be listed.
Listing ==
  /\ Waiting(1) /\ pending[1] = Event("ListedCurrent", current)
  /\ NoneCurrent /\ SeenBefore(current)

\* The activation of the current contract, which is next or listed already.
Activating ==
  /\ Waiting(1) /\ pending[1] = Event("Activated", current)
  /\ OnlyCurrent(current) \/ (NoneCurrent /\ status[current] = "next")
  /\ SeenUpTo(current)

\* The old contract is resolved, the current one was never announced.
ListingLeapt ==
  /\ Waiting(2)
  /\ pending[1] = Event("ListedCurrent", current)
  /\ pending[2] = Event("Activated", current)
  /\ NoneCurrent /\ SeenBefore(current)

\* The old contract is to be resolved; the current one was announced.
Resolving(old) ==
  /\ Waiting(2)
  /\ pending[1] = Event("Resolved", old)
  /\ pending[2] = Event("Activated", current)
  /\ old < current /\ OnlyCurrent(old)
  /\ status[current] = "next" /\ SeenUpTo(current)

\* The old contract is to be resolved; the current one was never announced.
ResolvingLeapt(old) ==
  /\ Waiting(3)
  /\ pending[1] = Event("Resolved", old)
  /\ pending[2] = Event("ListedCurrent", current)
  /\ pending[3] = Event("Activated", current)
  /\ old < current /\ OnlyCurrent(old)
  /\ SeenBefore(current)

Rolling(old) == Resolving(old) \/ ResolvingLeapt(old)

Phase ==
  \/ Settled \/ Listing \/ Activating \/ ListingLeapt
  \/ \E old \in contracts : Rolling(old)

ScheduleInv == MachineInv /\ (current # None => Phase)

-----------------------------------------------------------------------------
(* Deliver.                                                                *)

\* The consumer takes the first event; the others move up.
LEMMA Delivered ==
  ASSUME MachineInv, Deliver
  PROVE  /\ UNCHANGED machine
         /\ current # None
         /\ Len(pending) \in Nat \ {0}
         /\ pending[1] \in Events
         /\ pending' \in Seq(Events)
         /\ Len(pending') = Len(pending) - 1
         /\ \A i \in 1..Len(pending) - 1 : pending'[i] = pending[i + 1]
         /\ status' = [status EXCEPT ![pending[1].contract] = Meaning(pending[1].kind)]
<1>1. pending \in Seq(Events) /\ pending # <<>> /\ pending' = Tail(pending)
  BY DEF MachineInv, Deliver
<1>2. Head(pending) = pending[1]
  BY <1>1
<1>3. current # None
  BY <1>1 DEF MachineInv
<1> HIDE DEF Events
<1>4. /\ Len(pending) \in Nat \ {0}
      /\ pending[1] \in Events
      /\ pending' \in Seq(Events)
      /\ Len(pending') = Len(pending) - 1
  BY <1>1
<1>5. \A i \in 1..Len(pending) - 1 : pending'[i] = pending[i + 1]
  BY <1>1
<1> QED
  BY <1>2, <1>3, <1>4, <1>5 DEF Deliver

\* The current contract's successor, as the machine knows it.
LEMMA NextAhead ==
  ASSUME MachineInv, current # None
  PROVE  /\ current \in Ladder /\ Ladder \subseteq Nat
         /\ next # None =>
              /\ next \in contracts /\ next \in Ladder
              /\ current < next
              /\ \A d \in contracts : d <= current \/ next <= d
BY NextIsNext, LadderAssumption DEF MachineInv

\* The functions of the schedule do not change.
LEMMA ScheduleFixed ==
  ASSUME contracts' = contracts
  PROVE  /\ current' = current => NextAfter(current)' = NextAfter(current)
         /\ clock' = clock => CurrentAt(clock)' = CurrentAt(clock)
BY DEF NextAfter, Interval, CurrentAt, Covering

\* One event less waits, unless the event was the announcement.
LEMMA WaitingMovesUp ==
  ASSUME MachineInv, Deliver, NEW m \in Nat, Waiting(m + 1), next' = next,
         next # None => status'[next] = status[next]
  PROVE  /\ Waiting(m)'
         /\ \A i \in 1..m : pending'[i] = pending[i + 1]
<1> USE Delivered
<1>1. CASE next # None /\ status[next] = "unseen"
  <2>1. Len(pending) = m + 2 /\ pending[m + 2] = Event("ListedNext", next)
    BY <1>1 DEF Waiting
  <2>2. Len(pending') = m + 1 /\ pending'[m + 1] = pending[m + 2]
    BY <2>1
  <2>3. Waiting(m)'
    BY <1>1, <2>1, <2>2 DEF Waiting
  <2> QED
    BY <2>1, <2>3
<1>2. CASE ~(next # None /\ status[next] = "unseen")
  <2>1. Len(pending) = m + 1
    BY <1>2 DEF Waiting
  <2>2. Waiting(m)'
    BY <1>2, <2>1 DEF Waiting
  <2> QED
    BY <2>1, <2>2
<1> QED
  BY <1>1, <1>2

\* Every delivery leads from phase to phase.
LEMMA DeliverPhase ==
  ASSUME ScheduleInv, Deliver
  PROVE  Phase'
<1>1. MachineInv /\ Phase
  BY Delivered DEF ScheduleInv
<1>2. current' = current /\ next' = next /\ contracts' = contracts
  BY <1>1, Delivered DEF machine
<1>3. status \in [Ladder -> Lifecycle!Statuses]
  BY <1>1 DEF MachineInv
<1> USE <1>1, <1>2, <1>3, Delivered, NextAhead
<1>4. CASE Settled
  <2>1. next # None /\ status[next] = "unseen" /\ Len(pending) = 1
        /\ pending[1] = Event("ListedNext", next)
    BY <1>4 DEF Settled, Waiting
  <2>2. status' = [status EXCEPT ![next] = "next"] /\ Len(pending') = 0
    BY <2>1 DEF Event, Meaning
  <2>3. Settled'
    BY <1>4, <2>1, <2>2 DEF Settled, Waiting, OnlyCurrent
  <2> QED
    BY <2>3 DEF Phase
<1>5. CASE Listing
  <2>1. status' = [status EXCEPT ![current] = "current"]
    BY <1>5 DEF Listing, Event, Meaning, MachineInv
  <2>2. Waiting(1) /\ 1 = 0 + 1 /\ (next # None => current # next)
    BY <1>5 DEF Listing
  <2>3. Waiting(0)' /\ \A i \in 1..0 : pending'[i] = pending[i + 1]
    <3>1. next # None => status'[next] = status[next]
      BY <2>1, <2>2
    <3>2. Waiting(0 + 1)
      BY <2>2
    <3>3. 0 \in Nat
      OBVIOUS
    <3> QED
      BY <3>1, <3>2, <3>3, WaitingMovesUp
  <2>4. /\ OnlyCurrent(current)'
        /\ (\A d \in Ladder : status[d] # "unseen" => d <= current \/ d = next)'
    BY <1>5, <2>1 DEF Listing, OnlyCurrent, NoneCurrent, SeenBefore, SeenUpTo
  <2>5. Settled'
    BY <2>3, <2>4 DEF Settled
  <2> QED
    BY <2>5 DEF Phase
<1>6. CASE Activating
  <2>1. status' = [status EXCEPT ![current] = "current"]
    BY <1>6 DEF Activating, Event, Meaning, MachineInv
  <2>2. Waiting(1) /\ 1 = 0 + 1 /\ (next # None => current # next)
    BY <1>6 DEF Activating
  <2>3. Waiting(0)' /\ \A i \in 1..0 : pending'[i] = pending[i + 1]
    <3>1. next # None => status'[next] = status[next]
      BY <2>1, <2>2
    <3>2. Waiting(0 + 1)
      BY <2>2
    <3>3. 0 \in Nat
      OBVIOUS
    <3> QED
      BY <3>1, <3>2, <3>3, WaitingMovesUp
  <2>4. /\ OnlyCurrent(current)'
        /\ (\A d \in Ladder : status[d] # "unseen" => d <= current \/ d = next)'
    BY <1>6, <2>1 DEF Activating, OnlyCurrent, NoneCurrent, SeenBefore, SeenUpTo
  <2>5. Settled'
    BY <2>3, <2>4 DEF Settled
  <2> QED
    BY <2>5 DEF Phase
<1>7. CASE ListingLeapt
  <2>1. status' = [status EXCEPT ![current] = "current"]
    BY <1>7 DEF ListingLeapt, Event, Meaning, MachineInv
  <2>2. Waiting(2) /\ 2 = 1 + 1 /\ (next # None => current # next)
    BY <1>7 DEF ListingLeapt
  <2>3. Waiting(1)' /\ \A i \in 1..1 : pending'[i] = pending[i + 1]
    <3>1. next # None => status'[next] = status[next]
      BY <2>1, <2>2
    <3>2. Waiting(1 + 1)
      BY <2>2
    <3>3. 1 \in Nat
      OBVIOUS
    <3> QED
      BY <3>1, <3>2, <3>3, WaitingMovesUp
  <2>4. pending'[1] = Event("Activated", current)'
    BY <1>7, <2>3 DEF ListingLeapt, Event
  <2>5. OnlyCurrent(current)' /\ SeenUpTo(current)'
    BY <1>7, <2>1 DEF ListingLeapt, OnlyCurrent, NoneCurrent, SeenBefore, SeenUpTo
  <2>6. Activating'
    BY <2>3, <2>4, <2>5 DEF Activating
  <2> QED
    BY <2>6 DEF Phase
<1>8. ASSUME NEW old \in contracts, Resolving(old) PROVE Phase'
  <2>1. status' = [status EXCEPT ![old] = "resolved"] /\ old \in Ladder
    BY <1>8 DEF Resolving, Event, Meaning, MachineInv
  <2>2. Waiting(2) /\ 2 = 1 + 1 /\ (next # None => old # next)
    BY <1>8 DEF Resolving
  <2>3. Waiting(1)' /\ \A i \in 1..1 : pending'[i] = pending[i + 1]
    <3>1. next # None => status'[next] = status[next]
      BY <2>1, <2>2
    <3>2. Waiting(1 + 1)
      BY <2>2
    <3>3. 1 \in Nat
      OBVIOUS
    <3> QED
      BY <3>1, <3>2, <3>3, WaitingMovesUp
  <2>4. pending'[1] = Event("Activated", current)'
    BY <1>8, <2>3 DEF Resolving, Event
  <2>5. NoneCurrent' /\ (status[current] = "next")' /\ SeenUpTo(current)'
    BY <1>8, <2>1 DEF Resolving, OnlyCurrent, NoneCurrent, SeenUpTo
  <2>6. Activating'
    BY <2>3, <2>4, <2>5 DEF Activating
  <2> QED
    BY <2>6 DEF Phase
<1>9. ASSUME NEW old \in contracts, ResolvingLeapt(old) PROVE Phase'
  <2>1. status' = [status EXCEPT ![old] = "resolved"] /\ old \in Ladder
    BY <1>9 DEF ResolvingLeapt, Event, Meaning, MachineInv
  <2>2. Waiting(3) /\ 3 = 2 + 1 /\ (next # None => old # next)
    BY <1>9 DEF ResolvingLeapt
  <2>3. Waiting(2)' /\ \A i \in 1..2 : pending'[i] = pending[i + 1]
    <3>1. next # None => status'[next] = status[next]
      BY <2>1, <2>2
    <3>2. Waiting(2 + 1)
      BY <2>2
    <3>3. 2 \in Nat
      OBVIOUS
    <3> QED
      BY <3>1, <3>2, <3>3, WaitingMovesUp
  <2>4. /\ pending'[1] = Event("ListedCurrent", current)'
        /\ pending'[2] = Event("Activated", current)'
    BY <1>9, <2>3 DEF ResolvingLeapt, Event
  <2>5. NoneCurrent' /\ SeenBefore(current)'
    BY <1>9, <2>1 DEF ResolvingLeapt, OnlyCurrent, NoneCurrent, SeenBefore
  <2>6. ListingLeapt'
    BY <2>3, <2>4, <2>5 DEF ListingLeapt
  <2> QED
    BY <2>6 DEF Phase
<1> QED
  BY <1>4, <1>5, <1>6, <1>7, <1>8, <1>9 DEF Phase, Rolling

\* A delivery changes nothing of the machine.
LEMMA DeliverMachine ==
  ASSUME ScheduleInv, Deliver
  PROVE  MachineInv'
<1>1. MachineInv /\ Phase /\ current # None
  BY Delivered DEF ScheduleInv
<1>2. /\ current' = current /\ next' = next /\ contracts' = contracts /\ clock' = clock
  BY <1>1, Delivered DEF machine
<1>3. NextAfter(current)' = NextAfter(current) /\ CurrentAt(clock)' = CurrentAt(clock)
  BY <1>2, ScheduleFixed
<1>4. status' \in [Ladder -> Lifecycle!Statuses]
  <2>1. pending[1].kind \in {"ListedCurrent", "ListedNext", "Activated", "Resolved"}
    BY <1>1, Delivered DEF Events
  <2>2. Meaning(pending[1].kind) \in Lifecycle!Statuses
    BY <2>1 DEF Meaning, Lifecycle!Statuses
  <2> QED
    BY <1>1, <2>2, Delivered DEF MachineInv
<1>5. \A c \in Ladder : status'[c] = "resolved" => c < current
  <2>1. pending[1].kind = "Resolved" => pending[1].contract < current
    <3>1. Settled => pending[1].kind = "ListedNext"
      <4>1. Len(pending) # 0
        BY <1>1, Delivered
      <4> QED
        BY <4>1 DEF Settled, Waiting, Event
    <3>2. Listing \/ Activating \/ ListingLeapt => pending[1].kind # "Resolved"
      BY DEF Listing, Activating, ListingLeapt, Event
    <3>3. ASSUME NEW old \in contracts, Rolling(old) PROVE pending[1].contract < current
      BY <3>3 DEF Rolling, Resolving, ResolvingLeapt, Event
    <3> QED
      BY <1>1, <3>1, <3>2, <3>3 DEF Phase
  <2>2. Meaning(pending[1].kind) = "resolved" => pending[1].kind = "Resolved"
    BY <1>1, Delivered DEF Events, Meaning
  <2>3. \A c \in Ladder : status[c] = "resolved" => c < current
    BY <1>1 DEF MachineInv
  <2>4. status' = [status EXCEPT ![pending[1].contract] = Meaning(pending[1].kind)]
    BY <1>1, Delivered
  <2>5. status \in [Ladder -> Lifecycle!Statuses]
    BY <1>1 DEF MachineInv
  <2> QED
    BY <2>1, <2>2, <2>3, <2>4, <2>5
<1>6. pending' \in Seq(Events)
  BY <1>1, Delivered
<1> QED
  BY <1>1, <1>2, <1>3, <1>4, <1>5, <1>6 DEF MachineInv

-----------------------------------------------------------------------------
(* Call.                                                                   *)

\* The machine never steps back: an earlier contract that covers a timestamp
\* ends where the current one starts, which then covers it too.
LEMMA CurrentAdvances ==
  ASSUME MachineInv, NEW ts \in Nat, clock # None => clock <= ts,
         CurrentAt(ts) # None
  PROVE  /\ CurrentAt(ts) \in contracts /\ CurrentAt(ts) \in Ladder
         /\ CurrentAt(ts) <= ts
         /\ current # None => current <= CurrentAt(ts)
<1>1. contracts \subseteq Ladder /\ Ladder \subseteq Nat /\ Length \in Nat
  BY LadderAssumption DEF MachineInv
<1>2. /\ CurrentAt(ts) \in Covering(ts)
      /\ \A c \in Covering(ts) : c <= CurrentAt(ts)
  BY <1>1, CurrentCovers
<1>3. /\ CurrentAt(ts) \in contracts
      /\ CurrentAt(ts) <= ts /\ ts <= CurrentAt(ts) + Length
  BY <1>2 DEF Covering
<1>4. ASSUME current # None, CurrentAt(ts) < current PROVE FALSE
  <2>1. current \in contracts /\ clock \in Nat /\ current <= clock /\ clock <= ts
    BY <1>4, MaxTsAssumption DEF MachineInv
  <2>2. CurrentAt(ts) + Length <= current
    BY <1>1, <1>3, <1>4, <2>1, LadderAssumption
  <2>3. current \in Nat /\ CurrentAt(ts) \in Nat
    BY <1>1, <1>3, <2>1
  <2>4. current <= ts /\ ts <= current + Length
    BY <1>1, <1>3, <2>1, <2>2, <2>3
  <2>5. current \in Covering(ts)
    BY <2>1, <2>4 DEF Covering
  <2>6. current <= CurrentAt(ts)
    BY <1>2, <2>5
  <2> QED
    BY <1>4, <2>3, <2>6
<1>5. CurrentAt(ts) \in Nat /\ (current # None => current \in Nat)
  BY <1>1, <1>3 DEF MachineInv
<1>6. current # None => current <= CurrentAt(ts)
  BY <1>4, <1>5
<1> QED
  BY <1>1, <1>3, <1>6

\* A call keeps the machine consistent.
LEMMA CallMachine ==
  ASSUME ScheduleInv, NEW ts \in 0..MaxTs, Call(ts), pending' \in Seq(Events)
  PROVE  MachineInv'
<1>1. MachineInv /\ ts \in Nat /\ (clock # None => clock <= ts)
      /\ contracts' = contracts /\ status' = status /\ clock' = ts
  BY MaxTsAssumption DEF ScheduleInv, Call
<1>2. CurrentAt(clock)' = CurrentAt(ts)
  BY <1>1 DEF CurrentAt, Covering
<1>3. CASE CurrentAt(ts) = None
  <2>1. UNCHANGED <<current, next, pending>>
    BY <1>3 DEF Call
  <2>2. NextAfter(current)' = NextAfter(current)
    BY <1>1, <2>1, ScheduleFixed
  <2>3. current # None => current <= ts
    BY <1>1, LadderAssumption, MaxTsAssumption DEF MachineInv
  <2>4. clock' \in 0..MaxTs \cup {None} /\ clock' # None
    BY <1>1, NoneAssumption
  <2> QED
    BY <1>1, <1>2, <1>3, <2>1, <2>2, <2>3, <2>4 DEF MachineInv
<1>4. CASE CurrentAt(ts) # None
  <2>1. current' = CurrentAt(ts) /\ next' = NextAfter(CurrentAt(ts))
    BY <1>4 DEF Call
  <2>2. NextAfter(current)' = NextAfter(CurrentAt(ts))
    BY <1>1, <2>1 DEF NextAfter, Interval
  <2>3. /\ CurrentAt(ts) \in contracts /\ CurrentAt(ts) \in Ladder
        /\ CurrentAt(ts) <= ts
        /\ current # None => current <= CurrentAt(ts)
    BY <1>1, <1>4, CurrentAdvances
  <2>4. clock' \in 0..MaxTs \cup {None} /\ clock' # None
    BY <1>1, NoneAssumption
  <2>5. \A c \in Ladder : status[c] = "resolved" => c < CurrentAt(ts)
    <3>1. CASE current = None
      BY <1>1, <3>1 DEF MachineInv
    <3>2. CASE current # None
      <4>1. current \in Nat /\ CurrentAt(ts) \in Nat /\ current <= CurrentAt(ts)
        BY <1>1, <2>3, <3>2, LadderAssumption DEF MachineInv
      <4>2. \A c \in Ladder : c \in Nat /\ (status[c] = "resolved" => c < current)
        BY <1>1, <3>2, LadderAssumption DEF MachineInv
      <4> QED
        BY <4>1, <4>2
    <3> QED
      BY <3>1, <3>2
  <2> QED
    BY <1>1, <1>2, <1>4, <2>1, <2>2, <2>3, <2>4, <2>5 DEF MachineInv
<1> QED
  BY <1>3, <1>4

\* The events of a call, one by one, and what is announced after them.
LEMMA CallEvents ==
  ASSUME NEW a \in Events, NEW b \in Events, NEW c \in Events, NEW t \in Seq(Events)
  PROVE  /\ <<a>> \o t \in Seq(Events)
         /\ Len(<<a>> \o t) = 1 + Len(t) /\ (<<a>> \o t)[1] = a
         /\ Len(t) = 1 => (<<a>> \o t)[2] = t[1]
         /\ (<<a>> \o <<>> \o <<b>>) \o t \in Seq(Events)
         /\ Len((<<a>> \o <<>> \o <<b>>) \o t) = 2 + Len(t)
         /\ ((<<a>> \o <<>> \o <<b>>) \o t)[1] = a
         /\ ((<<a>> \o <<>> \o <<b>>) \o t)[2] = b
         /\ Len(t) = 1 => ((<<a>> \o <<>> \o <<b>>) \o t)[3] = t[1]
         /\ (<<a>> \o <<b>> \o <<c>>) \o t \in Seq(Events)
         /\ Len((<<a>> \o <<b>> \o <<c>>) \o t) = 3 + Len(t)
         /\ ((<<a>> \o <<b>> \o <<c>>) \o t)[1] = a
         /\ ((<<a>> \o <<b>> \o <<c>>) \o t)[2] = b
         /\ ((<<a>> \o <<b>> \o <<c>>) \o t)[3] = c
         /\ Len(t) = 1 => ((<<a>> \o <<b>> \o <<c>>) \o t)[4] = t[1]
<1> HIDE DEF Events
<1>1. <<>> \in Seq(Events) /\ <<a>> \in Seq(Events)
      /\ <<b>> \in Seq(Events) /\ <<c>> \in Seq(Events)
      /\ <<a, b>> \in Seq(Events) /\ <<a, b, c>> \in Seq(Events)
  OBVIOUS
<1>2. ASSUME NEW s \in Seq(Events), NEW u \in Seq(Events)
      PROVE  /\ s \o u \in Seq(Events) /\ Len(s \o u) = Len(s) + Len(u)
             /\ \A i \in 1..Len(s) : (s \o u)[i] = s[i]
             /\ \A i \in 1..Len(u) : (s \o u)[Len(s) + i] = u[i]
  BY <1>2
<1>3. <<a>> \o <<>> \o <<b>> = <<a, b>> /\ <<a>> \o <<b>> \o <<c>> = <<a, b, c>>
  <2>1. <<a>> \o <<>> = <<a>>
    BY <1>1, ConcatEmptySeq
  <2>2. <<a>> \o <<b>> = <<a, b>>
    <3>1. <<a>> \o <<b>> \in Seq(Events) /\ Len(<<a>> \o <<b>>) = 2
          /\ (<<a>> \o <<b>>)[1] = a /\ (<<a>> \o <<b>>)[2] = b
      BY <1>1, <1>2
    <3>2. \A i \in 1..2 : (<<a>> \o <<b>>)[i] = <<a, b>>[i]
      BY <3>1
    <3> QED
      BY <1>1, <3>1, <3>2, SeqEqual
  <2>3. <<a, b>> \o <<c>> = <<a, b, c>>
    <3>1. <<a, b>> \o <<c>> \in Seq(Events) /\ Len(<<a, b>> \o <<c>>) = 3
          /\ (<<a, b>> \o <<c>>)[1] = a /\ (<<a, b>> \o <<c>>)[2] = b
          /\ (<<a, b>> \o <<c>>)[3] = c
      BY <1>1, <1>2
    <3>2. \A i \in 1..3 : (<<a, b>> \o <<c>>)[i] = <<a, b, c>>[i]
      BY <3>1
    <3> QED
      BY <1>1, <3>1, <3>2, SeqEqual
  <2> QED
    BY <2>1, <2>2, <2>3
<1> QED
  BY <1>1, <1>2, <1>3

\* With no event waiting the consumer is settled and knows the next contract.
LEMMA SettledWhenEmpty ==
  ASSUME ScheduleInv, pending = <<>>, current # None
  PROVE  /\ Settled
         /\ next # None => status[next] = "next"
<1>1. Settled
  BY DEF ScheduleInv, Phase, Rolling, Settled, Listing, Activating, ListingLeapt,
         Resolving, ResolvingLeapt, Waiting
<1>2. ASSUME next # None PROVE status[next] = "next"
  <2>1. /\ next \in Ladder /\ next \in Nat /\ current \in Nat /\ current < next
        /\ status[next] \in Lifecycle!Statuses
    BY <1>2, NextAhead DEF ScheduleInv, MachineInv
  <2>2. status[next] # "unseen"
    BY <1>1, <1>2 DEF Settled, Waiting
  <2>3. status[next] # "current"
    BY <1>1, <2>1 DEF Settled, OnlyCurrent
  <2>4. status[next] # "resolved"
    BY <2>1 DEF ScheduleInv, MachineInv
  <2> QED
    BY <2>1, <2>2, <2>3, <2>4 DEF Lifecycle!Statuses
<1> QED
  BY <1>1, <1>2

\* A new current contract: what was seen of it and of its successor, which is
\* therefore announced.
LEMMA NewCurrent ==
  ASSUME ScheduleInv, pending = <<>>, NEW cur \in contracts,
         current # None => current < cur
  PROVE  /\ cur \in Ladder /\ cur \in Nat
         /\ current # None /\ next = cur => status[cur] = "next" /\ SeenUpTo(cur)
         /\ next # cur => status[cur] = "unseen" /\ SeenBefore(cur)
         /\ NextAfter(cur) # None =>
              /\ NextAfter(cur) \in Ladder
              /\ status[NextAfter(cur)] = "unseen"
              /\ NextAfter(cur) # next
<1>1. MachineInv /\ contracts \subseteq Ladder /\ Ladder \subseteq Nat
  BY LadderAssumption DEF ScheduleInv, MachineInv
<1>2. cur \in Ladder /\ cur \in Nat
  BY <1>1
<1>3. NextAfter(cur) # None =>
        NextAfter(cur) \in Ladder /\ NextAfter(cur) \in Nat /\ cur < NextAfter(cur)
  BY <1>1, NextIsNext
<1>4. CASE current = None
  <2>1. next = None /\ \A c \in Ladder : status[c] = "unseen"
    BY <1>1, <1>4 DEF MachineInv
  <2>2. SeenBefore(cur)
    BY <2>1 DEF SeenBefore
  <2> QED
    BY <1>2, <1>3, <1>4, <2>1, <2>2, NoneAssumption
<1>5. CASE current # None
  <2>1. current \in Nat /\ current < cur
    BY <1>1, <1>5 DEF MachineInv
  <2>2. next # None => next \in Nat /\ next <= cur
    <3> SUFFICES ASSUME next # None PROVE next \in Nat /\ next <= cur
      OBVIOUS
    <3>1. next \in Ladder /\ (cur <= current \/ next <= cur)
      BY <1>1, <1>5, NextAhead
    <3> QED
      BY <1>1, <1>2, <2>1, <3>1
  <2>3. \A d \in Ladder : status[d] # "unseen" => d <= current \/ (d = next /\ next # None)
    BY <1>1, <1>5, SettledWhenEmpty, NoneAssumption DEF Settled
  <2>4. SeenUpTo(cur)
    BY <1>1, <1>2, <2>1, <2>2, <2>3 DEF SeenUpTo
  <2>5. next = cur => status[cur] = "next"
    BY <1>2, <1>5, SettledWhenEmpty, NoneAssumption
  <2>6. next # cur => status[cur] = "unseen"
    BY <1>2, <2>1, <2>3
  <2>7. next # cur => SeenBefore(cur)
    BY <1>1, <1>2, <2>1, <2>2, <2>3 DEF SeenBefore
  <2>8. NextAfter(cur) # None => status[NextAfter(cur)] = "unseen"
    BY <1>2, <1>3, <2>1, <2>2, <2>3
  <2>9. NextAfter(cur) # None => NextAfter(cur) # next
    BY <1>2, <1>3, <2>2
  <2> QED
    BY <1>2, <1>3, <2>4, <2>5, <2>6, <2>7, <2>8, <2>9
<1> QED
  BY <1>4, <1>5

\* A call begins the phase of its first event.
LEMMA CallPhase ==
  ASSUME ScheduleInv, NEW ts \in 0..MaxTs, Call(ts)
  PROVE  /\ pending' \in Seq(Events)
         /\ current' # None => Phase'
<1>1. /\ MachineInv /\ ts \in Nat /\ (clock # None => clock <= ts) /\ pending = <<>>
      /\ contracts' = contracts /\ status' = status
  BY MaxTsAssumption DEF ScheduleInv, Call
<1>2. pending \in Seq(Events)
  BY <1>1 DEF MachineInv
<1> DEFINE cur == CurrentAt(ts)
<1>3. ASSUME UNCHANGED <<current, next, pending>>, current # None PROVE Phase'
  <2>1. Settled
    BY <1>1, <1>3, SettledWhenEmpty
  <2>2. Settled'
    BY <1>1, <1>3, <2>1 DEF Settled, Waiting, OnlyCurrent
  <2> QED
    BY <2>2 DEF Phase
<1>4. CASE cur = None
  <2>1. UNCHANGED <<current, next, pending>>
    BY <1>4 DEF Call
  <2> QED
    BY <1>2, <1>3, <2>1
<1>5. ASSUME cur # None
      PROVE  /\ cur \in contracts /\ (current # None => current <= cur)
             /\ current' = cur /\ next' = NextAfter(cur)
             /\ pending' = Rollover(cur) \o Announce(NextAfter(cur))
  BY <1>1, <1>5, CurrentAdvances DEF Call
<1>6. CASE cur # None /\ current = cur
  <2>1. next = NextAfter(cur)
    BY <1>1, <1>6 DEF MachineInv
  <2>2. Rollover(cur) = <<>> /\ Announce(NextAfter(cur)) = <<>>
    BY <1>6, <2>1 DEF Rollover, Announce
  <2>3. <<>> \o <<>> = <<>>
    BY <1>1, <1>2, ConcatEmptySeq
  <2>4. UNCHANGED <<current, next, pending>>
    BY <1>1, <1>5, <1>6, <2>1, <2>2, <2>3
  <2> QED
    BY <1>2, <1>3, <1>6, <2>4
<1>7. CASE cur # None /\ current # cur
  <2> DEFINE nxt == NextAfter(cur)
             t == IF nxt # None THEN <<Event("ListedNext", nxt)>> ELSE <<>>
  <2>1. cur \in contracts /\ (current # None => current < cur)
    <3>1. cur \in contracts /\ (current # None => current <= cur)
      BY <1>5, <1>7
    <3>2. cur \in Nat /\ (current # None => current \in Nat)
      BY <1>1, <3>1, LadderAssumption DEF MachineInv
    <3> HIDE DEF cur
    <3> QED
      BY <1>7, <3>1, <3>2
  <2>2. /\ cur \in Ladder /\ cur \in Nat
        /\ current # None /\ next = cur => status[cur] = "next" /\ SeenUpTo(cur)
        /\ next # cur => status[cur] = "unseen" /\ SeenBefore(cur)
        /\ nxt # None => nxt \in Ladder /\ status[nxt] = "unseen" /\ nxt # next
    BY <1>1, <2>1, NewCurrent
  <2>3. Announce(nxt) = t
    BY <2>2 DEF Announce
  <2>4. /\ t \in Seq(Events)
        /\ nxt = None => Len(t) = 0
        /\ nxt # None => Len(t) = 1 /\ t[1] = Event("ListedNext", nxt)
    <3>1. CASE nxt # None
      <4>1. Event("ListedNext", nxt) \in Events
        BY <2>2, <3>1 DEF Event, Events
      <4>2. t = <<Event("ListedNext", nxt)>>
        BY <3>1
      <4> HIDE DEF t, nxt, Events
      <4> QED
        BY <3>1, <4>1, <4>2
    <3>2. CASE nxt = None
      <4>1. t = <<>>
        BY <3>2
      <4> HIDE DEF t, nxt, Events
      <4> QED
        BY <3>2, <4>1
    <3> QED
      BY <3>1, <3>2
  <2>6. Event("ListedCurrent", cur) \in Events /\ Event("Activated", cur) \in Events
    BY <2>2 DEF Event, Events
  <2>7. next' # None /\ status'[next'] = "unseen" <=> nxt # None
    BY <1>1, <1>5, <1>7, <2>2
  <2>8. pending' = Rollover(cur) \o t /\ next' = nxt /\ current' = cur
    BY <1>5, <1>7, <2>3
  <2> HIDE DEF nxt, t
  <2>9. CASE current = None
    <3>1. Rollover(cur) = <<Event("ListedCurrent", cur)>>
      BY <2>9 DEF Rollover
    <3>2. /\ pending' \in Seq(Events)
          /\ pending'[1] = Event("ListedCurrent", cur)
          /\ Len(pending') = 1 + Len(t)
          /\ nxt # None => pending'[2] = Event("ListedNext", nxt)
      BY <2>4, <2>6, <2>8, <3>1, CallEvents
    <3>3. Waiting(1)'
      <4>1. CASE nxt # None
        BY <2>4, <2>7, <2>8, <3>2, <4>1 DEF Waiting
      <4>2. CASE nxt = None
        BY <2>4, <2>7, <2>8, <3>2, <4>2 DEF Waiting
      <4> QED
        BY <4>1, <4>2
    <3>4. NoneCurrent' /\ SeenBefore(current)'
      BY <1>1, <2>8, <2>9 DEF MachineInv, NoneCurrent, SeenBefore
    <3>5. Listing'
      BY <2>8, <3>2, <3>3, <3>4 DEF Listing
    <3> QED
      BY <3>2, <3>5 DEF Phase
  <2>10. ASSUME current # None
         PROVE  /\ Event("Resolved", current) \in Events /\ current \in contracts
                /\ OnlyCurrent(current) /\ current < cur
    BY <1>1, <2>1, <2>10, SettledWhenEmpty DEF MachineInv, Settled, Event, Events
  <2>11. CASE current # None /\ next = cur
    <3>1. Rollover(cur) = <<Event("Resolved", current)>> \o <<>> \o <<Event("Activated", cur)>>
      BY <1>7, <2>11 DEF Rollover
    <3>2. /\ pending' \in Seq(Events)
          /\ pending'[1] = Event("Resolved", current)
          /\ pending'[2] = Event("Activated", cur)
          /\ Len(pending') = 2 + Len(t)
          /\ nxt # None => pending'[3] = Event("ListedNext", nxt)
      BY <2>4, <2>6, <2>8, <2>10, <2>11, <3>1, CallEvents
    <3>3. Waiting(2)'
      <4>1. CASE nxt # None
        <5>1. Len(pending') = 2 + 1 /\ pending'[2 + 1] = Event("ListedNext", nxt)
          <6>1. 2 + 1 = 3
            OBVIOUS
          <6>2. Len(pending') = 3
            <7>1. Len(pending') = 2 + Len(t)
              BY <3>2
            <7>2. Len(t) = 1
              BY <2>4, <4>1
            <7> QED
              BY <7>1, <7>2
          <6>3. pending'[3] = Event("ListedNext", nxt)
            BY <3>2, <4>1
          <6> QED
            BY <6>1, <6>2, <6>3
        <5>2. Event("ListedNext", next)' = Event("ListedNext", nxt)
          BY <2>8 DEF Event
        <5> QED
          BY <2>7, <4>1, <5>1, <5>2 DEF Waiting
      <4>2. CASE nxt = None
        BY <2>4, <2>7, <2>8, <3>2, <4>2 DEF Waiting
      <4> QED
        BY <4>1, <4>2
    <3>4. PICK old \in contracts : old = current
      BY <2>10, <2>11
    <3>5. /\ old < cur /\ OnlyCurrent(old)'
          /\ (status[current] = "next")' /\ SeenUpTo(current)'
      BY <1>1, <2>2, <2>8, <2>10, <2>11, <3>4 DEF OnlyCurrent, SeenUpTo
    <3>6. Resolving(old)'
      BY <2>8, <3>2, <3>3, <3>4, <3>5 DEF Resolving
    <3> QED
      BY <1>1, <3>2, <3>6 DEF Phase, Rolling
  <2>12. CASE current # None /\ next # cur
    <3>1. Rollover(cur) = <<Event("Resolved", current)>> \o <<Event("ListedCurrent", cur)>>
                          \o <<Event("Activated", cur)>>
      BY <1>7, <2>12 DEF Rollover
    <3>2. /\ pending' \in Seq(Events)
          /\ pending'[1] = Event("Resolved", current)
          /\ pending'[2] = Event("ListedCurrent", cur)
          /\ pending'[3] = Event("Activated", cur)
          /\ Len(pending') = 3 + Len(t)
          /\ nxt # None => pending'[4] = Event("ListedNext", nxt)
      BY <2>4, <2>6, <2>8, <2>10, <2>12, <3>1, CallEvents
    <3>3. Waiting(3)'
      <4>1. CASE nxt # None
        <5>1. Len(pending') = 3 + 1 /\ pending'[3 + 1] = Event("ListedNext", nxt)
          <6>1. 3 + 1 = 4
            OBVIOUS
          <6>2. Len(pending') = 4
            <7>1. Len(pending') = 3 + Len(t)
              BY <3>2
            <7>2. Len(t) = 1
              BY <2>4, <4>1
            <7> QED
              BY <7>1, <7>2
          <6>3. pending'[4] = Event("ListedNext", nxt)
            BY <3>2, <4>1
          <6> QED
            BY <6>1, <6>2, <6>3
        <5>2. Event("ListedNext", next)' = Event("ListedNext", nxt)
          BY <2>8 DEF Event
        <5> QED
          BY <2>7, <4>1, <5>1, <5>2 DEF Waiting
      <4>2. CASE nxt = None
        BY <2>4, <2>7, <2>8, <3>2, <4>2 DEF Waiting
      <4> QED
        BY <4>1, <4>2
    <3>4. PICK old \in contracts : old = current
      BY <2>10, <2>12
    <3>5. old < cur /\ OnlyCurrent(old)' /\ SeenBefore(current)'
      BY <1>1, <2>2, <2>8, <2>10, <2>12, <3>4 DEF OnlyCurrent, SeenBefore
    <3>6. ResolvingLeapt(old)'
      BY <2>8, <3>2, <3>3, <3>4, <3>5 DEF ResolvingLeapt
    <3> QED
      BY <1>1, <3>2, <3>6 DEF Phase, Rolling
  <2> QED
    BY <2>9, <2>11, <2>12
<1> QED
  BY <1>4, <1>6, <1>7

-----------------------------------------------------------------------------
(* Theorems.                                                               *)

\* The invariant is inductive.
LEMMA Invariance == Spec => []ScheduleInv
<1>1. Init => ScheduleInv
  <2> SUFFICES ASSUME Init PROVE ScheduleInv
    OBVIOUS
  <2>1. status \in [Ladder -> Lifecycle!Statuses]
    BY DEF Init, Lifecycle!Statuses
  <2>2. pending \in Seq(Events)
    BY DEF Init
  <2> QED
    BY <2>1, <2>2 DEF Init, ScheduleInv, MachineInv
<1>2. ScheduleInv /\ [Next]_vars => ScheduleInv'
  <2> SUFFICES ASSUME ScheduleInv, [Next]_vars PROVE ScheduleInv'
    OBVIOUS
  <2>1. ASSUME NEW ts \in 0..MaxTs, Call(ts) PROVE ScheduleInv'
    BY <2>1, CallPhase, CallMachine DEF ScheduleInv
  <2>2. CASE Deliver
    BY <2>2, DeliverPhase, DeliverMachine DEF ScheduleInv
  <2>3. CASE UNCHANGED vars
    <3>1. /\ contracts' = contracts /\ clock' = clock /\ current' = current
          /\ next' = next /\ pending' = pending /\ status' = status
      BY <2>3 DEF vars, machine
    <3>2. MachineInv'
      BY <3>1, ScheduleFixed DEF ScheduleInv, MachineInv
    <3>3. Phase' <=> Phase
      BY <3>1 DEF Phase, Rolling, Settled, Listing, Activating, ListingLeapt, Resolving,
                  ResolvingLeapt, Waiting, OnlyCurrent, NoneCurrent, SeenBefore, SeenUpTo
    <3> QED
      BY <3>1, <3>2, <3>3 DEF ScheduleInv
  <2> QED
    BY <2>1, <2>2, <2>3 DEF Next
<1> QED
  BY <1>1, <1>2, PTL DEF Spec

\* Type correctness: in particular a call hands the consumer at most four
\* events, and the machine's next contract is one of the schedule.
THEOREM TypeCorrect == Spec => []TypeOK
<1>1. ScheduleInv => TypeOK
  <2> SUFFICES ASSUME ScheduleInv PROVE TypeOK
    OBVIOUS
  <2>1. MachineInv
    BY DEF ScheduleInv
  <2>2. next \in contracts \cup {None}
    BY <2>1, NextAhead DEF MachineInv
  <2>3. Len(pending) <= 4
    <3>1. CASE current = None
      <4>1. pending = <<>>
        BY <2>1, <3>1 DEF MachineInv
      <4> QED
        BY <4>1
    <3>2. CASE current # None
      <4>1. \/ Waiting(0) \/ Waiting(1) \/ Waiting(2) \/ Waiting(3)
        BY <3>2 DEF ScheduleInv, Phase, Rolling, Settled, Listing, Activating,
                    ListingLeapt, Resolving, ResolvingLeapt
      <4>2. ASSUME NEW m \in 0..3, Waiting(m) PROVE Len(pending) <= 4
        <5>1. Len(pending) = m + 1 \/ Len(pending) = m
          BY <4>2 DEF Waiting
        <5> QED
          BY <5>1
      <4> QED
        BY <4>1, <4>2
    <3> QED
      BY <3>1, <3>2
  <2> QED
    BY <2>1, <2>2, <2>3 DEF MachineInv, TypeOK
<1> QED
  BY <1>1, Invariance, PTL

\* After a call's events the consumer has the machine's current and next
\* contract, and the current one is in force at the call's timestamp.
THEOREM ConsumerFollows == Spec => []ConsumerInStep
<1>1. ScheduleInv => ConsumerInStep
  <2> SUFFICES ASSUME ScheduleInv, pending = <<>> PROVE
        /\ \A c \in Ladder : status[c] = "current" <=> c = current
        /\ clock # None /\ CurrentAt(clock) # None => current = CurrentAt(clock)
        /\ current # None =>
             \A c \in Ladder : status[c] = "next" /\ c > current <=> c = next
    BY DEF ConsumerInStep
  <2>1. MachineInv /\ Ladder \subseteq Nat
    BY LadderAssumption DEF ScheduleInv
  <2>2. clock # None /\ CurrentAt(clock) # None => current = CurrentAt(clock)
    BY <2>1 DEF MachineInv
  <2>3. CASE current = None
    BY <2>1, <2>2, <2>3, NoneAssumption DEF MachineInv
  <2>4. CASE current # None
    <3>1. Settled /\ (next # None => status[next] = "next")
      BY <2>4, SettledWhenEmpty
    <3>2. \A c \in Ladder : status[c] = "current" <=> c = current
      BY <3>1 DEF Settled, OnlyCurrent
    <3>3. current \in Nat /\ (next # None => next \in Nat /\ current < next)
      BY <2>1, <2>4, NextAhead DEF MachineInv
    <3>4. \A c \in Ladder : status[c] # "unseen" => c <= current \/ c = next
      BY <3>1 DEF Settled
    <3>5. ASSUME NEW c \in Ladder PROVE status[c] = "next" /\ c > current <=> c = next
      <4>1. c \in Nat /\ c # None
        BY <2>1, NoneAssumption
      <4> QED
        BY <3>1, <3>3, <3>4, <4>1
    <3> QED
      BY <2>2, <3>2, <3>5
  <2> QED
    BY <2>3, <2>4
<1> QED
  BY <1>1, Invariance, PTL

\* The event stream implements the lifecycle a strategy relies on: every event
\* the consumer applies is one of its steps.
THEOREM LifecycleImplemented == Spec => LifecycleSpec
<1>1. Init => Lifecycle!Init
  BY DEF Init, Lifecycle!Init
<1>2. ScheduleInv /\ [Next]_vars => [Lifecycle!Next]_status
  <2> SUFFICES ASSUME ScheduleInv, [Next]_vars PROVE Lifecycle!Next \/ status' = status
    OBVIOUS
  <2>1. MachineInv /\ Ladder \subseteq Nat
    BY LadderAssumption DEF ScheduleInv
  <2>2. CASE Deliver
    <3>1. Phase /\ current # None
      BY <2>1, <2>2, Delivered DEF ScheduleInv
    <3>2. /\ current \in Ladder /\ current \in Nat
          /\ next # None => next \in Ladder /\ next \in Nat /\ current < next
      BY <2>1, <3>1, NextAhead
    <3>3. ASSUME NEW kind, NEW c, pending[1] = Event(kind, c)
          PROVE  status' = [status EXCEPT ![c] = Meaning(kind)]
      BY <2>1, <2>2, <3>3, Delivered DEF Event
    <3>4. CASE Settled
      <4>1. next # None /\ status[next] = "unseen" /\ pending[1] = Event("ListedNext", next)
        BY <2>1, <2>2, <3>4, Delivered DEF Settled, Waiting
      <4>2. Lifecycle!Become(next, "next")
        BY <3>3, <4>1 DEF Meaning, Lifecycle!Become
      <4>3. \A e \in Ladder : status[e] # "unseen" => e <= current
        BY <3>4, <4>1 DEF Settled
      <4>4. Lifecycle!Upcoming(next)
        BY <2>1, <3>2, <4>1, <4>3 DEF Lifecycle!Upcoming
      <4>5. status[current] = "current" /\ \A e \in Ladder : status[e] = "next" => e < current
        <5>1. \A e \in Ladder : status[e] = "current" <=> e = current
          BY <3>4 DEF Settled, OnlyCurrent
        <5>2. ASSUME NEW e \in Ladder, status[e] = "next" PROVE e < current
          <6>1. e # current /\ e <= current
            BY <4>3, <5>1, <5>2
          <6> QED
            BY <2>1, <3>2, <6>1
        <5> QED
          BY <3>2, <5>1, <5>2
      <4>6. Lifecycle!ListNext(next)
        BY <3>2, <4>2, <4>4, <4>5 DEF Lifecycle!ListNext
      <4> QED
        BY <3>2, <4>1, <4>6 DEF Lifecycle!Next
    <3>5. CASE Listing \/ ListingLeapt
      <4>1. pending[1] = Event("ListedCurrent", current) /\ NoneCurrent /\ SeenBefore(current)
        BY <3>5 DEF Listing, ListingLeapt
      <4>2. Lifecycle!Become(current, "current")
        BY <3>3, <4>1 DEF Meaning, Lifecycle!Become
      <4>3. ~Lifecycle!Shown("current") /\ Lifecycle!Upcoming(current)
        BY <4>1 DEF NoneCurrent, SeenBefore, Lifecycle!Shown, Lifecycle!Upcoming
      <4>4. Lifecycle!ListCurrent(current)
        BY <4>2, <4>3 DEF Lifecycle!ListCurrent
      <4> QED
        BY <3>2, <4>4 DEF Lifecycle!Next
    <3>6. CASE Activating
      <4>1. status' = [status EXCEPT ![current] = "current"]
        BY <3>3, <3>6 DEF Activating, Meaning
      <4>2. CASE OnlyCurrent(current)
        <5>1. status[current] = "current"
          BY <3>2, <4>2 DEF OnlyCurrent
        <5>2. status' = status
          BY <2>1, <4>1, <5>1 DEF MachineInv
        <5> QED
          BY <5>2
      <4>3. CASE NoneCurrent /\ status[current] = "next"
        <5>1. ~Lifecycle!Shown("current")
          BY <4>3 DEF NoneCurrent, Lifecycle!Shown
        <5>2. \A d \in Ladder : status[d] # "unseen" => d <= current
          BY <3>6 DEF Activating, SeenUpTo
        <5>3. Lifecycle!Activate(current)
          BY <4>1, <4>3, <5>1, <5>2 DEF Lifecycle!Activate, Lifecycle!Become
        <5> QED
          BY <3>2, <5>3 DEF Lifecycle!Next
      <4> QED
        BY <3>6, <4>2, <4>3 DEF Activating
    <3>7. ASSUME NEW old \in contracts, Rolling(old) PROVE Lifecycle!Next
      <4>1. pending[1] = Event("Resolved", old) /\ OnlyCurrent(old)
        BY <3>7 DEF Rolling, Resolving, ResolvingLeapt
      <4>2. old \in Ladder /\ status[old] = "current"
        BY <2>1, <4>1 DEF MachineInv, OnlyCurrent
      <4>3. Lifecycle!Resolve(old)
        BY <3>3, <4>1, <4>2 DEF Meaning, Lifecycle!Resolve, Lifecycle!Become
      <4> QED
        BY <4>2, <4>3 DEF Lifecycle!Next
    <3> QED
      BY <3>1, <3>4, <3>5, <3>6, <3>7 DEF Phase
  <2>3. CASE \E ts \in 0..MaxTs : Call(ts)
    BY <2>3 DEF Call
  <2>4. CASE UNCHANGED vars
    BY <2>4 DEF vars
  <2> QED
    BY <2>2, <2>3, <2>4 DEF Next
<1> QED
  BY <1>1, <1>2, Invariance, PTL DEF Spec, LifecycleSpec, Lifecycle!Spec

=============================================================================
