--------------------------- MODULE RawMirrorProofs ---------------------------
(***************************************************************************)
(* Theorems about RawMirror, for any number of mirrors beside each other,  *)
(* any finite window of cells and any number of faults.                    *)
(***************************************************************************)
EXTENDS RawMirror, TLAPS, FiniteSetTheorems

AllSteps == {"queued"} \cup Steps \cup Results

MirrorType == [pc : {"done", "running"}, job : JobType, code : {0, 1, 2}]

\* What a worker's step does to the jobs.
LEMMA GotoFacts ==
  ASSUME mirror \in [Mirrors -> MirrorType], NEW m \in Mirrors, NEW c,
         c \in DOMAIN mirror[m].job, NEW step \in AllSteps, Goto(m, c, step)
  PROVE  /\ mirror' \in [Mirrors -> MirrorType]
         /\ \A n \in Mirrors \ {m} : mirror'[n] = mirror[n]
         /\ mirror'[m].pc = mirror[m].pc /\ mirror'[m].code = mirror[m].code
         /\ DOMAIN mirror'[m].job = DOMAIN mirror[m].job
         /\ mirror'[m].job[c] = step
         /\ \A d \in DOMAIN mirror[m].job \ {c} : mirror'[m].job[d] = mirror[m].job[d]
<1>1. PICK S \in SUBSET Cells : mirror[m].job \in [S -> AllSteps]
  BY DEF MirrorType, JobType, AllSteps
<1> DEFINE job == [mirror[m].job EXCEPT ![c] = step]
<1>2. job \in [S -> AllSteps] /\ job \in JobType
  BY <1>1 DEF JobType, AllSteps
<1>3. /\ DOMAIN job = DOMAIN mirror[m].job /\ job[c] = step
      /\ \A d \in DOMAIN mirror[m].job \ {c} : job[d] = mirror[m].job[d]
  BY <1>1
<1>4. mirror' = [mirror EXCEPT ![m] = [mirror[m] EXCEPT !.job = job]]
  BY DEF Goto
<1> HIDE DEF job
<1>5. /\ mirror'[m] = [mirror[m] EXCEPT !.job = job]
      /\ \A n \in Mirrors \ {m} : mirror'[n] = mirror[n]
  BY <1>4
<1>6. [mirror[m] EXCEPT !.job = job] \in MirrorType
  BY <1>2 DEF MirrorType
<1>7. mirror' \in [Mirrors -> MirrorType]
  BY <1>4, <1>6
<1> QED
  BY <1>3, <1>5, <1>7 DEF MirrorType

\* What a start, an exit or a death leaves of the other mirrors.
LEMMA SetFacts ==
  ASSUME mirror \in [Mirrors -> MirrorType], NEW m \in Mirrors, NEW j \in MirrorType,
         mirror' = [mirror EXCEPT ![m] = j]
  PROVE  /\ mirror' \in [Mirrors -> MirrorType]
         /\ mirror'[m] = j
         /\ \A n \in Mirrors \ {m} : mirror'[n] = mirror[n]
OBVIOUS

LEMMA StartFacts ==
  ASSUME mirror \in [Mirrors -> MirrorType], NEW m \in Mirrors,
         NEW targets \in SUBSET Cells, Start(m, targets)
  PROVE  /\ mirror' \in [Mirrors -> MirrorType]
         /\ mirror'[m] = [pc |-> "running", job |-> [c \in targets |-> "queued"], code |-> 0]
         /\ \A n \in Mirrors \ {m} : mirror'[n] = mirror[n]
         /\ UNCHANGED <<now, upstream, store, faults>>
<1> DEFINE j == [pc |-> "running", job |-> [c \in targets |-> "queued"], code |-> 0]
<1>1. [c \in targets |-> "queued"] \in JobType
  BY DEF JobType
<1>2. j \in MirrorType
  BY <1>1 DEF MirrorType
<1>3. mirror' = [mirror EXCEPT ![m] = j] /\ UNCHANGED <<now, upstream, store, faults>>
  BY DEF Start
<1> HIDE DEF j
<1>4. mirror' \in [Mirrors -> MirrorType] /\ mirror'[m] = j
      /\ \A n \in Mirrors \ {m} : mirror'[n] = mirror[n]
  BY <1>2, <1>3, SetFacts
<1> QED
  BY <1>3, <1>4 DEF j

\* The end of a process: all its jobs keep their step, and code 0 means that
\* all of them have a result and none failed.
LEMMA EndFacts ==
  ASSUME mirror \in [Mirrors -> MirrorType], NEW m \in Mirrors, Finish(m) \/ Die(m)
  PROVE  /\ mirror' \in [Mirrors -> MirrorType]
         /\ mirror'[m].job = mirror[m].job /\ mirror'[m].pc = "done"
         /\ mirror'[m].code = 0 =>
              \A c \in DOMAIN mirror[m].job : mirror[m].job[c] \in {"mirrored", "skipped"}
         /\ \A n \in Mirrors \ {m} : mirror'[n] = mirror[n]
         /\ UNCHANGED <<now, upstream, store>>
<1>1. PICK code \in {0, 1, 2} :
        /\ mirror' = [mirror EXCEPT ![m] = [mirror[m] EXCEPT !.pc = "done", !.code = code]]
        /\ code = 0 => \A c \in DOMAIN mirror[m].job : mirror[m].job[c] \in {"mirrored", "skipped"}
  <2>1. CASE Finish(m)
    <3> DEFINE failed == \E c \in DOMAIN mirror[m].job : mirror[m].job[c] = "failed"
               code == IF failed THEN 2 ELSE 0
    <3>1. mirror' = [mirror EXCEPT ![m] = [mirror[m] EXCEPT !.pc = "done", !.code = code]]
      BY <2>1 DEF Finish
    <3>2. \A c \in DOMAIN mirror[m].job : mirror[m].job[c] \in Results
      BY <2>1 DEF Finish
    <3>3. code = 0 => \A c \in DOMAIN mirror[m].job : mirror[m].job[c] \in {"mirrored", "skipped"}
      BY <3>2 DEF Results
    <3>4. code \in {0, 1, 2}
      OBVIOUS
    <3> HIDE DEF code
    <3> QED
      BY <3>1, <3>3, <3>4
  <2>2. CASE Die(m)
    <3>1. mirror' = [mirror EXCEPT ![m] = [mirror[m] EXCEPT !.pc = "done", !.code = 1]]
      BY <2>2 DEF Die
    <3> QED
      BY <3>1
  <2> QED
    BY <2>1, <2>2
<1>2. [mirror[m] EXCEPT !.pc = "done", !.code = code] \in MirrorType
  BY DEF MirrorType
<1>3. /\ mirror' \in [Mirrors -> MirrorType]
      /\ mirror'[m] = [mirror[m] EXCEPT !.pc = "done", !.code = code]
      /\ \A n \in Mirrors \ {m} : mirror'[n] = mirror[n]
  BY <1>1, <1>2, SetFacts
<1>4. mirror[m] \in MirrorType
  OBVIOUS
<1>5. mirror'[m].job = mirror[m].job /\ mirror'[m].pc = "done" /\ mirror'[m].code = code
  BY <1>3, <1>4 DEF MirrorType
<1>6. UNCHANGED <<now, upstream, store>>
  BY DEF Finish, Die
<1> QED
  BY <1>1, <1>3, <1>5, <1>6

-----------------------------------------------------------------------------

\* At most one thread more is busy after a worker's step, and none is unless
\* the step is to another remote call.
LEMMA BusyFacts ==
  ASSUME mirror \in [Mirrors -> MirrorType], NEW m \in Mirrors, NEW c,
         c \in DOMAIN mirror[m].job, NEW step \in AllSteps, Goto(m, c, step),
         \A n \in Mirrors : Cardinality(Busy(n)) <= Workers,
         \/ c \in Busy(m)
         \/ Cardinality(Busy(m)) < Workers
  PROVE  \A n \in Mirrors : Cardinality(Busy(n)') <= Workers
<1>1. IsFiniteSet(Busy(m)) /\ Cardinality(Busy(m)) \in Nat
  <2>1. Busy(m) \subseteq Cells
    BY DEF Busy, MirrorType, JobType
  <2> QED
    BY <2>1, CellsAssumption, FS_Subset, FS_CardinalityType
<1>2. Busy(m)' \subseteq Busy(m) \cup {c}
  BY GotoFacts DEF Busy
<1>3. IsFiniteSet(Busy(m) \cup {c}) /\ Cardinality(Busy(m) \cup {c}) \in Nat
      /\ Cardinality(Busy(m) \cup {c}) <= Workers
  <2>1. CASE c \in Busy(m)
    <3>1. Busy(m) \cup {c} = Busy(m)
      BY <2>1
    <3> QED
      BY <1>1, <3>1
  <2>2. CASE c \notin Busy(m)
    <3>1. Cardinality(Busy(m) \cup {c}) = Cardinality(Busy(m)) + 1 /\ IsFiniteSet(Busy(m) \cup {c})
      BY <1>1, <2>2, FS_AddElement
    <3>2. Cardinality(Busy(m)) < Workers
      BY <2>2
    <3> QED
      BY <1>1, <3>1, <3>2, WorkersAssumption
  <2> QED
    BY <2>1, <2>2
<1>4. Cardinality(Busy(m)') <= Workers
  <2>1. Cardinality(Busy(m)') <= Cardinality(Busy(m) \cup {c})
        /\ Cardinality(Busy(m)') \in Nat
    BY <1>2, <1>3, FS_Subset, FS_CardinalityType
  <2> QED
    BY <1>3, <2>1, WorkersAssumption
<1>5. \A n \in Mirrors \ {m} : Busy(n)' = Busy(n)
  BY GotoFacts DEF Busy
<1> QED
  BY <1>4, <1>5

Types ==
  /\ now \in 0..MaxNow
  /\ upstream \subseteq Cells
  /\ object \subseteq Cells
  /\ record \subseteq Cells
  /\ stored \subseteq Cells
  /\ mirror \in [Mirrors -> MirrorType]
  /\ faults \in 0..MaxFaults

LEMMA TypesEquiv ==
  TypeOK <=> Types /\ \A m \in Mirrors : Cardinality(Busy(m)) <= Workers
BY DEF TypeOK, Types, MirrorType

\* Every step of a worker is a Goto of a cell of its process; a new cell is
\* taken only when a thread is free.
WorkerStep(m, c, step) ==
  /\ c \in DOMAIN mirror[m].job
  /\ step \in AllSteps
  /\ Goto(m, c, step)
  /\ c \in Busy(m) \/ Cardinality(Busy(m)) < Workers

LEMMA WorkFacts ==
  ASSUME NEW m \in Mirrors, NEW c \in Cells, Work(m, c) \/ Raise(m, c)
  PROVE  \E step \in AllSteps : WorkerStep(m, c, step)
<1> USE DEF WorkerStep, AllSteps, Steps, Results, Busy, Running
<1>1. CASE Look(m, c)
  BY <1>1 DEF Look
<1>2. CASE Head(m, c)
  BY <1>2 DEF Head
<1>3. CASE Get(m, c)
  BY <1>3 DEF Get
<1>4. CASE Put(m, c)
  BY <1>4 DEF Put
<1>5. CASE Record(m, c)
  BY <1>5 DEF Record
<1>6. CASE Raise(m, c)
  BY <1>6 DEF Raise
<1> QED
  BY <1>1, <1>2, <1>3, <1>4, <1>5, <1>6 DEF Work

\* Cells, records and jobs keep their types, and no process has more threads
\* at work than workers.
THEOREM TypeCorrect == Spec => []TypeOK
<1>1. Init => TypeOK
  <2> SUFFICES ASSUME Init PROVE TypeOK
    OBVIOUS
  <2>1. <<>> \in JobType
    BY DEF JobType
  <2>2. mirror \in [Mirrors -> MirrorType]
    BY <2>1 DEF Init, MirrorType
  <2>3. \A m \in Mirrors : Busy(m) = {}
    BY DEF Init, Busy
  <2>4. \A m \in Mirrors : Cardinality(Busy(m)) <= Workers
    BY <2>3, FS_EmptySet, WorkersAssumption
  <2> QED
    BY <2>2, <2>4, TypesEquiv, MaxNowAssumption, MaxFaultsAssumption DEF Init, Types
<1>2. TypeOK /\ [Next]_vars => TypeOK'
  <2> SUFFICES ASSUME TypeOK, [Next]_vars PROVE TypeOK'
    OBVIOUS
  <2>0. Types /\ \A m \in Mirrors : Cardinality(Busy(m)) <= Workers
    BY TypesEquiv
  <2>1. ASSUME NEW m \in Mirrors, StartPmxt(m) \/ StartHl(m) PROVE TypeOK'
    <3>1. PICK targets \in SUBSET Cells : Start(m, targets)
      BY <2>1 DEF StartPmxt, StartHl, PmxtTargets, HlTargets
    <3>2. Types'
      BY <2>0, <3>1, StartFacts DEF Types, store
    <3>3. Busy(m)' = {}
      <4>1. mirror'[m] = [pc |-> "running", job |-> [c \in targets |-> "queued"], code |-> 0]
        BY <2>0, <3>1, StartFacts DEF Types
      <4>2. mirror'[m].job = [c \in targets |-> "queued"]
        BY <4>1
      <4> QED
        BY <4>2 DEF Busy, Steps
    <3>4. \A n \in Mirrors \ {m} : Busy(n)' = Busy(n)
      BY <2>0, <3>1, StartFacts DEF Types, Busy
    <3>5. \A n \in Mirrors : Cardinality(Busy(n)') <= Workers
      BY <2>0, <3>3, <3>4, FS_EmptySet, WorkersAssumption
    <3> QED
      BY <3>2, <3>5 DEF TypeOK, Types, MirrorType
  <2>2. ASSUME NEW m \in Mirrors, Finish(m) \/ Die(m) PROVE TypeOK'
    <3>1. mirror' \in [Mirrors -> MirrorType] /\ UNCHANGED <<now, upstream, store>>
      BY <2>0, <2>2, EndFacts DEF Types
    <3>2. faults' \in 0..MaxFaults
      BY <2>0, <2>2, MaxFaultsAssumption DEF Types, Finish, Die
    <3>3. \A n \in Mirrors : Busy(n)' = Busy(n)
      BY <2>0, <2>2, EndFacts DEF Types, Busy
    <3> QED
      BY <2>0, <3>1, <3>2, <3>3 DEF TypeOK, Types, MirrorType, store
  <2>3. ASSUME NEW m \in Mirrors, NEW c \in Cells, Work(m, c) \/ Raise(m, c) PROVE TypeOK'
    <3>1. PICK step \in AllSteps : WorkerStep(m, c, step)
      BY <2>3, WorkFacts
    <3>2. \A n \in Mirrors : Cardinality(Busy(n)') <= Workers
      BY <2>0, <3>1, BusyFacts DEF Types, WorkerStep
    <3>3. mirror' \in [Mirrors -> MirrorType]
      BY <2>0, <3>1, GotoFacts DEF Types, WorkerStep
    <3>4. now' \in 0..MaxNow /\ upstream' \subseteq Cells /\ object' \subseteq Cells
          /\ record' \subseteq Cells /\ stored' \subseteq Cells /\ faults' \in 0..MaxFaults
      BY <2>0, <2>3, MaxFaultsAssumption
         DEF Types, Work, Look, Head, Get, Put, Record, Raise, store
    <3> QED
      BY <3>2, <3>3, <3>4 DEF TypeOK, MirrorType
  <2>4. ASSUME NEW c \in Cells, Lose(c) \/ Publish(c) PROVE TypeOK'
    <3>1. mirror' = mirror /\ Types'
      BY <2>0, <2>4, MaxFaultsAssumption DEF Types, Lose, Publish, store
    <3>2. \A n \in Mirrors : Busy(n)' = Busy(n)
      BY <3>1 DEF Busy
    <3> QED
      BY <2>0, <3>1, <3>2 DEF TypeOK, Types, MirrorType
  <2>5. CASE Tick \/ UNCHANGED vars
    <3>1. mirror' = mirror /\ Types'
      BY <2>0, <2>5, MaxNowAssumption DEF Types, Tick, vars, store
    <3>2. \A n \in Mirrors : Busy(n)' = Busy(n)
      BY <3>1 DEF Busy
    <3> QED
      BY <2>0, <3>1, <3>2 DEF TypeOK, Types, MirrorType
  <2> QED
    BY <2>1, <2>2, <2>3, <2>4, <2>5 DEF Next
<1> QED
  BY <1>1, <1>2, PTL DEF Spec

-----------------------------------------------------------------------------
(* Safety.                                                                 *)

Over(c) == 2 * c[2] + 2 <= now

\* Upstream publishes after the hour, a worker puts what it got and records
\* what it put, and a worker whose cell was recorded, or that has mirrored or
\* skipped it, leaves a record.
UpstreamOver == \A c \in upstream : Over(c)

Knows(m, c) ==
  /\ mirror[m].job[c] \in {"put", "record"} => c \in upstream
  /\ mirror[m].job[c] = "record" => c \in stored
  /\ mirror[m].job[c] \in {"head", "mirrored", "skipped"} => c \in record

WorkersKnow == \A m \in Mirrors : \A c \in DOMAIN mirror[m].job : Knows(m, c)

ZeroFinished ==
  \A m \in Mirrors : mirror[m].pc = "done" /\ mirror[m].code = 0 =>
    \A c \in DOMAIN mirror[m].job : mirror[m].job[c] \in {"mirrored", "skipped"}

SafeInv == UpstreamOver /\ RecordsAreStored /\ WorkersKnow /\ ZeroFinished

LEMMA SafeInductive == TypeOK /\ SafeInv /\ [Next]_vars => SafeInv'
<1> SUFFICES ASSUME TypeOK, SafeInv, [Next]_vars PROVE SafeInv'
  OBVIOUS
<1>0. Types
  BY TypesEquiv
<1>1. ASSUME NEW m \in Mirrors, StartPmxt(m) \/ StartHl(m) PROVE SafeInv'
  <2>1. PICK targets \in SUBSET Cells : Start(m, targets)
    BY <1>1 DEF StartPmxt, StartHl, PmxtTargets, HlTargets
  <2>2. /\ mirror'[m] = [pc |-> "running", job |-> [c \in targets |-> "queued"], code |-> 0]
        /\ \A n \in Mirrors \ {m} : mirror'[n] = mirror[n]
        /\ UNCHANGED <<now, upstream, store, faults>>
    BY <1>0, <2>1, StartFacts DEF Types
  <2>3. mirror'[m].pc = "running" /\ mirror'[m].job = [c \in targets |-> "queued"]
    BY <2>2
  <2>4. \A c \in DOMAIN mirror'[m].job : mirror'[m].job[c] = "queued"
    BY <2>3
  <2>5. UpstreamOver' /\ RecordsAreStored'
    BY <2>2 DEF SafeInv, UpstreamOver, RecordsAreStored, Over, store
  <2>6. WorkersKnow'
    BY <2>2, <2>4 DEF SafeInv, WorkersKnow, Knows, store
  <2>7. ZeroFinished'
    BY <2>2, <2>3 DEF SafeInv, ZeroFinished
  <2> QED
    BY <2>5, <2>6, <2>7 DEF SafeInv
<1>2. ASSUME NEW m \in Mirrors, Finish(m) \/ Die(m) PROVE SafeInv'
  <2>1. /\ mirror'[m].job = mirror[m].job /\ mirror'[m].pc = "done"
        /\ mirror'[m].code = 0 =>
             \A c \in DOMAIN mirror[m].job : mirror[m].job[c] \in {"mirrored", "skipped"}
        /\ \A n \in Mirrors \ {m} : mirror'[n] = mirror[n]
        /\ UNCHANGED <<now, upstream, store>>
    BY <1>0, <1>2, EndFacts DEF Types
  <2>2. UpstreamOver' /\ RecordsAreStored'
    BY <2>1 DEF SafeInv, UpstreamOver, RecordsAreStored, Over, store
  <2>3. WorkersKnow'
    BY <2>1 DEF SafeInv, WorkersKnow, Knows, store
  <2>4. ZeroFinished'
    BY <2>1 DEF SafeInv, ZeroFinished
  <2> QED
    BY <2>2, <2>3, <2>4 DEF SafeInv
<1>3. ASSUME NEW m \in Mirrors, NEW c \in Cells, Work(m, c) \/ Raise(m, c) PROVE SafeInv'
  <2>1. PICK step \in AllSteps : WorkerStep(m, c, step)
    BY <1>3, WorkFacts
  <2>2. /\ \A n \in Mirrors \ {m} : mirror'[n] = mirror[n]
        /\ mirror'[m].pc = mirror[m].pc /\ mirror'[m].code = mirror[m].code
        /\ DOMAIN mirror'[m].job = DOMAIN mirror[m].job /\ c \in DOMAIN mirror[m].job
        /\ mirror'[m].job[c] = step
        /\ \A d \in DOMAIN mirror[m].job \ {c} : mirror'[m].job[d] = mirror[m].job[d]
    BY <1>0, <2>1, GotoFacts DEF Types, WorkerStep
  <2>3. /\ mirror[m].pc = "running"
        /\ Knows(m, c)
    BY <1>3, <2>2 DEF Work, Look, Head, Get, Put, Record, Raise, Running, SafeInv, WorkersKnow
  <2>4. Knows(m, c)' /\ RecordsAreStored' /\ UNCHANGED <<now, upstream>>
        /\ record \subseteq record' /\ stored \subseteq stored'
    <3> USE DEF Knows, RecordsAreStored, SafeInv, Running, Goto, store
    <3>1. CASE Look(m, c)
      BY <1>0, <2>2, <3>1 DEF Look
    <3>2. CASE Head(m, c)
      BY <2>2, <2>3, <3>2 DEF Head
    <3>3. CASE Get(m, c)
      BY <2>2, <2>3, <3>3 DEF Get
    <3>4. CASE Put(m, c)
      BY <2>2, <2>3, <3>4 DEF Put
    <3>5. CASE Record(m, c)
      BY <2>2, <2>3, <3>5 DEF Record, UpstreamOver, Over
    <3>6. CASE Raise(m, c)
      BY <2>2, <2>3, <3>6 DEF Raise
    <3> QED
      BY <1>3, <3>1, <3>2, <3>3, <3>4, <3>5, <3>6 DEF Work
  <2>5. WorkersKnow'
    BY <2>2, <2>4 DEF SafeInv, WorkersKnow, Knows
  <2>6. UpstreamOver' /\ ZeroFinished'
    BY <2>2, <2>3, <2>4 DEF SafeInv, UpstreamOver, Over, ZeroFinished
  <2> QED
    BY <2>4, <2>5, <2>6 DEF SafeInv
<1>4. ASSUME NEW c \in Cells, Lose(c) \/ Publish(c) PROVE SafeInv'
  BY <1>4 DEF Lose, Publish, store, SafeInv, UpstreamOver, Over, RecordsAreStored,
              WorkersKnow, Knows, ZeroFinished
<1>5. CASE Tick
  <2>1. now' = now + 1 /\ UNCHANGED <<upstream, store, mirror>>
    BY <1>5 DEF Tick
  <2>2. \A c \in upstream : Over(c) => Over(c)'
    <3> SUFFICES ASSUME NEW c \in upstream, Over(c) PROVE Over(c)'
      OBVIOUS
    <3>1. c[2] \in Nat /\ now \in Nat
      BY <1>0, CellsAssumption, MaxNowAssumption DEF Types
    <3> QED
      BY <2>1, <3>1 DEF Over
  <2>3. UpstreamOver' /\ RecordsAreStored'
    BY <2>1, <2>2 DEF SafeInv, UpstreamOver, RecordsAreStored, Over, store
  <2> QED
    BY <2>1, <2>3 DEF SafeInv, WorkersKnow, Knows, ZeroFinished, store
<1>6. CASE UNCHANGED vars
  BY <1>6 DEF vars, store, SafeInv, UpstreamOver, Over, RecordsAreStored,
              WorkersKnow, Knows, ZeroFinished
<1> QED
  BY <1>1, <1>2, <1>3, <1>4, <1>5, <1>6 DEF Next

LEMMA SafeAlways == Spec => []SafeInv
<1>1. Init => SafeInv
  BY DEF Init, SafeInv, UpstreamOver, RecordsAreStored, WorkersKnow, Knows, ZeroFinished
<1> QED
  BY <1>1, SafeInductive, TypeCorrect, PTL DEF Spec

\* A READY record is never ahead of the data, however many mirrors race, fail
\* and die, and whatever objects get lost.
THEOREM RecordsFollowData == Spec => []RecordsAreStored
BY SafeAlways, PTL DEF SafeInv

\* Exit code 0 of any mirror, whatever else runs, means that every hour it had
\* planned is recorded.
THEOREM ZeroIsRecorded == Spec => []ZeroMeansRecorded
<1>1. SafeInv => ZeroMeansRecorded
  BY DEF SafeInv, WorkersKnow, Knows, ZeroFinished, ZeroMeansRecorded
<1> QED
  BY <1>1, SafeAlways, PTL

=============================================================================
