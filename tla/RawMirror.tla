----------------------------- MODULE RawMirror -----------------------------
(***************************************************************************)
(* Mirroring raw hours into S3 (mirror_pmxt_window in pmxt.py and          *)
(* mirror_hl_window in hyperliquid.py).  Both loops are the same but for   *)
(* the planning of the hours: a pool of workers handles one cell (a        *)
(* dataset kind and an hour) each, a summary collects the outcomes, and    *)
(* the command exits with 0 or 2 (commands/run.py).  Mirror processes run  *)
(* at any time and beside each other: the hourly schedule, submitted       *)
(* tasks, a laptop.  They share the objects and the coverage records, and  *)
(* no lock.                                                                *)
(*                                                                         *)
(* Upstream is outside the repository: an hour appears whole, some time    *)
(* after it is over (the comments on the publish lag in pmxt.py).  Time    *)
(* advances by half hours; the hour h lasts from 2h to 2h + 2.  Objects    *)
(* may get lost after they were stored, which the code provides for by     *)
(* looking at the object and not at its record only.                       *)
(***************************************************************************)
EXTENDS Naturals, FiniteSets

CONSTANTS
  Mirrors,    \* mirror processes
  Cells,      \* the cells of the window: <<kind, hour>>
  Workers,    \* threads of a process
  MaxNow,     \* bound: the last half hour
  MaxFaults   \* bound: exceptions, deaths of a process and lost objects

Kinds == {"pmxt", "l2", "fills"}

ASSUME CellsAssumption     == Cells \subseteq Kinds \X Nat /\ IsFiniteSet(Cells)
ASSUME WorkersAssumption   == Workers \in Nat \ {0}
ASSUME MaxNowAssumption    == MaxNow \in Nat
ASSUME MaxFaultsAssumption == MaxFaults \in Nat

VARIABLES
  now,       \* half hours since the beginning of the window
  upstream,  \* cells that upstream has published
  object,    \* cells whose object is in the bucket
  record,    \* cells with a READY coverage record
  stored,    \* cells whose object was put at some time (history)
  mirror,    \* per process: its position, its jobs, its exit code
  faults

store == <<object, record, stored>>
vars == <<now, upstream, store, mirror, faults>>

-----------------------------------------------------------------------------

\* Where a worker is with its cell.  The last three are the job's results.
Results == {"mirrored", "skipped", "failed"}
Steps   == {"head", "get", "put", "record"}

\* _planned_targets: an hour is planned from 30 minutes after its start on.
PmxtTargets == {c \in Cells : c[1] = "pmxt" /\ 2 * c[2] + 1 <= now}

HlTargets == {c \in Cells : c[1] # "pmxt"}

Busy(m) == {c \in DOMAIN mirror[m].job : mirror[m].job[c] \in Steps}

Running(m, c, step) ==
  /\ mirror[m].pc = "running"
  /\ c \in DOMAIN mirror[m].job
  /\ mirror[m].job[c] = step

Goto(m, c, step) == mirror' = [mirror EXCEPT ![m].job[c] = step]

-----------------------------------------------------------------------------

Init ==
  /\ now = 0
  /\ upstream = {}
  /\ object = {}
  /\ record = {}
  /\ stored = {}
  /\ mirror = [m \in Mirrors |-> [pc |-> "done", job |-> <<>>, code |-> 0]]
  /\ faults = 0

Start(m, targets) ==
  /\ mirror[m].pc = "done"
  /\ mirror' = [mirror EXCEPT ![m] =
       [pc |-> "running", job |-> [c \in targets |-> "queued"], code |-> 0]]
  /\ UNCHANGED <<now, upstream, store, faults>>

\* Mutant of Look: a thread for every cell.
LookAtOnce(m, c) ==
  /\ Running(m, c, "queued")
  /\ Goto(m, c, IF c \in record THEN "head" ELSE "get")
  /\ UNCHANGED <<now, upstream, store, faults>>

\* A free worker takes a cell and reads its coverage record.
Look(m, c) ==
  /\ Running(m, c, "queued")
  /\ Cardinality(Busy(m)) < Workers
  /\ Goto(m, c, IF c \in record THEN "head" ELSE "get")
  /\ UNCHANGED <<now, upstream, store, faults>>

\* Mutant of Head: the record is trusted.
HeadTrusting(m, c) ==
  /\ Running(m, c, "head")
  /\ Goto(m, c, "skipped")
  /\ UNCHANGED <<now, upstream, store, faults>>

\* A recorded cell is skipped if its object exists.
Head(m, c) ==
  /\ Running(m, c, "head")
  /\ Goto(m, c, IF c \in object THEN "skipped" ELSE "get")
  /\ UNCHANGED <<now, upstream, store, faults>>

\* Mutant of Get: an answer without an object is taken for the object's.
GetAnything(m, c) ==
  /\ Running(m, c, "get")
  /\ Goto(m, c, IF c \in upstream THEN "put" ELSE "record")
  /\ UNCHANGED <<now, upstream, store, faults>>

\* Upstream answers with the hour, or with 404.
Get(m, c) ==
  /\ Running(m, c, "get")
  /\ Goto(m, c, IF c \in upstream THEN "put" ELSE "failed")
  /\ UNCHANGED <<now, upstream, store, faults>>

Put(m, c) ==
  /\ Running(m, c, "put")
  /\ object' = object \cup {c}
  /\ stored' = stored \cup {c}
  /\ Goto(m, c, "record")
  /\ UNCHANGED <<now, upstream, record, faults>>

Record(m, c) ==
  /\ Running(m, c, "record")
  /\ record' = record \cup {c}
  /\ Goto(m, c, "mirrored")
  /\ UNCHANGED <<now, upstream, object, stored, faults>>

\* Mutant of Raise: a job that raised is not counted as failed.
RaiseUncounted(m, c) ==
  /\ faults < MaxFaults
  /\ \E step \in Steps : Running(m, c, step)
  /\ faults' = faults + 1
  /\ Goto(m, c, "skipped")
  /\ UNCHANGED <<now, upstream, store>>

\* Any remote call of the job raises.
Raise(m, c) ==
  /\ faults < MaxFaults
  /\ \E step \in Steps : Running(m, c, step)
  /\ faults' = faults + 1
  /\ Goto(m, c, "failed")
  /\ UNCHANGED <<now, upstream, store>>

\* All jobs have a result: the command exits.
Finish(m) ==
  /\ mirror[m].pc = "running"
  /\ \A c \in DOMAIN mirror[m].job : mirror[m].job[c] \in Results
  /\ mirror' = [mirror EXCEPT ![m].pc = "done",
       ![m].code = IF \E c \in DOMAIN mirror[m].job : mirror[m].job[c] = "failed"
                     THEN 2 ELSE 0]
  /\ UNCHANGED <<now, upstream, store, faults>>

\* The process dies: its jobs stop where they are.
Die(m) ==
  /\ faults < MaxFaults
  /\ mirror[m].pc = "running"
  /\ faults' = faults + 1
  /\ mirror' = [mirror EXCEPT ![m].pc = "done", ![m].code = 1]
  /\ UNCHANGED <<now, upstream, store>>

Lose(c) ==
  /\ faults < MaxFaults
  /\ c \in object
  /\ faults' = faults + 1
  /\ object' = object \ {c}
  /\ UNCHANGED <<now, upstream, record, stored, mirror>>

Tick ==
  /\ now < MaxNow
  /\ now' = now + 1
  /\ UNCHANGED <<upstream, store, mirror, faults>>

Publish(c) ==
  /\ 2 * c[2] + 2 <= now
  /\ c \notin upstream
  /\ upstream' = upstream \cup {c}
  /\ UNCHANGED <<now, store, mirror, faults>>

StartPmxt(m) == Start(m, PmxtTargets)
StartHl(m)   == Start(m, HlTargets)

Work(m, c) == Look(m, c) \/ Head(m, c) \/ Get(m, c) \/ Put(m, c) \/ Record(m, c)

Next ==
  \/ \E m \in Mirrors : StartPmxt(m) \/ StartHl(m) \/ Finish(m) \/ Die(m)
  \/ \E m \in Mirrors, c \in Cells : Work(m, c) \/ Raise(m, c)
  \/ \E c \in Cells : Lose(c) \/ Publish(c)
  \/ Tick

Spec == Init /\ [][Next]_vars

\* The threads of a command run until it exits.  Nothing is assumed of time, of
\* upstream, nor that a command is ever started again: the schedules of
\* infra/runtime start mirrors over windows that slide, and leave an hour
\* behind that failed until its window had passed.
Fairness == \A m \in Mirrors : WF_vars(Finish(m) \/ \E c \in Cells : Work(m, c))

FairSpec == Spec /\ Fairness

-----------------------------------------------------------------------------
(* Properties.                                                             *)

JobType == UNION {[S -> {"queued"} \cup Steps \cup Results] : S \in SUBSET Cells}

TypeOK ==
  /\ now \in 0..MaxNow
  /\ upstream \subseteq Cells
  /\ object \subseteq Cells
  /\ record \subseteq Cells
  /\ stored \subseteq Cells
  /\ mirror \in [Mirrors -> [pc : {"done", "running"}, job : JobType, code : {0, 1, 2}]]
  /\ \A m \in Mirrors : Cardinality(Busy(m)) <= Workers
  /\ faults \in 0..MaxFaults

\* A READY record is never ahead of the data: its object was stored, and
\* upstream had published the hour, which was over.
RecordsAreStored ==
  \A c \in record : c \in stored /\ c \in upstream /\ 2 * c[2] + 2 <= now

\* Exit code 0 can be relied on (as `run all` does before it slices): every
\* cell the command had planned is recorded, whatever else ran or failed.
ZeroMeansRecorded ==
  \A m \in Mirrors : mirror[m].pc = "done" /\ mirror[m].code = 0 =>
    DOMAIN mirror[m].job \subseteq record

Pending(m, c) == \E step \in {"queued", "head", "get", "put"} : Running(m, c, step)

\* A command mirrors every hour it has planned that is published by the time
\* it asks for it, once nothing fails any more: whatever failed, died or got
\* lost before, however few its workers are, and whichever other command has
\* put the object or its record meanwhile (_mirror_one_hour).
PlannedGetsMirrored ==
  \A c \in Cells, n \in 0..MaxFaults :
    (\E m \in Mirrors : Pending(m, c)) /\ c \in upstream /\ faults = n
      ~> c \in record \cap object \/ faults # n

=============================================================================
