-------------------------------- MODULE Jobs --------------------------------
(***************************************************************************)
(* The jobs of one pipeline and the dates they work on: `run` (mirror,     *)
(* slice, all) in commands/run.py, `submit` in commands/submit.py, and the *)
(* slice schedule of infra/runtime.                                        *)
(*                                                                         *)
(* A job is asked for a window of dates, explicit or as offsets from       *)
(* today, which the process that does the work resolves when it gets       *)
(* there (WindowSpec in models.py).  A submitted job, whose state machine  *)
(* takes offsets only, carries explicit dates as offsets from the day of   *)
(* the submission, and begins when a container is up: maybe on the next    *)
(* day.  The same holds of a scheduled job.                                *)
(*                                                                         *)
(* Days are numbers.  raw are the days whose 24 hours are mirrored (module *)
(* RawMirror), shards those with a READY shard (module ShardBuild); what   *)
(* these modules look into is one step here.                               *)
(***************************************************************************)
EXTENDS Integers

CONSTANTS
  Slots,     \* jobs under way at once
  Requests,  \* what users ask for: [explicit, from, to]
  From, To,  \* offsets of the scheduled slice: -1, -1, or -45, -15
  Gaps,      \* days between two fires of the schedule: {1}, or 28..31
  MaxDay,    \* bound: the last day
  MaxAsks    \* bound: jobs that users ask for

\* The scheduled window is as long as the longest gap.
ASSUME WindowAssumption ==
  /\ From \in Int /\ To \in Int /\ From <= To
  /\ Gaps \subseteq 1..(To - From + 1)
\* validate_window: both ends, of one kind, in order.
Window(r) ==
  /\ r \in [explicit : BOOLEAN, from : Int, to : Int]
  /\ r.from <= r.to

ASSUME RequestsAssumption == \A r \in Requests : Window(r)
ASSUME BoundsAssumption == MaxDay \in Nat /\ MaxAsks \in Nat

VARIABLES
  today,
  raw,
  shards,
  job,        \* per slot: its job
  asks,       \* jobs that users have asked for
  nextFire,   \* day of the next fire of the schedule
  due,        \* days from the first scheduled window to the last (history)
  attempted,  \* days that a scheduled job has tried to slice (history)
  disturbed   \* a scheduled job began on a later day or died (history)

vars == <<today, raw, shards, job, asks, nextFire, due, attempted, disturbed>>

-----------------------------------------------------------------------------

\* iter_dates_inclusive
Dates(first, last) == first..last

\* WindowSpec.resolve_window and iter_dates
Resolve(r) ==
  IF r.explicit THEN Dates(r.from, r.to) ELSE Dates(today + r.from, today + r.to)

Relative(first, last) == [explicit |-> FALSE, from |-> first, to |-> last]

\* Mutant of AsOffsets: the difference is taken the wrong way round.
OffsetsBackwards(r) ==
  IF r.explicit THEN Relative(today - r.to, today - r.from) ELSE r

\* _build_payload
AsOffsets(r) == IF r.explicit THEN Relative(r.from - today, r.to - today) ELSE r

\* A new job: asked is what it was meant to work on, born the day it was
\* asked for, begun the day its dates were resolved.
New(by, stage, r, asked) ==
  [by |-> by, stage |-> stage, request |-> r, asked |-> asked, born |-> today,
   doing |-> "begin", begun |-> today, dates |-> {}, left |-> {}, code |-> 0]

Free(s) == job[s].doing = "done"

Set(s, j) == job' = [job EXCEPT ![s] = j]

\* A job that is over leaves its stage, its dates and its exit code.
Over(j, code) ==
  [by |-> j.by, stage |-> j.stage, request |-> Relative(0, 0), asked |-> {},
   born |-> 0, doing |-> "done", begun |-> 0, dates |-> j.dates, left |-> {},
   code |-> code]

-----------------------------------------------------------------------------

Init ==
  /\ today = 0
  /\ raw = {}
  /\ shards = {}
  /\ job = [s \in Slots |-> Over(New("user", "mirror", Relative(0, 0), {}), 1)]
  /\ asks = 0
  /\ nextFire = 0
  /\ due = {}
  /\ attempted = {}
  /\ disturbed = FALSE

\* The schedule fires on its day.
Midnight ==
  /\ today < MaxDay
  /\ today < nextFire
  /\ today' = today + 1
  /\ UNCHANGED <<raw, shards, job, asks, nextFire, due, attempted, disturbed>>

\* Mutant of Fire: a window of one day less, of 30 days a month.
FireShort(s, gap) ==
  /\ today = nextFire
  /\ Free(s)
  /\ Set(s, New("schedule", "slice", Relative(From + 1, To),
                Dates(today + From + 1, today + To)))
  /\ nextFire' = today + gap
  /\ due' = Dates(From, today + To)
  /\ UNCHANGED <<today, raw, shards, asks, attempted, disturbed>>

Fire(s, gap) ==
  /\ today = nextFire
  /\ Free(s)
  /\ Set(s, New("schedule", "slice", Relative(From, To), Dates(today + From, today + To)))
  /\ nextFire' = today + gap
  /\ due' = Dates(From, today + To)
  /\ UNCHANGED <<today, raw, shards, asks, attempted, disturbed>>

\* `run` on a laptop.
RunLocally(s, stage, r) ==
  /\ asks < MaxAsks
  /\ asks' = asks + 1
  /\ Free(s)
  /\ Set(s, New("user", stage, r, Resolve(r)))
  /\ UNCHANGED <<today, raw, shards, nextFire, due, attempted, disturbed>>

\* `submit` has no stage "all".
Submit(s, stage, r) ==
  /\ asks < MaxAsks
  /\ asks' = asks + 1
  /\ Free(s)
  /\ stage # "all"
  /\ Set(s, New("user", stage, AsOffsets(r), Resolve(r)))
  /\ UNCHANGED <<today, raw, shards, nextFire, due, attempted, disturbed>>

\* The job resolves its window.
Begin(s) ==
  /\ job[s].doing = "begin"
  /\ Set(s, [job[s] EXCEPT
       !.doing = IF job[s].stage = "slice" THEN "slice" ELSE "mirror",
       !.begun = today, !.dates = Resolve(job[s].request), !.left = Resolve(job[s].request)])
  /\ disturbed' = (disturbed \/ (job[s].by = "schedule" /\ today # job[s].born))
  /\ UNCHANGED <<today, raw, shards, asks, nextFire, due, attempted>>

\* A day of the window is mirrored, as a whole or not.  Some hours of a day
\* that is not over are not planned: such a day does not count as failed, and
\* is not complete.
MirrorDay(s, d, ok) ==
  /\ job[s].doing = "mirror"
  /\ d \in job[s].left
  /\ Set(s, [job[s] EXCEPT !.left = @ \ {d}, !.code = IF ok THEN @ ELSE 2])
  /\ raw' = IF ok /\ d < job[s].begun THEN raw \cup {d} ELSE raw
  /\ UNCHANGED <<today, shards, asks, nextFire, due, attempted, disturbed>>

\* Mutant of MirrorDone: the mirror's exit code is not looked at.
MirrorDoneUnasked(s) ==
  /\ job[s].doing = "mirror"
  /\ job[s].left = {}
  /\ IF job[s].stage = "all"
       THEN Set(s, [job[s] EXCEPT !.doing = "slice", !.dates = Resolve(job[s].request),
                                  !.left = Resolve(job[s].request)])
       ELSE Set(s, Over(job[s], job[s].code))
  /\ UNCHANGED <<today, raw, shards, asks, nextFire, due, attempted, disturbed>>

\* `all` slices after a mirror without failures; it resolves the window anew.
MirrorDone(s) ==
  /\ job[s].doing = "mirror"
  /\ job[s].left = {}
  /\ IF job[s].stage = "all" /\ job[s].code = 0
       THEN Set(s, [job[s] EXCEPT !.doing = "slice", !.dates = Resolve(job[s].request),
                                  !.left = Resolve(job[s].request)])
       ELSE Set(s, Over(job[s], job[s].code))
  /\ UNCHANGED <<today, raw, shards, asks, nextFire, due, attempted, disturbed>>

\* Mutant of SliceDay: a date that failed is forgotten.
SliceDayForgetting(s, d, ok) ==
  /\ job[s].doing = "slice"
  /\ d \in job[s].left
  /\ \A e \in job[s].left : d <= e
  /\ Set(s, [job[s] EXCEPT !.left = @ \ {d}])
  /\ shards' = IF ok /\ d \in raw THEN shards \cup {d} ELSE shards
  /\ attempted' = IF job[s].by = "schedule" THEN attempted \cup {d} ELSE attempted
  /\ UNCHANGED <<today, raw, asks, nextFire, due, disturbed>>

\* Mutant of SliceDay: missing raw hours go unnoticed.
SliceDayBlind(s, d, ok) ==
  /\ job[s].doing = "slice"
  /\ d \in job[s].left
  /\ \A e \in job[s].left : d <= e
  /\ Set(s, [job[s] EXCEPT !.left = @ \ {d}, !.code = IF ok THEN @ ELSE 2])
  /\ shards' = IF ok THEN shards \cup {d} ELSE shards
  /\ attempted' = IF job[s].by = "schedule" THEN attempted \cup {d} ELSE attempted
  /\ UNCHANGED <<today, raw, asks, nextFire, due, disturbed>>

\* The next date is sliced; a failure (raw hours missing among them) does not
\* stop the others.
SliceDay(s, d, ok) ==
  /\ job[s].doing = "slice"
  /\ d \in job[s].left
  /\ \A e \in job[s].left : d <= e
  /\ Set(s, [job[s] EXCEPT !.left = @ \ {d},
                           !.code = IF ok /\ d \in raw THEN @ ELSE 2])
  /\ shards' = IF ok /\ d \in raw THEN shards \cup {d} ELSE shards
  /\ attempted' = IF job[s].by = "schedule" THEN attempted \cup {d} ELSE attempted
  /\ UNCHANGED <<today, raw, asks, nextFire, due, disturbed>>

SliceDone(s) ==
  /\ job[s].doing = "slice"
  /\ job[s].left = {}
  /\ Set(s, Over(job[s], job[s].code))
  /\ UNCHANGED <<today, raw, shards, asks, nextFire, due, attempted, disturbed>>

\* The process or its container dies; the state machines do not retry.
Die(s) ==
  /\ ~Free(s)
  /\ Set(s, Over(job[s], 1))
  /\ disturbed' = (disturbed \/ job[s].by = "schedule")
  /\ UNCHANGED <<today, raw, shards, asks, nextFire, due, attempted>>

Stages == {"mirror", "slice", "all"}

Next ==
  \/ Midnight
  \/ \E s \in Slots, gap \in Gaps : Fire(s, gap)
  \/ \E s \in Slots, stage \in Stages, r \in Requests :
       RunLocally(s, stage, r) \/ Submit(s, stage, r)
  \/ \E s \in Slots : Begin(s) \/ MirrorDone(s) \/ SliceDone(s) \/ Die(s)
  \/ \E s \in Slots : \E d \in job[s].left, ok \in BOOLEAN :
       MirrorDay(s, d, ok) \/ SliceDay(s, d, ok)

Spec == Init /\ [][Next]_vars

-----------------------------------------------------------------------------
(* Properties.                                                             *)

JobType ==
  [by : {"user", "schedule"}, stage : Stages,
   request : [explicit : BOOLEAN, from : Int, to : Int],
   asked : SUBSET Int, born : 0..MaxDay,
   doing : {"begin", "mirror", "slice", "done"}, begun : 0..MaxDay,
   dates : SUBSET Int, left : SUBSET Int, code : {0, 1, 2}]

TypeOK ==
  /\ today \in 0..MaxDay
  /\ raw \subseteq Int
  /\ shards \subseteq raw
  /\ job \in [Slots -> JobType]
  /\ \A s \in Slots : job[s].left \subseteq job[s].dates
  /\ asks \in 0..MaxAsks
  /\ nextFire \in Nat
  /\ due \subseteq Int
  /\ attempted \subseteq Int
  /\ disturbed \in BOOLEAN

\* Exit code 0 of a job that slices: all its dates have a shard.
ZeroMeansSliced ==
  \A s \in Slots :
    job[s].doing = "done" /\ job[s].code = 0 /\ job[s].stage # "mirror" =>
      job[s].dates \subseteq shards

\* A job that begins on the day it was asked for, and any job with explicit
\* dates that reach the process, works on the dates that were meant: a
\* submission's way through offsets loses nothing.  (`all` resolves offsets
\* twice: over midnight its slice works on other days than its mirror.)
DatesAsAsked ==
  \A s \in Slots :
    /\ \/ job[s].doing = "mirror"
       \/ job[s].doing = "slice" /\ (job[s].stage = "all" => job[s].request.explicit)
    /\ job[s].request.explicit \/ job[s].begun = job[s].born
    => job[s].dates = job[s].asked

\* `all` never meets a day it has not mirrored itself, unless the day was not
\* over then: the two stages of explicit dates fit together.
AllSlicesMirrored ==
  \A s \in Slots :
    job[s].stage = "all" /\ job[s].doing = "slice" /\ job[s].request.explicit =>
      \A d \in job[s].left : d \in raw \/ d >= job[s].begun

\* The scheduled windows leave no day out, whatever the lengths of the months,
\* as long as every scheduled job begins on its day and survives.
NoDayMissed ==
  (/\ ~disturbed
   /\ \A s \in Slots : job[s].by = "schedule" => job[s].doing = "done")
     => due \subseteq attempted

=============================================================================
