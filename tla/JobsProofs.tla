----------------------------- MODULE JobsProofs -----------------------------
(***************************************************************************)
(* Theorems about Jobs, for any number of jobs, any requests, and any      *)
(* scheduled window at least as long as the gaps between its fires.        *)
(***************************************************************************)
EXTENDS Jobs, TLAPS

\* Setting one job to a well-typed one keeps the jobs well-typed.
LEMMA SetType ==
  ASSUME NEW s \in Slots, NEW j \in JobType, j.left \subseteq j.dates,
         job \in [Slots -> JobType], \A t \in Slots : job[t].left \subseteq job[t].dates,
         Set(s, j)
  PROVE  /\ job' \in [Slots -> JobType]
         /\ \A t \in Slots : (job[t].left \subseteq job[t].dates)'
BY DEF Set

\* Resolving a request, whole or through offsets, gives dates.
LEMMA ResolveType ==
  ASSUME NEW r \in [explicit : BOOLEAN, from : Int, to : Int], today \in 0..MaxDay
  PROVE  /\ Resolve(r) \subseteq Int
         /\ AsOffsets(r) \in [explicit : BOOLEAN, from : Int, to : Int]
BY BoundsAssumption DEF Resolve, AsOffsets, Dates, Relative

LEMMA NewType ==
  ASSUME NEW by \in {"user", "schedule"}, NEW stage \in Stages,
         NEW r \in [explicit : BOOLEAN, from : Int, to : Int],
         NEW asked \in SUBSET Int, today \in 0..MaxDay
  PROVE  /\ New(by, stage, r, asked) \in JobType
         /\ New(by, stage, r, asked).left \subseteq New(by, stage, r, asked).dates
BY DEF New, JobType, Stages

LEMMA OverType ==
  ASSUME NEW j \in JobType, NEW code \in {0, 1, 2}
  PROVE  /\ Over(j, code) \in JobType
         /\ Over(j, code).left \subseteq Over(j, code).dates
BY BoundsAssumption DEF Over, JobType, Relative

\* Jobs, dates and the schedule's history keep their types; a shard's raw day
\* is mirrored.
THEOREM TypeCorrect == Spec => []TypeOK
<1>1. Init => TypeOK
  <2> SUFFICES ASSUME Init PROVE TypeOK
    OBVIOUS
  <2>0. /\ Relative(0, 0) \in [explicit : BOOLEAN, from : Int, to : Int]
        /\ today \in 0..MaxDay /\ "mirror" \in Stages
    BY BoundsAssumption DEF Init, Stages, Relative
  <2>1. New("user", "mirror", Relative(0, 0), {}) \in JobType
    BY <2>0, NewType
  <2>2. Over(New("user", "mirror", Relative(0, 0), {}), 1) \in JobType
        /\ Over(New("user", "mirror", Relative(0, 0), {}), 1).left
             \subseteq Over(New("user", "mirror", Relative(0, 0), {}), 1).dates
    BY <2>1, OverType
  <2> HIDE DEF Over, New, Relative, JobType
  <2>3. job \in [Slots -> JobType] /\ \A s \in Slots : job[s].left \subseteq job[s].dates
    BY <2>2 DEF Init
  <2>4. today \in 0..MaxDay /\ asks \in 0..MaxAsks /\ nextFire \in Nat
    BY BoundsAssumption DEF Init
  <2>5. raw \subseteq Int /\ shards \subseteq raw /\ due \subseteq Int
        /\ attempted \subseteq Int /\ disturbed \in BOOLEAN
    BY DEF Init
  <2> QED
    BY <2>3, <2>4, <2>5 DEF TypeOK
<1>2. TypeOK /\ [Next]_vars => TypeOK'
  <2> SUFFICES ASSUME TypeOK, [Next]_vars PROVE TypeOK'
    OBVIOUS
  <2> USE BoundsAssumption
  <2>1. ASSUME Midnight PROVE TypeOK'
    BY <2>1 DEF Midnight, TypeOK
  <2>2. ASSUME NEW s \in Slots, NEW gap \in Gaps, Fire(s, gap) PROVE TypeOK'
    <3> DEFINE j == New("schedule", "slice", Relative(From, To), Dates(today + From, today + To))
    <3>0. /\ Relative(From, To) \in [explicit : BOOLEAN, from : Int, to : Int]
          /\ Dates(today + From, today + To) \in SUBSET Int
          /\ today \in 0..MaxDay /\ "slice" \in Stages
      BY WindowAssumption DEF TypeOK, Stages, Relative, Dates
    <3>1. j \in JobType /\ j.left \subseteq j.dates
      BY <3>0, NewType
    <3>2. Set(s, j)
      BY <2>2 DEF Fire
    <3> HIDE DEF j
    <3>3. /\ job' \in [Slots -> JobType]
          /\ \A t \in Slots : (job[t].left \subseteq job[t].dates)'
      BY <3>1, <3>2, SetType DEF TypeOK
    <3> QED
      BY <2>2, <3>3, WindowAssumption DEF Fire, TypeOK, Dates
  <2>3. ASSUME NEW s \in Slots, NEW stage \in Stages, NEW r \in Requests,
               RunLocally(s, stage, r) \/ Submit(s, stage, r)
        PROVE  TypeOK'
    <3>1. r \in [explicit : BOOLEAN, from : Int, to : Int]
      BY RequestsAssumption DEF Window
    <3>2. \A q \in {r, AsOffsets(r)} :
            /\ New("user", stage, q, Resolve(r)) \in JobType
            /\ New("user", stage, q, Resolve(r)).left
                 \subseteq New("user", stage, q, Resolve(r)).dates
      BY <3>1, ResolveType, NewType DEF TypeOK
    <3>3. /\ job' \in [Slots -> JobType]
          /\ \A t \in Slots : (job[t].left \subseteq job[t].dates)'
      BY <2>3, <3>2, SetType DEF RunLocally, Submit, TypeOK
    <3>4. asks' \in 0..MaxAsks
      BY <2>3 DEF RunLocally, Submit, TypeOK
    <3>5. UNCHANGED <<today, raw, shards, nextFire, due, attempted, disturbed>>
      BY <2>3 DEF RunLocally, Submit
    <3> QED
      BY <3>3, <3>4, <3>5 DEF TypeOK
  <2>4. ASSUME NEW s \in Slots, Begin(s) PROVE TypeOK'
    <3> DEFINE j == [job[s] EXCEPT
                       !.doing = IF job[s].stage = "slice" THEN "slice" ELSE "mirror",
                       !.begun = today, !.dates = Resolve(job[s].request),
                       !.left = Resolve(job[s].request)]
    <3>1. job[s] \in JobType /\ Resolve(job[s].request) \subseteq Int
      BY ResolveType DEF TypeOK, JobType
    <3>2. j \in JobType /\ j.left \subseteq j.dates
      BY <3>1 DEF JobType, TypeOK
    <3>3. Set(s, j)
      BY <2>4 DEF Begin
    <3> HIDE DEF j
    <3> QED
      BY <2>4, <3>2, <3>3, SetType DEF Begin, TypeOK
  <2>5. ASSUME NEW s \in Slots, MirrorDone(s) \/ SliceDone(s) \/ Die(s) PROVE TypeOK'
    <3> DEFINE j == [job[s] EXCEPT !.doing = "slice", !.dates = Resolve(job[s].request),
                                   !.left = Resolve(job[s].request)]
    <3>1. job[s] \in JobType /\ Resolve(job[s].request) \subseteq Int
      BY ResolveType DEF TypeOK, JobType
    <3>2. j \in JobType /\ j.left \subseteq j.dates
      BY <3>1 DEF JobType
    <3>3. \A code \in {job[s].code, 1} :
            /\ Over(job[s], code) \in JobType
            /\ Over(job[s], code).left \subseteq Over(job[s], code).dates
      BY <3>1, OverType DEF JobType
    <3>4. Set(s, j) \/ \E code \in {job[s].code, 1} : Set(s, Over(job[s], code))
      BY <2>5 DEF MirrorDone, SliceDone, Die
    <3> HIDE DEF j
    <3>5. /\ job' \in [Slots -> JobType]
          /\ \A t \in Slots : (job[t].left \subseteq job[t].dates)'
      BY <3>2, <3>3, <3>4, SetType DEF TypeOK
    <3> QED
      BY <2>5, <3>5 DEF MirrorDone, SliceDone, Die, TypeOK
  <2>6. ASSUME NEW s \in Slots, NEW d \in job[s].left, NEW ok \in BOOLEAN,
               MirrorDay(s, d, ok) \/ SliceDay(s, d, ok)
        PROVE  TypeOK'
    <3>1. job[s] \in JobType /\ d \in Int /\ job[s].left \subseteq job[s].dates
      BY DEF TypeOK, JobType
    <3>2. \E code \in {job[s].code, 2} :
            Set(s, [job[s] EXCEPT !.left = job[s].left \ {d}, !.code = code])
      BY <2>6 DEF MirrorDay, SliceDay
    <3>3. ASSUME NEW code \in {job[s].code, 2}
          PROVE  LET j == [job[s] EXCEPT !.left = job[s].left \ {d}, !.code = code]
                 IN  j \in JobType /\ j.left \subseteq j.dates
      BY <3>1 DEF JobType
    <3>4. /\ job' \in [Slots -> JobType]
          /\ \A t \in Slots : (job[t].left \subseteq job[t].dates)'
      BY <3>2, <3>3, SetType DEF TypeOK
    <3> QED
      BY <2>6, <3>1, <3>4 DEF MirrorDay, SliceDay, TypeOK
  <2>7. CASE UNCHANGED vars
    BY <2>7 DEF vars, TypeOK
  <2> QED
    BY <2>1, <2>2, <2>3, <2>4, <2>5, <2>6, <2>7 DEF Next
<1> QED
  BY <1>1, <1>2, PTL DEF Spec

-----------------------------------------------------------------------------
(* Exit codes.                                                             *)

\* While a job slices with exit code 0 so far, the days it is done with have
\* a shard.
SlicedSoFar ==
  \A s \in Slots :
    job[s].doing = "slice" /\ job[s].code = 0 =>
      job[s].dates \ job[s].left \subseteq shards

\* A job that is over, and every other job.
LEMMA OverFacts ==
  ASSUME TypeOK, NEW s \in Slots, NEW code \in {0, 1, 2}, Set(s, Over(job[s], code))
  PROVE  /\ \A t \in Slots \ {s} : job'[t] = job[t]
         /\ job'[s].doing = "done" /\ job'[s].code = code /\ job'[s].dates = job[s].dates
         /\ job'[s].by = job[s].by /\ job'[s].stage = job[s].stage
<1>1. job' = [job EXCEPT ![s] = Over(job[s], code)] /\ job \in [Slots -> JobType]
  BY DEF Set, TypeOK
<1>2. job'[s] = Over(job[s], code) /\ \A t \in Slots \ {s} : job'[t] = job[t]
  BY <1>1
<1> QED
  BY <1>2 DEF Over

\* What the end of a mirror leaves.
LEMMA MirrorDoneFacts ==
  ASSUME TypeOK, NEW s \in Slots, MirrorDone(s)
  PROVE  /\ \A t \in Slots \ {s} : job'[t] = job[t]
         /\ job[s].doing = "mirror" /\ job'[s].by = job[s].by /\ job'[s].stage = job[s].stage
         /\ \/ job'[s].doing = "slice" /\ job'[s].dates = job'[s].left
            \/ job'[s].doing = "done" /\ ~(job'[s].stage = "all" /\ job'[s].code = 0)
         /\ UNCHANGED <<today, raw, shards, asks, nextFire, due, attempted, disturbed>>
<1>0. job[s].code \in {0, 1, 2}
  BY DEF TypeOK, JobType
<1>1. CASE job[s].stage = "all" /\ job[s].code = 0
  <2>1. job' = [job EXCEPT ![s] = [job[s] EXCEPT !.doing = "slice",
                   !.dates = Resolve(job[s].request), !.left = Resolve(job[s].request)]]
    BY <1>1 DEF MirrorDone, Set
  <2> QED
    BY <2>1 DEF MirrorDone, TypeOK, JobType
<1>2. CASE ~(job[s].stage = "all" /\ job[s].code = 0)
  <2>1. Set(s, Over(job[s], job[s].code))
    BY <1>2 DEF MirrorDone
  <2> QED
    BY <1>0, <1>2, <2>1, OverFacts DEF MirrorDone
<1> QED
  BY <1>1, <1>2

\* A job that ends by itself or dies.
LEMMA EndFacts ==
  ASSUME TypeOK, NEW s \in Slots, SliceDone(s) \/ Die(s)
  PROVE  /\ \A t \in Slots \ {s} : job'[t] = job[t]
         /\ job'[s].doing = "done" /\ job'[s].dates = job[s].dates
         /\ \/ /\ job[s].doing = "slice" /\ job[s].left = {}
               /\ job'[s].code = job[s].code /\ UNCHANGED disturbed
            \/ job'[s].code = 1 /\ disturbed' = (disturbed \/ job[s].by = "schedule")
         /\ UNCHANGED <<today, raw, shards, asks, nextFire, due, attempted>>
<1>0. job[s].code \in {0, 1, 2}
  BY DEF TypeOK, JobType
<1>1. CASE SliceDone(s)
  BY <1>0, <1>1, OverFacts DEF SliceDone
<1>2. CASE Die(s)
  BY <1>2, OverFacts DEF Die
<1> QED
  BY <1>1, <1>2

\* `slice` does not mirror.
SliceOnly == \A s \in Slots : job[s].doing = "mirror" => job[s].stage # "slice"

ExitInv == SlicedSoFar /\ SliceOnly /\ ZeroMeansSliced

LEMMA ExitInductive == TypeOK /\ ExitInv /\ [Next]_vars => ExitInv'
<1> SUFFICES ASSUME TypeOK, ExitInv, [Next]_vars PROVE ExitInv'
  OBVIOUS
<1> USE DEF ExitInv, SlicedSoFar, SliceOnly, ZeroMeansSliced
<1>1. ASSUME Midnight PROVE ExitInv'
  BY <1>1 DEF Midnight
<1>2. ASSUME NEW s \in Slots, NEW gap \in Gaps, Fire(s, gap) PROVE ExitInv'
  BY <1>2 DEF Fire, Set, New, TypeOK
<1>3. ASSUME NEW s \in Slots, NEW stage \in Stages, NEW r \in Requests,
             RunLocally(s, stage, r) \/ Submit(s, stage, r)
      PROVE  ExitInv'
  BY <1>3 DEF RunLocally, Submit, Set, New, TypeOK
<1>4. ASSUME NEW s \in Slots, Begin(s) PROVE ExitInv'
  BY <1>4 DEF Begin, Set, TypeOK, JobType
<1>5. ASSUME NEW s \in Slots, MirrorDone(s) PROVE ExitInv'
  BY <1>5, MirrorDoneFacts DEF TypeOK, JobType, Stages
<1>6. ASSUME NEW s \in Slots, SliceDone(s) \/ Die(s) PROVE ExitInv'
  BY <1>6, EndFacts
<1>7. ASSUME NEW s \in Slots, NEW d \in job[s].left, NEW ok \in BOOLEAN, MirrorDay(s, d, ok)
      PROVE  ExitInv'
  BY <1>7 DEF MirrorDay, Set, TypeOK, JobType
<1>8. ASSUME NEW s \in Slots, NEW d \in job[s].left, NEW ok \in BOOLEAN, SliceDay(s, d, ok)
      PROVE  ExitInv'
  BY <1>8 DEF SliceDay, Set, TypeOK, JobType
<1>9. CASE UNCHANGED vars
  BY <1>9 DEF vars
<1> QED
  BY <1>1, <1>2, <1>3, <1>4, <1>5, <1>6, <1>7, <1>8, <1>9 DEF Next

\* Exit code 0 of a job that slices means that all its dates have a shard,
\* whatever other jobs do meanwhile.
THEOREM ZeroIsSliced == Spec => []ZeroMeansSliced
<1>1. Init => ExitInv
  BY DEF Init, Over, New, ExitInv, SlicedSoFar, SliceOnly, ZeroMeansSliced
<1> QED
  BY <1>1, ExitInductive, TypeCorrect, PTL DEF Spec, ExitInv

-----------------------------------------------------------------------------
(* The scheduled windows.                                                  *)

\* The days a scheduled job at work has yet to slice.
Carries(s, d) ==
  /\ job[s].by = "schedule"
  /\ \/ job[s].doing = "begin" /\ d \in Dates(job[s].born + From, job[s].born + To)
     \/ job[s].doing = "slice" /\ d \in job[s].left

\* A scheduled job only slices, from the offsets of the schedule.
ScheduledSlices ==
  \A s \in Slots : job[s].by = "schedule" /\ job[s].doing # "done" =>
    /\ job[s].stage = "slice"
    /\ job[s].doing \in {"begin", "slice"}
    /\ job[s].doing = "begin" => job[s].request = Relative(From, To)

\* The windows so far reach up to the next one.
WindowsJoin ==
  \/ due = {} /\ nextFire = 0
  \/ \E last \in Int : due = Dates(From, last) /\ nextFire + From <= last + 1

\* What is due was tried or is still with a job.
DueCarried ==
  ~disturbed => \A d \in due : d \in attempted \/ \E s \in Slots : Carries(s, d)

WindowInv == ScheduledSlices /\ WindowsJoin /\ DueCarried

LEMMA FireWidens ==
  ASSUME TypeOK, WindowInv, NEW s \in Slots, NEW gap \in Gaps, Fire(s, gap)
  PROVE  WindowsJoin' /\ due' \subseteq due \cup Dates(today + From, today + To)
<1>1. today \in Int /\ From \in Int /\ To \in Int /\ gap \in Int /\ gap <= To - From + 1
  BY WindowAssumption, BoundsAssumption DEF TypeOK
<1>2. due' = Dates(From, today + To) /\ nextFire' = today + gap /\ today = nextFire
  BY DEF Fire
<1>3. WindowsJoin'
  <2>1. today + To \in Int /\ nextFire' + From <= (today + To) + 1
    BY <1>1, <1>2
  <2> QED
    BY <1>2, <2>1 DEF WindowsJoin, Dates
<1>4. due' \subseteq due \cup Dates(today + From, today + To)
  <2>1. CASE due = {} /\ nextFire = 0
    BY <1>1, <1>2, <2>1 DEF Dates
  <2>2. CASE \E last \in Int : due = Dates(From, last) /\ nextFire + From <= last + 1
    BY <1>1, <1>2, <2>2 DEF Dates
  <2> QED
    BY <2>1, <2>2 DEF WindowInv, WindowsJoin
<1> QED
  BY <1>3, <1>4

LEMMA WindowInductive == TypeOK /\ WindowInv /\ [Next]_vars => WindowInv'
<1> SUFFICES ASSUME TypeOK, WindowInv, [Next]_vars PROVE WindowInv'
  OBVIOUS
<1>1. ASSUME Midnight PROVE WindowInv'
  BY <1>1 DEF Midnight, WindowInv, ScheduledSlices, WindowsJoin, DueCarried, Carries
<1>2. ASSUME NEW s \in Slots, NEW gap \in Gaps, Fire(s, gap) PROVE WindowInv'
  <2>1. \A t \in Slots \ {s} : job'[t] = job[t]
    BY <1>2 DEF Fire, Set, TypeOK
  <2>2. /\ job'[s].by = "schedule" /\ job'[s].stage = "slice" /\ job'[s].doing = "begin"
        /\ job'[s].request = Relative(From, To) /\ job'[s].born = today
        /\ job[s].doing = "done"
    BY <1>2 DEF Fire, Set, New, Free, TypeOK
  <2>3. ScheduledSlices'
    BY <2>1, <2>2 DEF WindowInv, ScheduledSlices
  <2>4. DueCarried'
    <3> SUFFICES ASSUME ~disturbed, NEW d \in due'
                 PROVE  d \in attempted \/ \E t \in Slots : Carries(t, d)'
      BY <1>2 DEF DueCarried, Fire
    <3>1. CASE d \in Dates(today + From, today + To)
      BY <2>2, <3>1 DEF Carries
    <3>2. CASE d \in due
      BY <2>1, <2>2, <3>2 DEF WindowInv, DueCarried, Carries
    <3> QED
      BY <1>2, <3>1, <3>2, FireWidens
  <2> QED
    BY <1>2, <2>3, <2>4, FireWidens DEF WindowInv
<1>3. ASSUME NEW s \in Slots, NEW stage \in Stages, NEW r \in Requests,
             RunLocally(s, stage, r) \/ Submit(s, stage, r)
      PROVE  WindowInv'
  <2>1. /\ \A t \in Slots \ {s} : job'[t] = job[t]
        /\ job'[s].by = "user" /\ job[s].doing = "done"
        /\ UNCHANGED <<nextFire, due, attempted, disturbed>>
    BY <1>3 DEF RunLocally, Submit, Set, New, Free, TypeOK
  <2> QED
    BY <2>1 DEF WindowInv, ScheduledSlices, WindowsJoin, DueCarried, Carries
<1>4. ASSUME NEW s \in Slots, Begin(s) PROVE WindowInv'
  <2>1. /\ \A t \in Slots \ {s} : job'[t] = job[t]
        /\ job'[s].by = job[s].by /\ job'[s].stage = job[s].stage
        /\ job[s].doing = "begin"
        /\ job'[s].doing = IF job[s].stage = "slice" THEN "slice" ELSE "mirror"
        /\ job'[s].left = Resolve(job[s].request)
        /\ UNCHANGED <<nextFire, due, attempted>>
    BY <1>4 DEF Begin, Set, TypeOK, JobType
  <2>2. ScheduledSlices' /\ WindowsJoin'
    BY <2>1 DEF WindowInv, ScheduledSlices, WindowsJoin
  <2>3. ASSUME job[s].by = "schedule", ~disturbed'
        PROVE  job'[s].left = Dates(job[s].born + From, job[s].born + To) /\ job'[s].doing = "slice"
    <3>1. today = job[s].born /\ job[s].request = Relative(From, To) /\ job[s].stage = "slice"
      BY <1>4, <2>1, <2>3 DEF Begin, WindowInv, ScheduledSlices
    <3> QED
      BY <2>1, <3>1 DEF Resolve, Relative
  <2>4. DueCarried'
    <3> SUFFICES ASSUME ~disturbed', NEW d \in due, d \notin attempted
                 PROVE  \E t \in Slots : Carries(t, d)'
      BY <2>1 DEF DueCarried
    <3>1. PICK t \in Slots : Carries(t, d)
      BY <1>4 DEF Begin, WindowInv, DueCarried
    <3>2. CASE t = s
      BY <2>1, <2>3, <3>1, <3>2 DEF Carries
    <3>3. CASE t # s
      BY <2>1, <3>1, <3>3 DEF Carries
    <3> QED
      BY <3>2, <3>3
  <2> QED
    BY <2>2, <2>4 DEF WindowInv
<1>5. ASSUME NEW s \in Slots, MirrorDone(s) PROVE WindowInv'
  <2>1. /\ \A t \in Slots \ {s} : job'[t] = job[t]
        /\ job[s].by # "schedule" /\ job'[s].by = job[s].by
        /\ UNCHANGED <<nextFire, due, attempted, disturbed>>
    BY <1>5, MirrorDoneFacts DEF WindowInv, ScheduledSlices
  <2> QED
    BY <2>1 DEF WindowInv, ScheduledSlices, WindowsJoin, DueCarried, Carries
<1>6. ASSUME NEW s \in Slots, SliceDone(s) \/ Die(s) PROVE WindowInv'
  <2>1. /\ \A t \in Slots \ {s} : job'[t] = job[t]
        /\ job'[s].doing = "done"
        /\ disturbed' \/ job[s].by # "schedule" \/ (job[s].doing = "slice" /\ job[s].left = {})
        /\ disturbed => disturbed'
        /\ UNCHANGED <<nextFire, due, attempted>>
    BY <1>6, EndFacts DEF TypeOK
  <2> QED
    BY <2>1 DEF WindowInv, ScheduledSlices, WindowsJoin, DueCarried, Carries
<1>7. ASSUME NEW s \in Slots, NEW d \in job[s].left, NEW ok \in BOOLEAN, MirrorDay(s, d, ok)
      PROVE  WindowInv'
  <2>1. /\ \A t \in Slots \ {s} : job'[t] = job[t]
        /\ job[s].by # "schedule" /\ job'[s].by = job[s].by
        /\ UNCHANGED <<nextFire, due, attempted, disturbed>>
    BY <1>7 DEF MirrorDay, Set, TypeOK, JobType, WindowInv, ScheduledSlices
  <2> QED
    BY <2>1 DEF WindowInv, ScheduledSlices, WindowsJoin, DueCarried, Carries
<1>8. ASSUME NEW s \in Slots, NEW d \in job[s].left, NEW ok \in BOOLEAN, SliceDay(s, d, ok)
      PROVE  WindowInv'
  <2>1. /\ \A t \in Slots \ {s} : job'[t] = job[t]
        /\ job'[s].by = job[s].by /\ job'[s].stage = job[s].stage
        /\ job[s].doing = "slice" /\ job'[s].doing = "slice"
        /\ job'[s].left = job[s].left \ {d}
        /\ attempted \subseteq attempted'
        /\ job[s].by = "schedule" => d \in attempted'
        /\ UNCHANGED <<nextFire, due, disturbed>>
    BY <1>8 DEF SliceDay, Set, TypeOK, JobType
  <2> QED
    BY <2>1 DEF WindowInv, ScheduledSlices, WindowsJoin, DueCarried, Carries
<1>9. CASE UNCHANGED vars
  BY <1>9 DEF vars, WindowInv, ScheduledSlices, WindowsJoin, DueCarried, Carries
<1> QED
  BY <1>1, <1>2, <1>3, <1>4, <1>5, <1>6, <1>7, <1>8, <1>9 DEF Next

\* However long the months, if a scheduled window is as long as the longest
\* gap between two fires, every day since the first window is attempted, by
\* jobs that begin on their day and survive.
THEOREM ScheduleMissesNoDay == Spec => []NoDayMissed
<1>1. Init => WindowInv
  BY DEF Init, Over, New, WindowInv, ScheduledSlices, WindowsJoin, DueCarried
<1>2. WindowInv => NoDayMissed
  BY DEF WindowInv, DueCarried, Carries, NoDayMissed
<1> QED
  BY <1>1, <1>2, WindowInductive, TypeCorrect, PTL DEF Spec

-----------------------------------------------------------------------------
(* The dates a job works on.                                               *)

\* What a job's request means on the day the job was asked for.
Meant(j) ==
  IF j.request.explicit THEN Dates(j.request.from, j.request.to)
  ELSE Dates(j.born + j.request.from, j.born + j.request.to)

\* A job's request means what the user asked for; explicit dates, and those
\* of a job that began on its day, are the ones resolved.
DatesKept(j) ==
  j.doing # "done" =>
    /\ j.asked = Meant(j)
    /\ j.doing # "begin" /\ j.request.explicit => j.dates = Meant(j)
    /\ j.doing = "mirror" \/ (j.doing = "slice" /\ j.stage # "all") =>
         (j.begun = j.born => j.dates = Meant(j))

\* A mirror without failures has the days it is done with, if they are over.
MirroredSoFar(j) ==
  j.doing = "mirror" /\ j.code = 0 => \A d \in j.dates \ j.left : d \in raw \/ d >= j.begun

\* ... which are what a slice of explicit dates meets after it.
MeetsMirrored(j) ==
  j.stage = "all" /\ j.doing = "slice" /\ j.request.explicit =>
    \A d \in j.left : d \in raw \/ d >= j.begun

JobInv(j) == DatesKept(j) /\ MirroredSoFar(j) /\ MeetsMirrored(j)

DatesInv == \A s \in Slots : JobInv(job[s])

\* If one job changes, to one with the invariant, and the mirror grows, the
\* invariant is kept.
LEMMA SetKeepsDates ==
  ASSUME DatesInv, job \in [Slots -> JobType], NEW s \in Slots, NEW j, Set(s, j),
         raw \subseteq raw', DatesKept(j),
         j.doing = "mirror" /\ j.code = 0 => \A d \in j.dates \ j.left : d \in raw' \/ d >= j.begun,
         j.stage = "all" /\ j.doing = "slice" /\ j.request.explicit =>
           \A d \in j.left : d \in raw' \/ d >= j.begun
  PROVE  DatesInv'
<1>1. job'[s] = j /\ \A t \in Slots \ {s} : job'[t] = job[t]
  BY DEF Set
<1>2. ASSUME NEW t \in Slots PROVE JobInv(job[t])'
  <2>1. CASE t = s
    BY <2>1, <1>1 DEF JobInv, DatesKept, Meant, MirroredSoFar, MeetsMirrored
  <2>2. CASE t # s
    <3>1. job'[t] = job[t]
      BY <2>2, <1>1
    <3>2. JobInv(job[t])
      BY DEF DatesInv
    <3> QED
      BY <3>1, <3>2 DEF JobInv, DatesKept, Meant, MirroredSoFar, MeetsMirrored
  <2> QED
    BY <2>1, <2>2
<1> QED
  BY <1>2 DEF DatesInv

\* Offsets from today resolve to the dates they were made of.
LEMMA OffsetsMeanDates ==
  ASSUME NEW r \in [explicit : BOOLEAN, from : Int, to : Int], today \in Int,
         NEW by, NEW stage
  PROVE  /\ Meant(New(by, stage, r, Resolve(r))) = Resolve(r)
         /\ Meant(New(by, stage, AsOffsets(r), Resolve(r))) = Resolve(r)
<1>1. Meant(New(by, stage, r, Resolve(r))) = Resolve(r)
  BY DEF Meant, New, Resolve
<1>2. CASE r.explicit
  <2>1. AsOffsets(r) = Relative(r.from - today, r.to - today)
    BY <1>2 DEF AsOffsets
  <2>2. Meant(New(by, stage, AsOffsets(r), Resolve(r))) =
          Dates(today + (r.from - today), today + (r.to - today))
    BY <2>1 DEF Meant, New, Relative
  <2>3. today + (r.from - today) = r.from /\ today + (r.to - today) = r.to
    OBVIOUS
  <2> QED
    BY <1>1, <1>2, <2>2, <2>3 DEF Resolve
<1>3. CASE ~r.explicit
  <2>1. AsOffsets(r) = r
    BY <1>3 DEF AsOffsets
  <2> QED
    BY <1>1, <2>1
<1> QED
  BY <1>1, <1>2, <1>3

LEMMA DatesInductive == TypeOK /\ DatesInv /\ [Next]_vars => DatesInv'
<1> SUFFICES ASSUME TypeOK, DatesInv, [Next]_vars PROVE DatesInv'
  OBVIOUS
<1>0. job \in [Slots -> JobType] /\ today \in Int
  BY BoundsAssumption DEF TypeOK
<1>1. ASSUME Midnight \/ UNCHANGED vars PROVE DatesInv'
  <2>1. UNCHANGED <<job, raw>>
    BY <1>1 DEF Midnight, vars
  <2> QED
    BY <2>1 DEF DatesInv, JobInv, DatesKept, Meant, MirroredSoFar, MeetsMirrored
<1>2. ASSUME NEW s \in Slots, NEW gap \in Gaps, Fire(s, gap) PROVE DatesInv'
  <2> DEFINE j == New("schedule", "slice", Relative(From, To), Dates(today + From, today + To))
  <2>1. Set(s, j) /\ raw' = raw
    BY <1>2 DEF Fire
  <2>2. j.doing = "begin" /\ j.asked = Meant(j)
    BY DEF New, Meant, Relative
  <2> HIDE DEF j
  <2> QED
    BY <2>1, <2>2, <1>0, SetKeepsDates DEF DatesKept
<1>3. ASSUME NEW s \in Slots, NEW stage \in Stages, NEW r \in Requests,
             RunLocally(s, stage, r) \/ Submit(s, stage, r)
      PROVE  DatesInv'
  <2>1. PICK q \in {r, AsOffsets(r)} : Set(s, New("user", stage, q, Resolve(r)))
    BY <1>3 DEF RunLocally, Submit
  <2> DEFINE j == New("user", stage, q, Resolve(r))
  <2>2. j.doing = "begin" /\ j.asked = Resolve(r)
    BY DEF New
  <2>3. Meant(j) = Resolve(r)
    BY <2>1, <1>0, OffsetsMeanDates, RequestsAssumption DEF Window
  <2>4. raw' = raw
    BY <1>3 DEF RunLocally, Submit
  <2> HIDE DEF j
  <2>5. Set(s, j)
    BY <2>1 DEF j
  <2> QED
    BY <2>2, <2>3, <2>4, <2>5, <1>0, SetKeepsDates DEF DatesKept
<1>4. ASSUME NEW s \in Slots, Begin(s) PROVE DatesInv'
  <2> DEFINE dates == Resolve(job[s].request)
             j == [job[s] EXCEPT
                     !.doing = IF job[s].stage = "slice" THEN "slice" ELSE "mirror",
                     !.begun = today, !.dates = dates, !.left = dates]
  <2>1. Set(s, j) /\ raw' = raw /\ job[s].doing = "begin"
    BY <1>4 DEF Begin
  <2>2. job[s] \in JobType /\ DatesKept(job[s])
    BY <1>0 DEF DatesInv, JobInv
  <2>3. job[s].request.explicit \/ today = job[s].born => dates = Meant(job[s])
    BY DEF Resolve, Meant
  <2> HIDE DEF dates
  <2>4. /\ j.doing \in {"slice", "mirror"} /\ (j.doing = "slice" => j.stage = "slice")
        /\ j.begun = today /\ j.dates = dates /\ j.left = dates
        /\ j.asked = job[s].asked /\ j.request = job[s].request /\ j.born = job[s].born
    BY <2>2 DEF JobType
  <2>5. Meant(j) = Meant(job[s])
    BY <2>4 DEF Meant
  <2> HIDE DEF j
  <2>6. DatesKept(j)
    BY <2>1, <2>2, <2>3, <2>4, <2>5 DEF DatesKept
  <2> QED
    BY <2>1, <2>4, <2>6, <1>0, SetKeepsDates
<1>5. ASSUME NEW s \in Slots, MirrorDone(s) PROVE DatesInv'
  <2>0. job[s] \in JobType /\ JobInv(job[s]) /\ raw' = raw /\ job[s].doing = "mirror"
        /\ job[s].left = {}
    BY <1>0, <1>5 DEF DatesInv, MirrorDone
  <2>1. CASE job[s].stage = "all" /\ job[s].code = 0
    <3> DEFINE dates == Resolve(job[s].request)
               j == [job[s] EXCEPT !.doing = "slice", !.dates = dates, !.left = dates]
    <3>1. Set(s, j)
      BY <2>1, <1>5 DEF MirrorDone
    <3>2. job[s].request.explicit => dates = Meant(job[s])
      BY DEF Resolve, Meant
    <3> HIDE DEF dates
    <3>3. /\ j.doing = "slice" /\ j.stage = "all" /\ j.begun = job[s].begun
          /\ j.dates = dates /\ j.left = dates
          /\ j.asked = job[s].asked /\ j.request = job[s].request /\ j.born = job[s].born
      BY <2>0, <2>1 DEF JobType
    <3>4. Meant(j) = Meant(job[s])
      BY <3>3 DEF Meant
    <3> HIDE DEF j
    <3>5. DatesKept(j)
      BY <2>0, <3>2, <3>3, <3>4 DEF JobInv, DatesKept
    <3>6. j.request.explicit => \A d \in j.left : d \in raw' \/ d >= j.begun
      BY <2>0, <2>1, <3>2, <3>3 DEF JobInv, DatesKept, MirroredSoFar
    <3> QED
      BY <2>0, <3>1, <3>3, <3>5, <3>6, <1>0, SetKeepsDates
  <2>2. CASE ~(job[s].stage = "all" /\ job[s].code = 0)
    <3>1. Set(s, Over(job[s], job[s].code))
      BY <2>2, <1>5 DEF MirrorDone
    <3>2. Over(job[s], job[s].code).doing = "done"
      BY DEF Over
    <3> QED
      BY <2>0, <3>1, <3>2, <1>0, SetKeepsDates DEF DatesKept
  <2> QED
    BY <2>1, <2>2
<1>6. ASSUME NEW s \in Slots, SliceDone(s) \/ Die(s) PROVE DatesInv'
  <2>1. PICK code \in {job[s].code, 1} : Set(s, Over(job[s], code))
    BY <1>6 DEF SliceDone, Die
  <2>2. raw' = raw
    BY <1>6 DEF SliceDone, Die
  <2>3. Over(job[s], code).doing = "done"
    BY DEF Over
  <2> QED
    BY <2>1, <2>2, <2>3, <1>0, SetKeepsDates DEF DatesKept
<1>7. ASSUME NEW s \in Slots, NEW d \in job[s].left, NEW ok \in BOOLEAN,
             MirrorDay(s, d, ok) \/ SliceDay(s, d, ok)
      PROVE  DatesInv'
  <2>1. PICK code \in {job[s].code, 2} :
          /\ Set(s, [job[s] EXCEPT !.left = job[s].left \ {d}, !.code = code])
          /\ job[s].doing = "mirror" /\ code = 0 => ok
    <3>1. CASE MirrorDay(s, d, ok)
      <4>1. PICK code \in {job[s].code, 2} : code = IF ok THEN job[s].code ELSE 2
        OBVIOUS
      <4>2. Set(s, [job[s] EXCEPT !.left = job[s].left \ {d}, !.code = code])
        BY <3>1, <4>1 DEF MirrorDay
      <4>3. code = 0 => ok
        BY <4>1
      <4> QED
        BY <4>2, <4>3
    <3>2. CASE SliceDay(s, d, ok)
      BY <3>2 DEF SliceDay
    <3> QED
      BY <3>1, <3>2, <1>7
  <2> DEFINE j == [job[s] EXCEPT !.left = job[s].left \ {d}, !.code = code]
  <2>2. job[s] \in JobType /\ JobInv(job[s]) /\ raw \subseteq raw'
    BY <1>0, <1>7 DEF DatesInv, MirrorDay, SliceDay
  <2>3. /\ j.left = job[s].left \ {d} /\ j.code = code /\ j.dates = job[s].dates
        /\ j.doing = job[s].doing /\ j.stage = job[s].stage /\ j.begun = job[s].begun
        /\ j.asked = job[s].asked /\ j.request = job[s].request /\ j.born = job[s].born
    BY <2>2 DEF JobType
  <2>4. Meant(j) = Meant(job[s])
    BY <2>3 DEF Meant
  <2> HIDE DEF j
  <2>5. DatesKept(j)
    BY <2>2, <2>3, <2>4 DEF JobInv, DatesKept
  <2>6. ASSUME j.doing = "mirror", j.code = 0, NEW e \in j.dates \ j.left
        PROVE  e \in raw' \/ e >= j.begun
    <3>1. MirrorDay(s, d, ok) /\ ok /\ job[s].code = 0
      <4>1. job[s].doing = "mirror" /\ code = 0
        BY <2>3, <2>6
      <4>2. MirrorDay(s, d, ok)
        BY <4>1, <1>7 DEF SliceDay
      <4>3. ok /\ job[s].code = 0
        BY <4>1, <2>1
      <4> QED
        BY <4>2, <4>3
    <3>2. CASE e = d
      <4>1. d < job[s].begun => d \in raw'
        BY <3>1 DEF MirrorDay
      <4>2. d \in Int /\ job[s].begun \in Int
        BY <2>2, BoundsAssumption DEF JobType
      <4> QED
        BY <3>2, <4>1, <4>2, <2>3
    <3>3. CASE e # d
      <4>1. e \in job[s].dates \ job[s].left
        BY <3>3, <2>3, <2>6
      <4> QED
        BY <4>1, <3>1, <2>2, <2>3, <2>6 DEF JobInv, MirroredSoFar
    <3> QED
      BY <3>2, <3>3
  <2>7. j.stage = "all" /\ j.doing = "slice" /\ j.request.explicit =>
          \A e \in j.left : e \in raw' \/ e >= j.begun
    BY <2>2, <2>3 DEF JobInv, MeetsMirrored
  <2>8. Set(s, j)
    BY <2>1 DEF j
  <2> QED
    BY <2>2, <2>5, <2>6, <2>7, <2>8, <1>0, SetKeepsDates
<1> QED
  BY <1>1, <1>2, <1>3, <1>4, <1>5, <1>6, <1>7 DEF Next

LEMMA DatesAlwaysKept == Spec => []DatesInv
<1>1. Init => DatesInv
  <2> SUFFICES ASSUME Init, NEW s \in Slots PROVE JobInv(job[s])
    BY DEF DatesInv
  <2>1. job[s].doing = "done"
    BY DEF Init, Over
  <2> QED
    BY <2>1 DEF JobInv, DatesKept, MirroredSoFar, MeetsMirrored
<1> QED
  BY <1>1, DatesInductive, TypeCorrect, PTL DEF Spec

\* A job works on the dates that were meant, also a submitted one that has
\* carried them as offsets, unless it begins on a later day.
THEOREM JobsKeepDates == Spec => []DatesAsAsked
<1>1. DatesInv => DatesAsAsked
  BY DEF DatesInv, JobInv, DatesKept, DatesAsAsked
<1> QED
  BY <1>1, DatesAlwaysKept, PTL

\* `all` of explicit dates slices no day that its own mirror has missed, but
\* for days that were not over when it began.
THEOREM AllMirrorsFirst == Spec => []AllSlicesMirrored
<1>1. DatesInv => AllSlicesMirrored
  BY DEF DatesInv, JobInv, MeetsMirrored, AllSlicesMirrored
<1> QED
  BY <1>1, DatesAlwaysKept, PTL

=============================================================================
