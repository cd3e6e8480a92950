-------------------------- MODULE ShardBuildProofs --------------------------
(***************************************************************************)
(* Theorems about ShardBuild, for any number of builders and any crashes.  *)
(* Part one holds whatever builders do at once; part two is about the      *)
(* shards that no two builders ever worked on at a time.                   *)
(***************************************************************************)
EXTENDS ShardBuild, FiniteSetTheorems, TLAPS

\* len() of a schedule table.
LEMMA Counting ==
  ASSUME NEW S \in SUBSET Contracts
  PROVE  Cardinality(S) \in Nat /\ (Cardinality(S) = 0 <=> S = {})
BY ContractsAssumption, FS_Subset, FS_CardinalityType, FS_EmptySet

LEMMA PlannedType ==
  ASSUME builder \in [Builders -> BuilderType], NEW b \in Builders,
         NEW S \in SUBSET Contracts, Planned(b, S)
  PROVE  builder' \in [Builders -> BuilderType]
<1> DEFINE new == [builder[b] EXCEPT !.pc = "put_data", !.contracts = S]
<1>1. new \in BuilderType
  <2>1. builder[b] \in BuilderType
    OBVIOUS
  <2> QED
    BY <2>1 DEF BuilderType, Positions
<1>2. builder' = [builder EXCEPT ![b] = new]
  BY DEF Planned
<1> HIDE DEF new
<1> QED
  BY <1>1, <1>2

\* Type correctness.
THEOREM TypeCorrect == Spec => []TypeOK
<1> USE DEF TypeOK, BuilderType, Positions
<1>1. Init => TypeOK
  BY DEF Init, Idle, NoReading
<1>2. TypeOK /\ [Next]_vars => TypeOK'
  <2> SUFFICES ASSUME TypeOK, [Next]_vars PROVE TypeOK'
    OBVIOUS
  <2>1. ASSUME NEW h \in Hours, MirrorHour(h) PROVE TypeOK'
    BY <2>1 DEF MirrorHour, files
  <2>2. ASSUME NEW b \in Builders, NEW d \in Depths, NEW force \in BOOLEAN,
               Begin(b, d, force)
        PROVE  TypeOK'
    BY <2>2 DEF Begin, StartReading, files
  <2>3. ASSUME NEW b \in Builders, NEW keys \in SUBSET Hours, Answer(b, keys)
        PROVE  TypeOK'
    BY <2>3 DEF Answer, files
  <2>4. ASSUME NEW b \in Builders, Preflight(b) PROVE TypeOK'
    <3>1. PICK pc \in {"plan", "idle"} : builder' = [builder EXCEPT ![b].pc = pc]
      BY <2>4 DEF Preflight, Goto
    <3> QED
      BY <2>4, <3>1 DEF Preflight, NoReading, files
  <2>5. ASSUME NEW b \in Builders, ReuseSchedule(b) PROVE TypeOK'
    <3>1. schedule[builder[b].depth] \in SUBSET Contracts
      OBVIOUS
    <3>2. builder' \in [Builders -> BuilderType]
      BY <2>5, <3>1, PlannedType DEF ReuseSchedule
    <3> QED
      BY <2>5, <3>2 DEF ReuseSchedule, files
  <2>6. ASSUME NEW b \in Builders, NoReuse(b) PROVE TypeOK'
    BY <2>6 DEF NoReuse, Goto, files
  <2>7. ASSUME NEW b \in Builders, NEW found \in Discoveries, Discover(b, found)
        PROVE  TypeOK'
    <3>1. builder' \in [Builders -> BuilderType]
      BY <2>7, DiscoveriesAssumption, PlannedType DEF Discover
    <3> QED
      BY <2>7, <3>1 DEF Discover, files
  <2>8. ASSUME NEW b \in Builders, PutData(b) PROVE TypeOK'
    BY <2>8 DEF PutData, Goto
  <2>9. ASSUME NEW b \in Builders, PutSchedule(b) PROVE TypeOK'
    BY <2>9 DEF PutSchedule, Goto
  <2>10. ASSUME NEW b \in Builders, PutManifest(b) PROVE TypeOK'
    BY <2>10, Counting DEF PutManifest, Goto
  <2>11. ASSUME NEW b \in Builders, PutRecord(b) PROVE TypeOK'
    BY <2>11, Counting DEF PutRecord, Goto, files
  <2>12. ASSUME NEW b \in Builders, PutCoverage(b) PROVE TypeOK'
    BY <2>12 DEF PutCoverage, Goto, files
  <2>13. ASSUME NEW b \in Builders, Abort(b) PROVE TypeOK'
    BY <2>13 DEF Abort, Goto, NoReading, files
  <2>14. CASE UNCHANGED vars
    BY <2>14 DEF vars, files
  <2> QED
    BY <2>1, <2>2, <2>3, <2>4, <2>5, <2>6, <2>7, <2>8, <2>9, <2>10, <2>11,
       <2>12, <2>13, <2>14 DEF Next, Build
<1> QED
  BY <1>1, <1>2, PTL DEF Spec

-----------------------------------------------------------------------------
(* Part one: records never run ahead of what they describe.                *)

\* A builder at a position has seen the raw hours and written everything that
\* comes before the position; nothing it wrote ever disappears.
Written(b) ==
  LET pc == builder[b].pc
      d == builder[b].depth
  IN /\ reading[b].had \subseteq raw
     /\ reading[b].ready \subseteq raw
     /\ pc \notin {"idle", "preflight"} => raw = Hours
     /\ pc \in {"put_data", "put_schedule", "put_manifest", "put_record", "put_coverage"}
          => builder[b].contracts # {}
     /\ pc \in {"put_schedule", "put_manifest", "put_record", "put_coverage"}
          => data[d] # {}
     /\ pc \in {"put_manifest", "put_record", "put_coverage"} => schedule[d] # {}
     /\ pc \in {"put_record", "put_coverage"} => manifest[d] # 0
     /\ pc = "put_coverage" => shard[d] # 0

OrderInv ==
  /\ TypeOK
  /\ \A b \in Builders : Written(b)
  /\ RecordHasFiles
  /\ CoverageHasRecord
  /\ AnswersComplete

\* The order of the remote writes is inductive.
LEMMA OrderInductive == OrderInv /\ [Next]_vars /\ TypeOK' => OrderInv'
<1> SUFFICES ASSUME OrderInv, [Next]_vars, TypeOK' PROVE OrderInv'
  OBVIOUS
<1>0. raw \subseteq Hours /\ \A b \in Builders : reading[b].ready \subseteq raw
  BY DEF OrderInv, TypeOK, Written
<1> USE DEF OrderInv, TypeOK, BuilderType, Positions, Written, RecordHasFiles,
            CoverageHasRecord, AnswersComplete
<1>1. ASSUME NEW h \in Hours, MirrorHour(h) PROVE OrderInv'
  BY <1>1 DEF MirrorHour, files
<1>2. ASSUME NEW b \in Builders, NEW d \in Depths, NEW force \in BOOLEAN,
             Begin(b, d, force)
      PROVE  OrderInv'
  BY <1>2 DEF Begin, StartReading, files
<1>3. ASSUME NEW b \in Builders, NEW keys \in SUBSET Hours, Answer(b, keys)
      PROVE  OrderInv'
  BY <1>3 DEF Answer, files
<1>4. ASSUME NEW b \in Builders, Preflight(b) PROVE OrderInv'
  <2>1. reading[b].ready = Hours => raw = Hours
    BY <1>0
  <2>2. /\ UNCHANGED <<raw, data, schedule, manifest, shard, coverage>>
        /\ reading' = [reading EXCEPT ![b] = NoReading]
        /\ \E pc \in {"plan", "idle"} :
             (pc = "plan" => raw = Hours) /\ builder' = [builder EXCEPT ![b].pc = pc]
    BY <1>4, <2>1 DEF Preflight, Goto, files
  <2>3. ASSUME NEW c \in Builders PROVE Written(c)'
    <3>1. CASE c = b
      BY <2>2, <3>1 DEF NoReading
    <3>2. CASE c # b
      BY <2>2, <3>2
    <3> QED
      BY <3>1, <3>2
  <2>4. AnswersComplete' /\ RecordHasFiles' /\ CoverageHasRecord'
    BY <2>2
  <2> QED
    BY <2>3, <2>4
<1>5. ASSUME NEW b \in Builders, ReuseSchedule(b) PROVE OrderInv'
  BY <1>5 DEF ReuseSchedule, Reusable, Planned, files
<1>6. ASSUME NEW b \in Builders, NoReuse(b) PROVE OrderInv'
  <2>1. /\ UNCHANGED <<raw, data, schedule, manifest, shard, coverage, reading>>
        /\ builder' = [builder EXCEPT ![b].pc = "discover"]
        /\ raw = Hours
    BY <1>6 DEF NoReuse, Goto, files
  <2>2. ASSUME NEW c \in Builders PROVE Written(c)'
    <3>1. CASE c = b
      BY <2>1, <3>1
    <3>2. CASE c # b
      BY <2>1, <3>2
    <3> QED
      BY <3>1, <3>2
  <2>3. AnswersComplete' /\ RecordHasFiles' /\ CoverageHasRecord'
    BY <2>1
  <2> QED
    BY <2>2, <2>3
<1>7. ASSUME NEW b \in Builders, NEW found \in Discoveries, Discover(b, found)
      PROVE  OrderInv'
  BY <1>7, DiscoveriesAssumption DEF Discover, Planned, files
<1>8. ASSUME NEW b \in Builders, PutData(b) PROVE OrderInv'
  BY <1>8 DEF PutData, Goto
<1>9. ASSUME NEW b \in Builders, PutSchedule(b) PROVE OrderInv'
  BY <1>9 DEF PutSchedule, Goto
<1>10. ASSUME NEW b \in Builders, PutManifest(b) PROVE OrderInv'
  BY <1>10, Counting DEF PutManifest, Goto
<1>11. ASSUME NEW b \in Builders, PutRecord(b) PROVE OrderInv'
  BY <1>11, Counting DEF PutRecord, Goto, files
<1>12. ASSUME NEW b \in Builders, PutCoverage(b) PROVE OrderInv'
  BY <1>12, NoneAssumption DEF PutCoverage, Goto, files
<1>13. ASSUME NEW b \in Builders, Abort(b) PROVE OrderInv'
  <2>1. /\ UNCHANGED <<raw, data, schedule, manifest, shard, coverage>>
        /\ builder' = [builder EXCEPT ![b].pc = "idle"]
        /\ reading' = [reading EXCEPT ![b] = NoReading]
    BY <1>13 DEF Abort, Goto, files
  <2>2. ASSUME NEW c \in Builders PROVE Written(c)'
    <3>1. CASE c = b
      BY <2>1, <3>1 DEF NoReading
    <3>2. CASE c # b
      BY <2>1, <3>2
    <3> QED
      BY <3>1, <3>2
  <2>3. AnswersComplete' /\ RecordHasFiles' /\ CoverageHasRecord'
    BY <2>1
  <2> QED
    BY <2>2, <2>3
<1>14. CASE UNCHANGED vars
  BY <1>14 DEF vars, files
<1> HIDE DEF OrderInv, TypeOK, Written, RecordHasFiles, CoverageHasRecord, AnswersComplete
<1> QED
  BY <1>1, <1>2, <1>3, <1>4, <1>5, <1>6, <1>7, <1>8, <1>9, <1>10, <1>11,
     <1>12, <1>13, <1>14 DEF Next, Build

LEMMA OrderHolds == Spec => []OrderInv
<1>1. Init => OrderInv
  <2>1. Init => TypeOK
    BY DEF Init, Idle, NoReading, TypeOK, BuilderType, Positions
  <2>2. Init => \A b \in Builders : Written(b)
    BY DEF Init, Idle, NoReading, Written
  <2>3. Init => RecordHasFiles /\ CoverageHasRecord /\ AnswersComplete
    BY DEF Init, Idle, RecordHasFiles, CoverageHasRecord, AnswersComplete
  <2> QED
    BY <2>1, <2>2, <2>3 DEF OrderInv
<1> QED
  BY <1>1, OrderInductive, TypeCorrect, PTL DEF Spec

\* Whatever builders race and wherever they die, a READY catalog record has
\* its data, schedule and manifest objects and a fully mirrored date.
THEOREM RecordsHaveFiles == Spec => []RecordHasFiles
BY OrderHolds, PTL DEF OrderInv

\* ... and READY coverage has a READY catalog record.
THEOREM CoverageHasRecords == Spec => []CoverageHasRecord
BY OrderHolds, PTL DEF OrderInv

\* ... and a build calls an hour missing only if it was missing when the build
\* began, however often DynamoDB leaves keys unprocessed.
THEOREM AnswersAreComplete == Spec => []AnswersComplete
BY OrderHolds, PTL DEF OrderInv

-----------------------------------------------------------------------------
(* Part two: shards that two builders never work on at a time.  A builder  *)
(* may die anywhere and its discovery may miss contracts.                  *)

Active(b) == builder[b].pc # "idle"

Writing == {"put_data", "put_schedule", "put_manifest", "put_record"}

\* Two builders are at work on one depth only if that is on record.
Alone ==
  \A b, c \in Builders :
    /\ b # c
    /\ Active(b)
    /\ Active(c)
    /\ builder[b].depth = builder[c].depth
    => builder[b].depth \in raced

\* What the builder read from the catalog is still there; it discovers only
\* when there is no record to contradict, and rebuilds with the contracts of
\* the stored schedule otherwise; what it has written is about its contracts.
Undisturbed(b) ==
  LET pc == builder[b].pc
      d == builder[b].depth
      contracts == builder[b].contracts
  IN /\ pc \in {"preflight", "plan", "discover"} \cup Writing
          => builder[b].existing = shard[d]
     /\ pc \in {"preflight", "plan"} => builder[b].force \/ shard[d] = 0
     /\ pc = "discover" => shard[d] = 0
     /\ pc \in Writing /\ shard[d] # 0 => builder[b].force /\ contracts = schedule[d]
     /\ pc \in Writing \ {"put_data"} => data[d] = contracts
     /\ pc \in {"put_manifest", "put_record"} => schedule[d] = contracts
     /\ pc = "put_record" => manifest[d] = Cardinality(contracts)

SerialInv ==
  /\ Alone
  /\ \A b \in Builders : builder[b].depth \notin raced => Undisturbed(b)
  /\ ShardsCoherent

\* A shard with a READY record is rebuilt from its own schedule.
LEMMA CoherentReusable ==
  ASSUME TypeOK, ShardsCoherent, NEW b \in Builders, builder[b].force,
         builder[b].depth \notin raced,
         builder[b].existing = shard[builder[b].depth],
         shard[builder[b].depth] # 0
  PROVE  Reusable(b)
BY DEF TypeOK, BuilderType, ShardsCoherent, Coherent, Reusable

LEMMA SerialInductive == OrderInv /\ OrderInv' /\ SerialInv /\ [Next]_vars => SerialInv'
<1> SUFFICES ASSUME OrderInv, OrderInv', SerialInv, [Next]_vars PROVE SerialInv'
  OBVIOUS
<1> USE DEF OrderInv, TypeOK, BuilderType, Positions, SerialInv, Alone, Active, Undisturbed,
            Writing, ShardsCoherent, Coherent
<1>1. ASSUME NEW h \in Hours, MirrorHour(h) PROVE SerialInv'
  BY <1>1 DEF MirrorHour, files
<1>2. ASSUME NEW b \in Builders, NEW d \in Depths, NEW force \in BOOLEAN,
             Begin(b, d, force)
      PROVE  SerialInv'
  <2>1. ShardsCoherent'
    BY <1>2 DEF Begin, StartReading, files
  <2>2. Alone'
    BY <1>2 DEF Begin, StartReading, Contended
  <2>3. ASSUME NEW c \in Builders, builder'[c].depth \notin raced' PROVE Undisturbed(c)'
    <3>1. CASE c = b
      BY <1>2, <2>3, <3>1 DEF Begin, StartReading, files, ShardReady, RecordHasFiles
    <3>2. CASE c # b
      BY <1>2, <2>3, <3>2 DEF Begin, StartReading, files
    <3> QED
      BY <3>1, <3>2
  <2> QED
    BY <2>1, <2>2, <2>3
<1>3. ASSUME NEW b \in Builders, NEW keys \in SUBSET Hours, Answer(b, keys)
      PROVE  SerialInv'
  BY <1>3 DEF Answer, files
<1>4. ASSUME NEW b \in Builders, Preflight(b) PROVE SerialInv'
  BY <1>4 DEF Preflight, Goto, files
<1>5. ASSUME NEW b \in Builders, ReuseSchedule(b) PROVE SerialInv'
  <2>1. /\ UNCHANGED <<data, schedule, manifest, shard, raced>>
        /\ builder[b].pc = "plan" /\ builder[b].force
        /\ builder' = [builder EXCEPT ![b] =
             [@ EXCEPT !.pc = "put_data", !.contracts = schedule[builder[b].depth]]]
    BY <1>5 DEF ReuseSchedule, Reusable, Planned, files
  <2>2. Alone' /\ ShardsCoherent'
    BY <2>1
  <2>3. ASSUME NEW c \in Builders, builder'[c].depth \notin raced' PROVE Undisturbed(c)'
    <3>1. CASE c = b
      BY <2>1, <2>3, <3>1
    <3>2. CASE c # b
      BY <2>1, <2>3, <3>2
    <3> QED
      BY <3>1, <3>2
  <2> QED
    BY <2>2, <2>3
<1>6. ASSUME NEW b \in Builders, NoReuse(b) PROVE SerialInv'
  BY <1>6, CoherentReusable DEF NoReuse, Goto, files
<1>7. ASSUME NEW b \in Builders, NEW found \in Discoveries, Discover(b, found)
      PROVE  SerialInv'
  BY <1>7, DiscoveriesAssumption DEF Discover, Planned, files
<1>8. ASSUME NEW b \in Builders, PutData(b) PROVE SerialInv'
  BY <1>8 DEF PutData, Goto
<1>9. ASSUME NEW b \in Builders, PutSchedule(b) PROVE SerialInv'
  BY <1>9 DEF PutSchedule, Goto
<1>10. ASSUME NEW b \in Builders, PutManifest(b) PROVE SerialInv'
  BY <1>10, Counting DEF PutManifest, Goto
<1>11. ASSUME NEW b \in Builders, PutRecord(b) PROVE SerialInv'
  BY <1>11, Counting DEF PutRecord, Goto, files, Written
<1>12. ASSUME NEW b \in Builders, PutCoverage(b) PROVE SerialInv'
  BY <1>12 DEF PutCoverage, Goto, files
<1>13. ASSUME NEW b \in Builders, Abort(b) PROVE SerialInv'
  BY <1>13 DEF Abort, Goto, files
<1>14. CASE UNCHANGED vars
  BY <1>14 DEF vars, files
<1> HIDE DEF OrderInv, TypeOK, SerialInv, Alone, Undisturbed, ShardsCoherent
<1> QED
  BY <1>1, <1>2, <1>3, <1>4, <1>5, <1>6, <1>7, <1>8, <1>9, <1>10, <1>11,
     <1>12, <1>13, <1>14 DEF Next, Build

LEMMA SerialHolds == Spec => []SerialInv
<1>1. Init => SerialInv
  BY DEF Init, Idle, SerialInv, Alone, Active, Undisturbed, Writing, ShardsCoherent
<1> QED
  BY <1>1, OrderHolds, SerialInductive, PTL DEF Spec

\* Data, schedule, manifest and record of a READY shard agree after every
\* step, crashes between the writes of a forced rebuild included, unless two
\* builders worked on the shard at a time.
THEOREM SerialShardsCoherent == Spec => []ShardsCoherent
BY SerialHolds, PTL DEF SerialInv

\* ... no READY schedule loses rows, however many contracts discovery misses.
THEOREM SerialNeverShrinks == Spec => CatalogNeverShrinks
<1>1. OrderInv /\ SerialInv /\ [Next]_vars => [NoShrink]_vars
  <2> SUFFICES ASSUME OrderInv, SerialInv, Next PROVE NoShrink
    OBVIOUS
  <2> USE DEF NoShrink, OrderInv, TypeOK, BuilderType
  <2>1. ASSUME NEW b \in Builders, PutRecord(b) PROVE NoShrink
    BY <2>1, Counting DEF PutRecord, SerialInv, Undisturbed, Writing,
                         ShardsCoherent, Coherent
  <2>2. CASE UNCHANGED shard
    BY <2>2
  <2> QED
    BY <2>1, <2>2 DEF Next, Build, MirrorHour, Begin, Answer, Preflight, ReuseSchedule,
       NoReuse, Discover, PutData, PutSchedule, PutManifest, PutCoverage, Abort
<1> QED
  BY <1>1, OrderHolds, SerialHolds, PTL DEF Spec, CatalogNeverShrinks

\* ... and the schedule a READY record vouches for is never rewritten.
THEOREM SerialScheduleKept == Spec => ScheduleKept
<1>1. OrderInv /\ SerialInv /\ [Next]_vars => [VouchedSchedule]_vars
  <2> SUFFICES ASSUME OrderInv, SerialInv, Next PROVE VouchedSchedule
    OBVIOUS
  <2> USE DEF VouchedSchedule, OrderInv, TypeOK, BuilderType
  <2>1. ASSUME NEW b \in Builders, PutSchedule(b) PROVE VouchedSchedule
    BY <2>1 DEF PutSchedule, SerialInv, Undisturbed, Writing
  <2>2. CASE UNCHANGED schedule
    BY <2>2
  <2> QED
    BY <2>1, <2>2 DEF Next, Build, MirrorHour, Begin, Answer, Preflight, ReuseSchedule,
       NoReuse, Discover, PutData, PutManifest, PutRecord, PutCoverage, Abort, files
<1> QED
  BY <1>1, OrderHolds, SerialHolds, PTL DEF Spec, ScheduleKept

\* ... and a READY shard changes only by a forced build, which is what makes
\* re-running the unforced builder a no-op.
THEOREM SerialReadyLeftAlone == Spec => ReadyLeftAlone
<1>1. OrderInv /\ SerialInv /\ [Next]_vars => [ReadyUnchanged]_vars
  <2> SUFFICES ASSUME OrderInv, SerialInv, Next PROVE ReadyUnchanged
    OBVIOUS
  <2> USE DEF ReadyUnchanged, ShardReady, Forced, OrderInv, TypeOK, BuilderType, SerialInv,
              Undisturbed, Writing
  <2>1. ASSUME NEW b \in Builders, PutData(b) PROVE ReadyUnchanged
    BY <2>1 DEF PutData
  <2>2. ASSUME NEW b \in Builders, PutSchedule(b) PROVE ReadyUnchanged
    BY <2>2 DEF PutSchedule
  <2>3. ASSUME NEW b \in Builders, PutRecord(b) PROVE ReadyUnchanged
    BY <2>3 DEF PutRecord, files
  <2>4. CASE UNCHANGED <<data, schedule, shard>>
    BY <2>4
  <2> QED
    BY <2>1, <2>2, <2>3, <2>4 DEF Next, Build, MirrorHour, Begin, Answer, Preflight,
       ReuseSchedule, NoReuse, Discover, PutManifest, PutCoverage, Abort, files
<1> QED
  BY <1>1, OrderHolds, SerialHolds, PTL DEF Spec, ReadyLeftAlone

=============================================================================
