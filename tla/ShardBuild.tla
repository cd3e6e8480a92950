----------------------------- MODULE ShardBuild -----------------------------
(***************************************************************************)
(* Building the canonical shards of one Polymarket target and date         *)
(* (build_pm_slice and _write_pm_shard_from_files in canonical.py), by     *)
(* builder processes that share nothing but S3 and DynamoDB: a scheduled   *)
(* task, submitted tasks, an operator's laptop.  There is no lock and no   *)
(* conditional write.  Each remote write is a step, and a builder may die  *)
(* (or a remote call may raise) between any two of them.                   *)
(*                                                                         *)
(* A shard exists once per depth.  What the properties tell apart in its   *)
(* files is the set of contracts they are about: data.parquet holds the    *)
(* events of those contracts, schedule.parquet one row for each.  The      *)
(* manifest and the catalog record keep the number of schedule rows.       *)
(* A build without contracts raises before it writes, so a file is never   *)
(* about no contract and the empty set stands for a missing file.          *)
(* Discovery (module Discovery) may miss contracts, since a 404 of Gamma   *)
(* silently drops one; so it yields any of Discoveries, or raises.         *)
(*                                                                         *)
(* The raw hours are looked up with batch_get, which repeats its request   *)
(* for the keys DynamoDB leaves unprocessed; hours may be mirrored while   *)
(* it does.                                                                *)
(***************************************************************************)
EXTENDS Naturals, FiniteSets

CONSTANTS
  Builders,
  Depths,
  Hours,        \* source hours of the date
  Contracts,
  Discoveries,  \* what discover_resolutions may return
  None

ASSUME ContractsAssumption   == IsFiniteSet(Contracts)
ASSUME DiscoveriesAssumption == Discoveries \subseteq SUBSET Contracts
ASSUME NoneAssumption        == None \notin Depths

VARIABLES
  raw,       \* hours whose raw object is stored and marked READY
  data,      \* per depth: contracts data.parquet is about, {} if it is missing
  schedule,  \* per depth: contracts in schedule.parquet, {} if it is missing
  manifest,  \* per depth: schedule rows in manifest.json, 0 if there is none
  shard,     \* per depth: schedule rows in the READY catalog record, 0 if none
  coverage,  \* depth of the build the READY coverage record is about, or None
  builder,   \* per builder: its position and local variables
  reading,   \* per builder: its batch_get of the raw hours
  raced      \* history: depths that two builders once worked on at a time

files == <<data, schedule, manifest>>
vars == <<raw, files, shard, coverage, builder, reading, raced>>

-----------------------------------------------------------------------------

Positions == {"idle", "preflight", "plan", "discover", "put_data",
              "put_schedule", "put_manifest", "put_record", "put_coverage"}

Idle(d) == [pc |-> "idle", depth |-> d, force |-> FALSE, existing |-> 0, contracts |-> {}]

\* asked: keys not answered yet.  ready: hours answered with a READY record.
\* had: history, the hours mirrored when the build began.
NoReading == [asked |-> {}, ready |-> {}, had |-> {}]

\* _pm_shard_ready: the record is READY and both objects exist.
ShardReady(d) == shard[d] # 0 /\ data[d] # {} /\ schedule[d] # {}

\* Mutant of Reusable: a forced rebuild always discovers anew.
ReusableNever(b) == FALSE

\* _load_existing_pm_schedule_table: the stored schedule has as many rows as
\* the record read at the beginning says, and at least one asset.
Reusable(b) ==
  LET d == builder[b].depth IN
  /\ builder[b].force
  /\ builder[b].existing # 0
  /\ schedule[d] # {}
  /\ Cardinality(schedule[d]) = builder[b].existing

\* The guard against shrinking a schedule by a forced rebuild.
WouldShrink(b, found) ==
  /\ builder[b].force
  /\ builder[b].existing # 0
  /\ Cardinality(found) < builder[b].existing

\* Another builder is at work on the depth.
Contended(b, d) ==
  \E c \in Builders \ {b} : builder[c].pc # "idle" /\ builder[c].depth = d

Goto(b, pc) == builder' = [builder EXCEPT ![b].pc = pc]

\* The contracts of the build are known: their data can be written.
Planned(b, contracts) ==
  builder' = [builder EXCEPT ![b] = [@ EXCEPT !.pc = "put_data", !.contracts = contracts]]

-----------------------------------------------------------------------------

Init ==
  /\ raw = {}
  /\ data = [d \in Depths |-> {}]
  /\ schedule = [d \in Depths |-> {}]
  /\ manifest = [d \in Depths |-> 0]
  /\ shard = [d \in Depths |-> 0]
  /\ coverage = None
  /\ \E d \in Depths : builder = [b \in Builders |-> Idle(d)]
  /\ reading = [b \in Builders |-> NoReading]
  /\ raced = {}

\* Mutant of MirrorHour: hours counted from 1.
MirrorNextHour(h) ==
  /\ raw' = raw \cup {h + 1}
  /\ UNCHANGED <<files, shard, coverage, builder, reading, raced>>

\* The mirror stores an hour (module RawMirror looks into it).
MirrorHour(h) ==
  /\ raw' = raw \cup {h}
  /\ UNCHANGED <<files, shard, coverage, builder, reading, raced>>

\* batch_get asks for every hour of the date.
StartReading(b, d) ==
  /\ reading' = [reading EXCEPT ![b] = [asked |-> Hours, ready |-> {}, had |-> raw]]
  /\ raced' = IF Contended(b, d) THEN raced \cup {d} ELSE raced

\* Mutants of Begin: a READY shard is rebuilt unasked; a forced build does not
\* look at the catalog.
BeginAnyway(b, d, force) ==
  /\ builder[b].pc = "idle"
  /\ builder' = [builder EXCEPT ![b] =
       [pc |-> "preflight", depth |-> d, force |-> force,
        existing |-> shard[d], contracts |-> {}]]
  /\ StartReading(b, d)
  /\ UNCHANGED <<raw, files, shard, coverage>>

BeginBlindly(b, d, force) ==
  /\ builder[b].pc = "idle"
  /\ force \/ ~ShardReady(d)
  /\ builder' = [builder EXCEPT ![b] =
       [pc |-> "preflight", depth |-> d, force |-> force,
        existing |-> IF force THEN 0 ELSE shard[d], contracts |-> {}]]
  /\ StartReading(b, d)
  /\ UNCHANGED <<raw, files, shard, coverage>>

\* Read the catalog; a READY shard is left alone unless forced.
Begin(b, d, force) ==
  /\ builder[b].pc = "idle"
  /\ force \/ ~ShardReady(d)
  /\ builder' = [builder EXCEPT ![b] =
       [pc |-> "preflight", depth |-> d, force |-> force,
        existing |-> shard[d], contracts |-> {}]]
  /\ StartReading(b, d)
  /\ UNCHANGED <<raw, files, shard, coverage>>

\* Mutants of Answer: the unprocessed keys are forgotten; the rest of
\* the original request is asked again instead.
AnswerOnce(b, keys) ==
  /\ builder[b].pc = "preflight"
  /\ keys \subseteq reading[b].asked
  /\ reading' = [reading EXCEPT ![b] =
       [asked |-> {}, ready |-> reading[b].ready \cup (keys \cap raw), had |-> reading[b].had]]
  /\ UNCHANGED <<raw, files, shard, coverage, builder, raced>>

AnswerAfresh(b, keys) ==
  /\ builder[b].pc = "preflight"
  /\ keys \subseteq reading[b].asked
  /\ reading' = [reading EXCEPT ![b] =
       [asked |-> Hours \ keys, ready |-> reading[b].ready \cup (keys \cap raw),
        had |-> reading[b].had]]
  /\ UNCHANGED <<raw, files, shard, coverage, builder, raced>>

\* DynamoDB answers some of the keys; the others come back as UnprocessedKeys
\* and are asked for again, at once and without limit.
Answer(b, keys) ==
  /\ builder[b].pc = "preflight"
  /\ keys \subseteq reading[b].asked
  /\ reading' = [reading EXCEPT ![b] =
       [asked |-> reading[b].asked \ keys,
        ready |-> reading[b].ready \cup (keys \cap raw),
        had   |-> reading[b].had]]
  /\ UNCHANGED <<raw, files, shard, coverage, builder, raced>>

\* Every hour of the date has to be mirrored, or the build raises and names
\* the missing ones.
Preflight(b) ==
  /\ builder[b].pc = "preflight"
  /\ reading[b].asked = {}
  /\ Goto(b, IF reading[b].ready = Hours THEN "plan" ELSE "idle")
  /\ reading' = [reading EXCEPT ![b] = NoReading]
  /\ UNCHANGED <<raw, files, shard, coverage, raced>>

ReuseSchedule(b) ==
  /\ builder[b].pc = "plan"
  /\ Reusable(b)
  /\ Planned(b, schedule[builder[b].depth])
  /\ UNCHANGED <<raw, files, shard, coverage, reading, raced>>

NoReuse(b) ==
  /\ builder[b].pc = "plan"
  /\ ~Reusable(b)
  /\ Goto(b, "discover")
  /\ UNCHANGED <<raw, files, shard, coverage, reading, raced>>

\* Nothing found, and a schedule about to shrink, raise.
Discover(b, found) ==
  /\ builder[b].pc = "discover"
  /\ found # {}
  /\ ~WouldShrink(b, found)
  /\ Planned(b, found)
  /\ UNCHANGED <<raw, files, shard, coverage, reading, raced>>

\* The writes of _write_pm_shard_from_files, in its order.
PutData(b) ==
  /\ builder[b].pc = "put_data"
  /\ data' = [data EXCEPT ![builder[b].depth] = builder[b].contracts]
  /\ Goto(b, "put_schedule")
  /\ UNCHANGED <<raw, schedule, manifest, shard, coverage, reading, raced>>

\* Mutant of PutSchedule: the record is written before the manifest.
PutScheduleThenRecord(b) ==
  /\ builder[b].pc = "put_schedule"
  /\ schedule' = [schedule EXCEPT ![builder[b].depth] = builder[b].contracts]
  /\ Goto(b, "put_record")
  /\ UNCHANGED <<raw, data, manifest, shard, coverage, reading, raced>>

PutSchedule(b) ==
  /\ builder[b].pc = "put_schedule"
  /\ schedule' = [schedule EXCEPT ![builder[b].depth] = builder[b].contracts]
  /\ Goto(b, "put_manifest")
  /\ UNCHANGED <<raw, data, manifest, shard, coverage, reading, raced>>

\* Mutant of PutManifest: coverage is written before the record.
PutManifestThenCoverage(b) ==
  /\ builder[b].pc = "put_manifest"
  /\ manifest' = [manifest EXCEPT ![builder[b].depth] = Cardinality(builder[b].contracts)]
  /\ Goto(b, "put_coverage")
  /\ UNCHANGED <<raw, data, schedule, shard, coverage, reading, raced>>

PutManifest(b) ==
  /\ builder[b].pc = "put_manifest"
  /\ manifest' = [manifest EXCEPT ![builder[b].depth] = Cardinality(builder[b].contracts)]
  /\ Goto(b, "put_record")
  /\ UNCHANGED <<raw, data, schedule, shard, coverage, reading, raced>>

PutRecord(b) ==
  /\ builder[b].pc = "put_record"
  /\ shard' = [shard EXCEPT ![builder[b].depth] = Cardinality(builder[b].contracts)]
  /\ Goto(b, "put_coverage")
  /\ UNCHANGED <<raw, files, coverage, reading, raced>>

\* The coverage key has no depth: builds of every depth share one record.
PutCoverage(b) ==
  /\ builder[b].pc = "put_coverage"
  /\ coverage' = builder[b].depth
  /\ Goto(b, "idle")
  /\ UNCHANGED <<raw, files, shard, reading, raced>>

\* An exception or the death of the process: what was written stays.
Abort(b) ==
  /\ builder[b].pc # "idle"
  /\ Goto(b, "idle")
  /\ reading' = [reading EXCEPT ![b] = NoReading]
  /\ UNCHANGED <<raw, files, shard, coverage, raced>>

Build(b) ==
  \/ \E d \in Depths, force \in BOOLEAN : Begin(b, d, force)
  \/ \E keys \in SUBSET Hours : Answer(b, keys)
  \/ Preflight(b)
  \/ ReuseSchedule(b)
  \/ NoReuse(b)
  \/ \E found \in Discoveries : Discover(b, found)
  \/ PutData(b)
  \/ PutSchedule(b)
  \/ PutManifest(b)
  \/ PutRecord(b)
  \/ PutCoverage(b)

Next ==
  \/ \E h \in Hours : MirrorHour(h)
  \/ \E b \in Builders : Build(b)
  \/ \E b \in Builders : Abort(b)

Spec == Init /\ [][Next]_vars

\* DynamoDB, throttled or not, answers some key of a request in the end (an
\* answer to none of the keys is a stuttering step), and a build proceeds.
FairSpec ==
  /\ Spec
  /\ \A b \in Builders :
       /\ WF_vars(\E keys \in SUBSET Hours : Answer(b, keys))
       /\ WF_vars(Preflight(b))

-----------------------------------------------------------------------------
(* Properties.                                                             *)

BuilderType ==
  [pc : Positions, depth : Depths, force : BOOLEAN, existing : Nat,
   contracts : SUBSET Contracts]

TypeOK ==
  /\ raw \subseteq Hours
  /\ data \in [Depths -> SUBSET Contracts]
  /\ schedule \in [Depths -> SUBSET Contracts]
  /\ manifest \in [Depths -> Nat]
  /\ shard \in [Depths -> Nat]
  /\ coverage \in Depths \cup {None}
  /\ builder \in [Builders -> BuilderType]
  /\ reading \in [Builders -> [asked : SUBSET Hours, ready : SUBSET Hours, had : SUBSET Hours]]
  /\ raced \subseteq Depths

\* A catalog record is never ahead of what it points to: whatever builders
\* run at once and wherever they die, a READY record has its three files, of
\* a date whose raw hours are all there.
RecordHasFiles ==
  \A d \in Depths : shard[d] # 0 =>
    /\ data[d] # {}
    /\ schedule[d] # {}
    /\ manifest[d] # 0
    /\ raw = Hours

\* The coverage table never announces a build the catalog does not have.
CoverageHasRecord == coverage # None => shard[coverage] # 0

\* The files of a READY shard on which no two builders ever worked at a time
\* belong together: the data is about exactly the
\* scheduled contracts, and manifest and record count them.
Coherent(d) ==
  /\ data[d] = schedule[d]
  /\ schedule[d] # {}
  /\ Cardinality(schedule[d]) = shard[d]
  /\ manifest[d] = shard[d]

ShardsCoherent == \A d \in Depths \ raced : shard[d] # 0 => Coherent(d)

\* A READY shard's schedule never loses rows (canonical.py:393, "refusing to
\* shrink Polymarket schedule").
NoShrink == \A d \in Depths \ raced : shard'[d] >= shard[d]

CatalogNeverShrinks == [][NoShrink]_vars

\* A schedule that a READY record vouches for is never rewritten with other
\* contracts (src/README.md:423, a forced rebuild reuses the schedule).
VouchedSchedule ==
  \A d \in Depths \ raced : shard[d] # 0 => schedule'[d] = schedule[d]

ScheduleKept == [][VouchedSchedule]_vars

\* A fully-READY shard with all its files is left unchanged while no builder
\* at work on it is forced (docstring of build_pm_slice, canonical.py:321).
Forced(d) == \E b \in Builders : builder[b].pc # "idle" /\ builder[b].depth = d /\ builder[b].force

ReadyUnchanged ==
  \A d \in Depths \ raced : ShardReady(d) /\ ~Forced(d) =>
    /\ data'[d] = data[d]
    /\ schedule'[d] = schedule[d]
    /\ shard'[d] = shard[d]

ReadyLeftAlone == [][ReadyUnchanged]_vars

\* No answer of a throttled table gets lost: an hour that was mirrored before a
\* build began is never among the hours the build calls missing.
AnswersComplete ==
  \A b \in Builders : builder[b].pc = "preflight" =>
    reading[b].had \subseteq reading[b].ready \cup reading[b].asked

\* However little of a request DynamoDB answers at a time, the look-up of the
\* raw hours comes to an end (storage.py:157 repeats without limit).
PreflightEnds ==
  \A b \in Builders : builder[b].pc = "preflight" ~> builder[b].pc # "preflight"

=============================================================================
