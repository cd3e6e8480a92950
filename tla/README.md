# Verification of poochon-backtest-data

TLA+ models of the data pipeline in `src/src/poochon_backtest_data`, the TLC
runs that check them and the TLAPS proofs about them. Line numbers below are
those of the repository.

## The system

The program turns two venues' public archives into daily *shards* for
backtests. Raw hours are mirrored into S3, a slice build reads a day of raw
hours and writes a shard, and a replay reads shards. State is kept in S3
(objects) and DynamoDB (coverage records, one per raw hour and per shard; a
catalog of shard records). No component takes a lock: processes are laptops,
Step Functions tasks and schedules, and they meet in S3 and DynamoDB only.

| component | state | operations | hard because of |
|---|---|---|---|
| raw mirrors (`pmxt.py`, `hyperliquid.py`) | objects and coverage records of raw hours; a pool of workers per process | plan hours, look, head, get, put, record, sum up, exit code | races of mirrors, death between put and record, late upstream, lost objects |
| PMXT translation (`canonical.py` 604-902) | none (a SQL query per hour) | collapse a millisecond's changes, place book rows | order within a millisecond, missing rows |
| merge of a day (`canonical.py` 795-1072) | cursors, heap, blocks | translate, open, pop, write, close | hours that overlap, empty hours, batch ends |
| order book repair (`canonical.py` 1075-1389) | full and published book, best prices, touched levels | snapshot, delta batch | two books kept by different helpers, stale best prices |
| Polymarket slice build (`canonical.py` 305-590, 1586-1685) | data, schedule, manifest, catalog record, coverage | READY check, batch read of the raw hours, schedule reuse, four puts | races of builders, crashes between puts, discovery that misses contracts, a throttled table |
| Hyperliquid slice build (`canonical.py` 1775-2123, `hyperliquid.py` 90-176) | the same without a schedule | checks, fetch, collapse of fills, sort, puts | two fills per trade, ties, objects lost between check and fetch |
| contract lifecycle (`canonical.py` 158-284) | current and next contract | step to a timestamp, emit events | gaps in the schedule or in the stream, boundaries |
| jobs (`commands/run.py`, `commands/submit.py`, `models.py` 85-122, `infra/runtime`) | a window of dates per job | resolve, convert to offsets, run stages | midnight between two steps, failures of some days |
| golden comparison (`golden.py` 103-245, 402-620) | two replayed books, a cursor, counters | apply live events, advance the cursor, sample, judge | a cursor one row ahead across batches, lines out of order, nothing to compare |
| Gamma discovery (`polymarket_metadata.py`) | candidates and results of a pool of threads | fetch a market, two prices, settle, finish | failures in any thread, retries, markets that resolve meanwhile, evidence of mixed quality |
| storage (`storage.py`) | S3 and DynamoDB | put, get, batch get | see the mirrors and builds |
| commands `data`, `infra`, `validate`, `job`, `schedule`; settings; stacks `core`, `shared`, `access` | none | print, start, stop, declare | - |

What makes each one correct: a record is never ahead of its object; exit code 0
means that nothing planned is missing; the day file holds every row once, in
order; a depth-limited reader sees the exchange's top of book; a READY shard's
files belong together and a rebuild never loses contracts; a discovery
answers completely or fails, and its payouts settle; a trade is told once, with
the taker's side; a consumer's contract is the one in force; a comparison that
passes has compared; a job works on the dates that were meant.

## Modules

    RawMirror ............ raw hours               (Jobs: one step per day)
    PmxtReplay ........... translation, EXTENDS BookRepair
      BookRepair ......... repair and reader
    DayMerge ............. merge of a day, implements DayOrder
    Discovery ............ contracts of a target, implements DiscoveryPromise
    ShardBuild ........... Polymarket shards       (Jobs: one step per day)
    HlSlice .............. Hyperliquid shards      (Jobs: one step per day)
    ContractSchedule ..... lifecycle machine and consumer, implements ContractLifecycle
    GoldenCompare ........ a slice against a live capture
    Jobs ................. windows, stages, submissions, schedules
    *Proofs .............. theorems: PmxtReplayProofs about BookRepair and PmxtReplay,
                           DayFileProofs about DayMerge and GoldenCompare, the
                           others about the module they are named after
    MC* .................. values of constants for TLC

**BookRepair** (`_append_repaired_pm_row` and its helpers). `full`,
`published`, `best`, `touched` are the fields of `_PMBookRepairState`. `Snapshot`
and `Delta` are the two kinds of row, each with all helpers it calls: applying
levels, purging levels beyond the carried best price with and without output,
exposing levels that moved into the depth. `replay` is the book of a reader
(`_apply_canonical_row` in `golden.py`). A book is a function from prices to
sizes, 0 for no level; a batch's levels, its best prices and whether it has the
timestamp of the last one are inputs.

**PmxtReplay** puts an exchange, the archive and the SQL collapse before
BookRepair. The exchange and the archive are external: a `price_change` row
carries one level's new size and the best prices after it, a `book` row the
whole book, and any row may be missing. `recorded` are the archived rows of a
millisecond, `rows` what `_PMXT_TRANSLATE_SQL_TEMPLATE` makes of them.
`synced` is a history variable: since a book row nothing was missing, and the
collapse displaced nothing.

**DayMerge** follows `_slice_pmxt_for_date`, `_PMTranslatedCursor` and
`_write_pm_repaired_day_file`: hours that translate to nothing have no path, a
cursor holds a batch, the heap holds one key per cursor, rows are written in
blocks. **DayOrder** is the promise: the smallest of the remaining rows is
emitted next.

**ShardBuild** is `build_pm_slice`: per builder a position (`pc`) and what it
computed; shared are raw hours, files, manifest, catalog and coverage, each
changed by one put. The look-up of the raw hours is `batch_get` (`storage.py`
145-162): DynamoDB answers some of the keys, the rest is asked for again, and
hours may be mirrored between two answers. `Discoveries` are the answers
discovery may give: a contract Gamma does not list yet is missing from one that
keeps DiscoveryPromise. A builder may die anywhere. `raced` is a history
variable, the depths two builders were once at work on at a time. **HlSlice** is
`build_hl_slice` with the exchange that writes fills and snapshots, the bucket
that may lose an object between check and fetch, and the collapse of fills. What
a build puts are the rows of the files it fetched (`RowsOf(got[b])`, `Sorted`).

**ContractSchedule** is `_PolymarketContractSchedule` with a consumer that
applies the events one by one as `README.md` 294-303 describes them;
**ContractLifecycle** is what the consumer may rely on.

**Discovery** is `discover_resolutions` for a series or a slug: the grid of
candidates, threads that take one each, the market with its retries (a 404 is
dropped in a series and fatal for a slug), the price at the start and at the
end, the payouts from whatever evidence the payload has, and the
exception if any candidate was given up. `Payout` falls through the sources for
each outcome on its own, as `_settlement_payout_from_payload` does: the winner
that is named, the outcome's price, its token's flag, the two quotes. A payload may
tell any of these of any outcomes (`Shapes`), so the two sides of a contract may be
paid from different sources. Gamma lists and resolves contracts
while the threads run; Vatic's prices settle, Binance's are proxies. `before`,
`proxied` and `told` are history variables. **DiscoveryPromise** is what a build may
expect: every wanted contract that was listed when the call began, none that is
not listed, or an exception.

**GoldenCompare** is `compare_canonical_to_live`: live events are sorted, a
cursor reads the slice in batches and holds one row ahead, skipping instruments
the capture does not have, and at each millisecond that touches books they are
compared (`count`). `Passes` is `check_polymarket_golden_thresholds`.

**RawMirror** is both mirror loops: planning (`PmxtTargets`, `HlTargets`), a
pool of `Workers`, the steps of a worker (`Look`, `Head`, `Get`, `Put`,
`Record`), an exception, the sum at the end and the exit code. Time runs in half
hours since the PMXT buffer is 30 minutes.

**Jobs** is what surrounds them: `run mirror`, `run slice`, `run all`, `submit`
and the scheduled slice of `infra/runtime`, over days. A window is resolved
when the process begins, `submit` turns dates into offsets of its own day, and
midnight may fall between any two steps.

## Runs

| run | question | instance |
|---|---|---|
| `book_bids` | Do both books and the reader stay consistent under any batches, also without best prices? | 3 prices, 2 sizes, depth 2, one side (the sides interact only through `replay_single`) |
| `book_depth` | violation: see findings | 3 prices, depth 2 |
| `replay_single` | Does a reader see the exchange's best prices, and never a crossed book, with lossy archives? | 3 prices, 2 sides, one row per millisecond |
| `replay_burst` | What remains when a millisecond has several rows? | 3 prices, 1 side, two rows per millisecond |
| `day_merge` | Does the merge implement the order of the day? | 3 hours, batch of 2, block of 3: batches end within files, an hour may be empty, hours may overlap |
| `discovery` | Is an answer complete, does each side pay rightly, and does the call end? | 2 threads, 2 slugs, 2 attempts, a series or one slug, seven shapes of payload, any request may fail |
| `shard_build` | Do a shard's files belong together, is a schedule a READY record vouches for kept, and does each look-up end with all answers, with deaths, races and incomplete discovery? | 2 builders, one depth, 2 hours, 2 contracts |
| `schedule` | Do the events implement the lifecycle, and does the consumer end up with the right contract? | six adjacent contracts of length 2, every subset as the schedule, any increasing stream |
| `raw_mirror` | Can records and exit code 0 be relied on, and does a command mirror what it has planned? | 2 mirrors, one hour of each dataset, one fault |
| `jobs` | Do dates, windows and exit codes agree? | 2 jobs under way, 2 jobs of users, 3 days, a window of two days fired every one or two days |
| `hl_slice` | Does a shard tell what happened at the exchange, and is its reader in step with it? | 2 hours, one millisecond with reports in each, 2 trades (or dust, or other coins), 2 snapshots, one lost object |
| `golden` | Does the report count what a replay of both files gives, and does a pass mean something? | all slices of up to 3 rows and captures of up to 2 lines, 2 instruments, 3 prices, batch of 2, depth 2 |

Bounds. Three prices let a level lie beyond the best price, at it and behind
the depth at once. Two of each racing process are enough for a lost update,
and one fault (die, raise or lose) at every place is what the code guards
against; more of them repeat the same cases. Shards of different depths share
only the coverage record, of which the proofs speak for all depths, so that
`shard_build` can do with one. Two attempts make a retried and a last one. `jobs` has windows of two days and gaps up to two for the monthly
schedule's 31 and 31: what counts is that the longest gap equals the window. In
`hl_slice` the strides are small enough for places of different hours to
overlap, as 10 000 and 1 000 000 do from line 100 of a file on. In `discovery` the
shapes are nothing at all, one side, both sides from one source or from two, and a
named winner beside live prices that lag; sides for which nothing is told go
to the quotes, so every place of the fall-through is left at both sides and at one
side alone. In `golden` the
batch is smaller than a slice, so that the cursor's row ahead may lie in the
next batch. `jobs` ends when its bounds are reached, `discovery` and `golden`
when the call returns, so these three do not check for deadlock; all other runs
do.

Each property has a mutant, an operator beside the one it mutates, that makes
TLC find a violation.

## Fairness

Three runs have a liveness property.

* `raw_mirror`: the threads of a running command proceed (WF), which each request's
  timeout justifies. Nothing is assumed of time, of upstream, of the outcome of a
  step, or that a command is started again. The schedules of
  `infra/runtime/__main__.py` 434-463 start mirrors over windows that slide (days -2
  to 0 every hour for PMXT, days -45 to -15 once a month for Hyperliquid), so a
  fairness that restarts a mirror over the same hours for ever would promise what
  the code does not. `PlannedGetsMirrored` is about one command: once nothing fails
  any more, it mirrors each published hour it has planned.
* `discovery`: each thread and the end of the call (WF). Requests have timeouts,
  so they end; all of them may fail.
* `shard_build`: DynamoDB answers some of the keys asked for in the end (a
  table that never has capacity left answers nothing), and a build at work
  proceeds (WF). Nothing is assumed of the steps behind the look-up.

## Proofs

The eight `*Proofs` modules are checked by TLAPS for every value of the
constants: all finite sets of prices, all depths, any number of builders,
mirrors, workers, threads, jobs, hours, days and contracts, any schedule and
stream, any files and sizes of batches and blocks. They rest on the named
assumptions of the modules, which TLC evaluates on every instance.

* `TypeCorrect` of each module but PmxtReplay and GoldenCompare.
* `PublishedStaysWithinFull`: `TypeOK` and the property are inductive together:
  a purge without output removes from `full` only what a purge with output
  removes from `published`, and exposing copies levels of `full`.
* `ReplayIsPublished`: the row's inserts and deletes, applied in their order,
  give the new published book; `RowReplaysPurge` says so of a purge.
* `ExposedArePublished` (an action property) from the definition of the exposed
  levels.
* `BestStaysTop`, `SuperiorArePurged`: for archives whose batches all carry best
  prices (`NoBound \notin Bounds`). The invariant is that the recorded best
  price is the top of the full book; without it the short-cut of
  `_repair_pm_delta_levels`, which suspects only the batch's levels when the
  best price advances, would leave stale levels. `TopExists` (a finite
  non-empty side has a top) rests on the library's theorems on finite sets.
* `FullIsMarket`, `FeedIsRepair`, `FeedKeepsBest`, `CompleteNeverCrossed`, for any
  number of rows in a millisecond: a complete record since a snapshot makes the full book the
  exchange's, and a repair that may meet every best price (`Covered`) is driven by
  the feed as BookRepair allows, whose theorems then hold of it; with a complete record the reader's book is
  not crossed. By `BurstInv`, as
  long as nothing is missing, what is queued either ends in a snapshot of the
  exchange's present book or is all that the full book lacks of it, with the sizes
  of the present book. `CollapseType` is about the SQL: MIN over a level's sizes is
  a size archived for it, which is the present one if no change was overtaken; no
  best price of the millisecond is beyond the one that MAX and MIN choose, hence no
  level of the exchange, and the purge that follows spares them all. `Ranks` numbers
  the places of the translated rows: a book that was archived last is written last.
* `ReaderNeverCrossed`, `TopIsMarketTop`: for archives with one row per millisecond
  (`Single`) and a `Covered` repair, no lost row makes the reader's book crossed, and
  a complete record makes the reader's top the exchange's. `FeedInv` says that the
  row under way tells the truth about an uncrossed book (`Told`), and, as long as
  nothing is missing, that it is all the full book lacks (`Completes`). A lossy record
  is never crossed since the two carried best prices are those of one uncrossed
  book and each is the top of its side, which is `BestStaysTop`. With several rows
  neither holds, since the best prices of a millisecond are those of different
  moments: the first may fail after a loss, the second without one.
* `MergeKeepsOrder` (DayMerge implements DayOrder), `KeysNameCursors`: from
  `IInv`, the heap holds a key for each cursor that has a row and no other, each
  cursor is past what was emitted of its hour and nothing else was. The smallest
  key is then the smallest row that remains, since a file is sorted and a
  cursor's row is the first of what its hour has left.
* `ReportIsExact` and `VerdictIsSound` for every slice, capture and size of
  batches, from `CompareInv`: the canonical state is the replay of the rows the
  cursor has passed, none of them later than the last live event (`CanonicalInv`);
  the live state is that of the events applied; `touched` holds the instruments of
  the millisecond at hand until it is sampled; and each counter has the sample
  points behind the comparison that count (`CountInv`). That a replay of one more
  entry is one more `Applied` needs the recursion of `Books` to have a solution,
  which the library's induction theorems cannot give here: `PrefixReplayed` takes
  the least length without one (`LeastNatural`). `OrderExists` and `OrderOfPrefix` do
  the same for the sorting of the capture: leaving out what is later than the slice
  cuts off the end of what the exchange sent. The verdict follows by counting.
* `CatalogTellsTheDay`, `SnapshotsInStep` for any number of builders, hours, fills,
  snapshots and losses, from `IInv`: `BlocksInv` (a block is shorter than the stride of places, so a
  fill written later stands later), `ClockInv` (a fill is in the file of its hour,
  nothing is written after its hour is over), `TradesInv` (there is a numbering of the
  trades by match, each has a taker's fill, and their first fills stand in the order
  of the trades), `ShotsInv` (snapshots are numbered in the order of their hours and
  lines, and no later one has an earlier time) and `BuildInv` (who is past the raw check works on a day that is
  over, so all builders put the same rows). `TradesInv` is what makes the collapse
  sound: without it two fills of a trade might be in two groups, or the counterpart's
  side might win. `SortExists` shows that the sort has a result (the place of a row is
  the number of those before it), `GroupRow` that the group of any fill of a trade
  collapses to the trade's row. `SnapshotOrder` shows that the sort key orders
  snapshots as they were taken, although the places of different hours overlap: the
  place decides within a millisecond only, and a millisecond lies in one hour.
  `TradesCounted` gives the bijection between the trades before a snapshot and those
  made up to its time.
* `RecordsHaveFiles`, `CoverageHasRecords`, `AnswersAreComplete` for any number
  of builders, from `OrderInv`: a builder past a put has its files in the bucket,
  since nothing deletes one, and a look-up has each hour answered or asked for.
* `SerialShardsCoherent`, `SerialNeverShrinks`, `SerialScheduleKept`,
  `SerialReadyLeftAlone`, for any number of builders, of each depth on which no two
  were ever at work at a time, from `SerialInv`: who is alone at work on a depth
  finds what it read from the catalog (`Undisturbed`), so a rebuild over a READY
  record reuses the stored schedule and the files under the record stay those of
  one set of contracts.
* `DiscoveryKeepsPromise` (Discovery implements DiscoveryPromise) for any number
  of threads, slugs and attempts, from `PoolInv`: a wanted contract that was
  listed when the call began is a candidate still, with a thread, given up or
  resolved. `PayoutsAlwaysSettle`, for every set of shapes, from `PayInv`: a thread's
  evidence is of the contract it has taken, and proxies and what the payload told
  are on record.
* `ConsumerFollows`, `LifecycleImplemented` (ContractSchedule implements
  ContractLifecycle) for every ladder of contracts, schedule and stream, from
  `ScheduleInv`: between two events of a call the consumer is in one of five
  phases (nothing to do, a first listing, an activation, a listing after a leap,
  a roll), each of which says what it has and which events wait.
* `RecordsFollowData`, `ZeroIsRecorded` for any number of mirrors beside each
  other, from `SafeInv`: upstream publishes after the hour only, and each worker
  knows something that no other process can take back (`Knows`): what it got is
  published, what it put was stored, what it found recorded, recorded itself or
  skipped has a record. Nothing removes a record, so races do no harm; objects
  may get lost, which is why the properties speak of `stored`.
* `JobsKeepDates`, `AllMirrorsFirst` from `DatesInv`: a job's request means what
  was asked for on the day it was made, a job that begins on that day resolves
  it to those dates, and a mirror that has not failed has mirrored the days it
  is done with, unless they were not over.
* `ZeroIsSliced` for any number of jobs, from `ExitInv`: while a job slices with
  code 0, the days it is done with have shards (`SlicedSoFar`).
* `ScheduleMissesNoDay` for every window and every set of gaps none of which is
  longer than the window (`WindowAssumption`), from `WindowInv`: the windows so
  far reach up to the next one (`WindowsJoin`), and each day in them was
  attempted or is with a job that carries it (`DueCarried`).

Only model-checked: the liveness properties `PreflightEnds`, `PlannedGetsMirrored`
and `DiscoveryEnds`, which are about fairness.

## What does not hold

The finding in `PROJECT.json`, shown by a run:

* A depth-limited reader may miss a level within the depth: levels are exposed
  only when the best price changes (`canonical.py` 1195), `README.md` 237-239
  promises them (`book_depth`).

Seen in the code, without a run of its own:

* From half past the hour the running hour is planned and requested
  (`pmxt.py` 113), against the docstring at 58-60. RawMirror has these hours.
* The golden comparison leaves out live events after the slice's last row
  (`golden.py` 110, 466), so a slice that ends too early passes: `ReportExact` is
  about the times the slice covers.
* A slice built before its contracts resolved has their live prices as payouts
  (`polymarket_metadata.py` 181), and a forced rebuild reuses the schedule
  (`canonical.py` 353): they stay. ShardBuild keeps contracts, not payouts.

Met while modelling, and the reason for a property's precondition:

* The best prices of a millisecond collapse to the most competitive ones. If
  they equal the recorded ones although the last change retreated, nothing is
  exposed, and the reader's top is not the exchange's. If the archive lost a
  change between them, a bid and an ask of different moments may cross in the
  reader's book. `TopTracksMarket` and `NeverCrossed` are checked, and proved, with
  one row per millisecond only.
* Two unforced builders: the one that looked before the shard was READY
  overwrites it afterwards (`canonical.py` 323). With a discovery that misses
  contracts the files of a shard may then be of two builds, so `ReadyLeftAlone`,
  `ShardsCoherent` and `ScheduleKept` leave out a depth on which two builders
  were at work at a time (`raced`).
* A contract announced as next without a row in the stream is never resolved;
  the consumer lists it beside the new next one. ContractLifecycle therefore
  allows the stream to leap over a contract; `README.md` 300 ("only the current
  contract and the next contract") does not hold then.
* A submission that begins after midnight works on the wrong dates, since it
  carries offsets (`submit.py` 82), and `run all` with offsets slices other days
  than it mirrored (`run.py` 179-187 and 203-211 resolve twice). `DatesAsAsked`
  speaks of jobs that begin on their day, and of one stage for offsets.
* Nothing slices a day again whose scheduled slice failed; `NoDayMissed` is
  about attempts.
* Nothing mirrors an hour again whose window has passed. A PMXT hour is planned on
  about three days; a Hyperliquid day falls in about one scheduled run (windows
  of 31 days, fired monthly, share three days at most), so an hour
  that is late, fails or is lost after that stays away until someone asks for it.
  `PlannedGetsMirrored` is about the hours a command has planned.
* A side of a contract settled by comparing a proxy price may pay the loser;
  `PayoutsSettle` excepts sides that Gamma told nothing of, with a price on record
  as Binance's.
* If Gamma tells of one side alone, the other goes to the quotes, or stays unknown,
  and the two need not be one bet: both may pay, or none, or a live price stand
  beside a settled one (`polymarket_metadata.py` 161-190). `PayoutsSettle` asks that
  each side pay rightly then, and that they be one bet in all other cases.

Assumed of the outside: final prices and flags agree with the winner, and only a
payload that names the winner may still carry live prices of a resolved market; an
open market's payload names no winner and flags no token, and its live prices sum
to a whole; upstream publishes an hour whole and after its end (a
part of an hour would be READY for ever); S3 and DynamoDB calls are atomic and
read what was written; the two fills of a trade are in one block, blocks of a
millisecond in one hour's file, fewer than 10 000 fills in a block.

## Not modelled

* Parsing of archives, levels, payloads, captures and trade rows; formats of
  keys; pydantic validation of single fields; logging and printing.
* The download of the golden fixture and its manifest (`golden.py` 248-351),
  which is tried once and changes nothing.
* HTTP sessions, their own retries and timeouts; streaming of objects.
* Resource declarations of the stacks; `job`, `schedule`, `data`, `infra` and
  `validate` commands, which change no state of the pipeline or are one call of
  an AWS API.
* Several depths in a Hyperliquid build, which differ in the levels cut off.

## Plan

Done: all components of the pipeline are modelled, and every invariant and action
property that the runs check is stated by a theorem. What is left: payouts in
ShardBuild's schedules, so that what a reused schedule keeps of discovery's answer
can be stated.
