------------------------------ MODULE HlSlice -------------------------------
(***************************************************************************)
(* The daily shard of a Hyperliquid market: build_hl_slice in canonical.py *)
(* and the collapse of fills in hyperliquid.py.                            *)
(*                                                                         *)
(* The exchange reports every trade as two fills, the taker's (crossed)    *)
(* and the maker's, among those of other markets, in the line of their     *)
(* block; a slice shows the trade once, with the taker's side.  Book       *)
(* snapshots come in files of their own.  There is a file of each kind for *)
(* every hour of the day; the files of an hour are complete when the hour  *)
(* is over, and mirroring one (module RawMirror) is one step here.         *)
(*                                                                         *)
(* Not modelled: the levels of a snapshot (a number stands for them), fills *)
(* with a malformed side, and several depths, which are different shards.  *)
(***************************************************************************)
EXTENDS Integers, Sequences, FiniteSets, SequencesExt

CONSTANTS
  HourCount,   \* 24
  Ticks,       \* milliseconds in an hour
  Moments,     \* milliseconds of the day at which the exchange reports
  LineStride,  \* 10 000: a fill's place is line * LineStride + event
  HourStride,  \* 1 000 000: added to places per hour
  Builders,    \* processes that build this shard
  MaxMatches,  \* bound: trades
  MaxBooks,    \* bound: snapshots
  MaxLosses    \* bound: objects lost

\* A block has fewer fills than LineStride.
ASSUME BoundsAssumption ==
  /\ {HourCount, Ticks, HourStride} \subseteq Nat \ {0}
  /\ {MaxMatches, MaxBooks, MaxLosses} \subseteq Nat
  /\ Moments \subseteq 0..(HourCount * Ticks - 1)
  /\ LineStride \in Nat /\ 2 * MaxMatches < LineStride

Hours == 0..(HourCount - 1)
Kinds == {"l2", "fills"}
Files == Kinds \X Hours
Sides == {"A", "B"}
Coins == {"this", "other"}

VARIABLES
  now,      \* time of the exchange
  fills,    \* per hour: lines, which are sequences of fills
  books,    \* per hour: lines, which are snapshots: time and number
  owed,     \* fills of the block that are still to be written
  trades,   \* trades of this market (history)
  matches,  \* trades of all markets, counted
  stored,   \* raw objects in the bucket
  recorded, \* raw objects with a READY record
  losses,
  pc,       \* per builder: its next step
  got,      \* per builder: files its rows come from
  data,     \* the shard's data.parquet, or NoData
  manifest, \* the shard's manifest, or NoRecord
  record,   \* the shard's catalog record, or NoRecord
  covered   \* the shard has a READY coverage record

exchange == <<now, fills, books, owed, trades, matches>>
mirror   == <<stored, recorded, losses>>
shard    == <<data, manifest, record, covered>>
vars     == <<exchange, mirror, pc, got, shard>>

NoData   == [found |-> FALSE, rows |-> <<>>]
NoRecord == [found |-> FALSE, count |-> 0, start |-> 0, end |-> 0]

Hour == now \div Ticks
DayOver == now = HourCount * Ticks
HourOver(h) == now >= (h + 1) * Ticks

-----------------------------------------------------------------------------
(* The exchange.  A fill: market, time, number of the trade (0: none),     *)
(* side, and whether it crossed.                                           *)

Fill(coin, tid, side, crossed) ==
  [coin |-> coin, time |-> now, tid |-> tid, side |-> side, crossed |-> crossed]

Opposite(side) == IF side = "A" THEN "B" ELSE "A"

\* Appends a fill to the block of this time, which may have to be begun.
Written(fill) ==
  LET lines == fills[Hour]
      here == lines # <<>> /\ Last(Last(lines)).time = now
  IN [fills EXCEPT ![Hour] =
        IF here THEN Append(Front(lines), Append(Last(lines), fill))
        ELSE Append(lines, <<fill>>)]

\* A trade; the other fill of it follows in the same block.
Match(coin, side, takerFirst) ==
  LET taker == Fill(coin, matches + 1, side, TRUE)
      maker == Fill(coin, matches + 1, Opposite(side), FALSE)
  IN /\ now \in Moments
     /\ matches < MaxMatches
     /\ matches' = matches + 1
     /\ fills' = Written(IF takerFirst THEN taker ELSE maker)
     /\ owed' = owed \cup {IF takerFirst THEN maker ELSE taker}
     /\ trades' = IF coin = "this" THEN Append(trades, [ts |-> now, side |-> side])
                  ELSE trades
     /\ UNCHANGED <<now, books, mirror, pc, got, shard>>

Counterpart(fill) ==
  /\ fill \in owed
  /\ owed' = owed \ {fill}
  /\ fills' = Written(fill)
  /\ UNCHANGED <<now, books, trades, matches, mirror, pc, got, shard>>

\* A conversion of dust is a fill without a trade.
Dust ==
  /\ now \in Moments
  /\ matches < MaxMatches
  /\ matches' = matches + 1
  /\ fills' = Written(Fill("this", 0, "A", FALSE))
  /\ UNCHANGED <<now, books, owed, trades, mirror, pc, got, shard>>

\* Places of snapshots: hour and line.
Snapshots == UNION {{<<h, l>> : l \in DOMAIN books[h]} : h \in Hours}

Book ==
  /\ now \in Moments
  /\ Cardinality(Snapshots) < MaxBooks
  /\ books' = [books EXCEPT ![Hour] =
       Append(@, [time |-> now, book |-> Cardinality(Snapshots) + 1])]
  /\ UNCHANGED <<now, fills, owed, trades, matches, mirror, pc, got, shard>>

Tick ==
  /\ ~DayOver
  /\ owed = {}
  /\ now' = now + 1
  /\ UNCHANGED <<fills, books, owed, trades, matches, mirror, pc, got, shard>>

-----------------------------------------------------------------------------
(* The bucket with raw objects.                                            *)

Mirror(f) ==
  /\ HourOver(f[2])
  /\ f \notin stored
  /\ stored' = stored \cup {f}
  /\ recorded' = recorded \cup {f}
  /\ UNCHANGED <<exchange, losses, pc, got, shard>>

Lose(f) ==
  /\ f \in stored
  /\ losses < MaxLosses
  /\ losses' = losses + 1
  /\ stored' = stored \ {f}
  /\ UNCHANGED <<exchange, recorded, pc, got, shard>>

-----------------------------------------------------------------------------
(* collapse_fill_trades: the fills of an hour, each with its place in the  *)
(* file, grouped by trade.                                                 *)

Fills(h) ==
  UNION {{[fill |-> fills[h][l][e], place |-> l * LineStride + e]
           : e \in DOMAIN fills[h][l]} : l \in DOMAIN fills[h]}

Kept(h) == {x \in Fills(h) : x.fill.coin = "this" /\ x.fill.tid # 0}

SameTrade(x, y) == x.fill.tid = y.fill.tid /\ x.fill.time = y.fill.time

Groups(h) == {{y \in Kept(h) : SameTrade(x, y)} : x \in Kept(h)}

Crossed(group) == {x \in group : x.fill.crossed}

\* Mutant of Canonical: any fill of the trade will do.
CanonicalAny(group) == CHOOSE x \in group : TRUE

\* _select_canonical_fill; the code prefers the smallest address.
Canonical(group) ==
  CHOOSE x \in IF Crossed(group) # {} THEN Crossed(group) ELSE group : TRUE

Place(group) == CHOOSE p \in {x.place : x \in group} : \A x \in group : p <= x.place

TradeRow(h, group) ==
  [kind |-> "trade", ts |-> Canonical(group).fill.time, side |-> Canonical(group).fill.side,
   book |-> 0, order |-> Place(group) + h * HourStride]

SnapshotRow(h, l) ==
  [kind |-> "l2_snapshot", ts |-> books[h][l].time, side |-> "none",
   book |-> books[h][l].book, order |-> l + h * HourStride]

Priority(row) == IF row.kind = "trade" THEN 0 ELSE 1

\* Mutant of Before: places alone decide, as if they grew over the day.
BeforeByPlace(a, b) == a.order < b.order

Before(a, b) ==
  \/ a.ts < b.ts
  \/ a.ts = b.ts /\ Priority(a) < Priority(b)
  \/ a.ts = b.ts /\ Priority(a) = Priority(b) /\ a.order < b.order

\* The rows that some of the day's files tell.
RowsOf(files) ==
  UNION ({{SnapshotRow(h, l) : l \in DOMAIN books[h]} : h \in {h \in Hours : <<"l2", h>> \in files}}
           \cup {{TradeRow(h, g) : g \in Groups(h)} : h \in {h \in Hours : <<"fills", h>> \in files}})

\* _translate_hl_payloads: those rows, sorted.
Sorted(files) ==
  CHOOSE rows \in SetToSeqs(RowsOf(files)) :
    \A i, j \in DOMAIN rows : i < j => ~Before(rows[j], rows[i])

-----------------------------------------------------------------------------
(* The build.                                                              *)

Step(b, next) == pc' = [pc EXCEPT ![b] = next]

ShardReady == record.found /\ data.found

\* Mutant of Begin: raw objects are not asked for.
BeginUnchecked(b, force) ==
  /\ pc[b] = "idle"
  /\ force \/ ~ShardReady
  /\ Step(b, "fetch")
  /\ got' = [got EXCEPT ![b] = {}]
  /\ UNCHANGED <<exchange, mirror, shard>>

\* The READY check, then the check that all raw objects are there.
Begin(b, force) ==
  /\ pc[b] = "idle"
  /\ force \/ ~ShardReady
  /\ Files \subseteq stored \cap recorded
  /\ Step(b, "fetch")
  /\ got' = [got EXCEPT ![b] = {}]
  /\ UNCHANGED <<exchange, mirror, shard>>

\* Objects are fetched concurrently.
Fetch(b, f) ==
  /\ pc[b] = "fetch"
  /\ f \in stored \ got[b]
  /\ got' = [got EXCEPT ![b] = @ \cup {f}]
  /\ UNCHANGED <<exchange, mirror, pc, shard>>

\* The three puts of _write_hl_shard and the coverage, once every fetch has
\* an answer; what they tell comes from the files of this build.
PutData(b) ==
  /\ pc[b] = "fetch"
  /\ got[b] = Files
  /\ data' = [found |-> TRUE, rows |-> Sorted(got[b])]
  /\ Step(b, "manifest")
  /\ UNCHANGED <<exchange, mirror, got, manifest, record, covered>>

Summary(rows) ==
  [found |-> TRUE, count |-> Len(rows),
   start |-> IF rows = <<>> THEN 0 ELSE Head(rows).ts,
   end |-> IF rows = <<>> THEN 0 ELSE Last(rows).ts]

PutManifest(b) ==
  /\ pc[b] = "manifest"
  /\ manifest' = Summary(Sorted(got[b]))
  /\ Step(b, "record")
  /\ UNCHANGED <<exchange, mirror, got, data, record, covered>>

PutRecord(b) ==
  /\ pc[b] = "record"
  /\ record' = Summary(Sorted(got[b]))
  /\ Step(b, "coverage")
  /\ UNCHANGED <<exchange, mirror, got, data, manifest, covered>>

PutCoverage(b) ==
  /\ pc[b] = "coverage"
  /\ covered' = TRUE
  /\ Step(b, "idle")
  /\ got' = [got EXCEPT ![b] = {}]
  /\ UNCHANGED <<exchange, mirror, data, manifest, record>>

\* A fetch raises on a lost object, a put may fail, the process may die.
Fail(b) ==
  /\ pc[b] # "idle"
  /\ Step(b, "idle")
  /\ got' = [got EXCEPT ![b] = {}]
  /\ UNCHANGED <<exchange, mirror, shard>>

-----------------------------------------------------------------------------

Init ==
  /\ now = 0
  /\ fills = [h \in Hours |-> <<>>]
  /\ books = [h \in Hours |-> <<>>]
  /\ owed = {}
  /\ trades = <<>>
  /\ matches = 0
  /\ stored = {}
  /\ recorded = {}
  /\ losses = 0
  /\ pc = [b \in Builders |-> "idle"]
  /\ got = [b \in Builders |-> {}]
  /\ data = NoData
  /\ manifest = NoRecord
  /\ record = NoRecord
  /\ covered = FALSE

Exchange ==
  \/ \E coin \in Coins, side \in Sides, first \in BOOLEAN : Match(coin, side, first)
  \/ \E fill \in owed : Counterpart(fill)
  \/ Dust \/ Book \/ Tick

Bucket == \E f \in Files : Mirror(f) \/ Lose(f)

Build(b) ==
  \/ \E force \in BOOLEAN : Begin(b, force)
  \/ \E f \in Files : Fetch(b, f)
  \/ PutData(b) \/ PutManifest(b) \/ PutRecord(b) \/ PutCoverage(b) \/ Fail(b)

Next == Exchange \/ Bucket \/ \E b \in Builders : Build(b)

Spec == Init /\ [][Next]_vars

-----------------------------------------------------------------------------
(* Properties.                                                             *)

FillType ==
  [coin : Coins, time : Nat, tid : Nat, side : Sides, crossed : BOOLEAN]

\* The type of the state; a shard is built of a day that is over, and covered
\* when it has a record.
TypeOK ==
  /\ now \in 0..(HourCount * Ticks)
  /\ fills \in [Hours -> Seq(Seq(FillType))]
  /\ books \in [Hours -> Seq([time : Nat, book : Nat])]
  /\ owed \subseteq FillType
  /\ trades \in Seq([ts : Nat, side : Sides])
  /\ matches \in 0..MaxMatches
  /\ stored \subseteq recorded /\ recorded \subseteq Files
  /\ losses \in 0..MaxLosses
  /\ pc \in [Builders -> {"idle", "fetch", "manifest", "record", "coverage"}]
  /\ got \in [Builders -> SUBSET Files]
  /\ \A b \in Builders : pc[b] # "idle" => DayOver
  /\ data.found \in BOOLEAN /\ manifest.found \in BOOLEAN /\ record.found \in BOOLEAN
  /\ covered \in BOOLEAN /\ (covered => record.found)

IsTrade(row) == row.kind = "trade"
IsSnapshot(row) == row.kind = "l2_snapshot"

\* The trade rows tell the trades of the exchange, one each, in their order.
TradesTold(rows) ==
  LET told == {i \in DOMAIN rows : IsTrade(rows[i])} IN
  \E at \in [DOMAIN trades -> told] :
    /\ \A n \in DOMAIN trades :
         rows[at[n]].ts = trades[n].ts /\ rows[at[n]].side = trades[n].side
    /\ \A m, n \in DOMAIN trades : m < n => at[m] < at[n]
    /\ \A i \in told : \E n \in DOMAIN trades : at[n] = i

\* The other rows tell its snapshots, one each.
SnapshotsTold(rows) ==
  LET told == {i \in DOMAIN rows : IsSnapshot(rows[i])} IN
  \E at \in [Snapshots -> told] :
    /\ \A s \in Snapshots : LET line == books[s[1]][s[2]] IN
         rows[at[s]].ts = line.time /\ rows[at[s]].book = line.book
    /\ \A r, s \in Snapshots : at[r] = at[s] => r = s
    /\ \A i \in told : \E s \in Snapshots : at[s] = i

\* A shard in the catalog tells what happened at the exchange: every trade of
\* the market once, with the taker's side, in the order of the trades, and
\* every snapshot; whatever hours came late, got lost on the way or were
\* fetched in which order, and however often a build died or was forced.
ShardTellsTheDay ==
  record.found =>
    /\ data.found
    /\ record.count = Len(data.rows)
    /\ TradesTold(data.rows)
    /\ SnapshotsTold(data.rows)

TradesRead(i) == {j \in 1..(i - 1) : IsTrade(data.rows[j])}
TradesBy(t) == {n \in DOMAIN trades : trades[n].ts <= t}

\* A reader of the shard is in step with the exchange at each snapshot (the
\* sort of _translate_hl_payloads, README.md "Consumer Ordering"): it has read
\* as many trades as the exchange had made up to that millisecond, and just
\* the snapshots that were taken earlier, several of them in a millisecond
\* included, although the places of an hour reach into those of the next.
BooksInStep ==
  record.found =>
    \A i \in DOMAIN data.rows : IsSnapshot(data.rows[i]) =>
      /\ Cardinality(TradesRead(i)) = Cardinality(TradesBy(data.rows[i].ts))
      /\ \A j \in DOMAIN data.rows : IsSnapshot(data.rows[j]) =>
           (j < i <=> data.rows[j].book < data.rows[i].book)

=============================================================================
