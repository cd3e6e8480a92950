--------------------------- MODULE GoldenCompare ----------------------------
(***************************************************************************)
(* The golden comparison (compare_canonical_to_live in golden.py): books   *)
(* rebuilt from a slice's rows are compared with the books of a live       *)
(* capture, at every millisecond at which the capture touches a book.      *)
(* Live events are sorted and those after the slice's last row left out;   *)
(* the slice is read by a cursor, a batch at a time, one row ahead.        *)
(*                                                                         *)
(* Prices are ticks.  A side of a book maps each price to a size, 0 for    *)
(* none.                                                                   *)
(***************************************************************************)
EXTENDS Integers, Sequences, FiniteSets, SequencesExt

CONSTANTS
  Instruments,  \* the slice's and the capture's
  Prices,       \* ticks
  Slices,       \* slices to compare: rows in time order
  Captures,     \* live captures: books and price changes, as they were written
  Batch,        \* rows of a batch
  Depth,        \* levels compared
  None

(* Levels, and the rows and lines that carry them.                         *)

Sides == {"bids", "asks"}
Levels == [side : Sides, px : Prices, sz : Nat]
Change == [kind : {"snapshot"}, book : [Sides -> [Prices -> Nat]]]
            \cup [kind : {"delta"}, levels : Seq(Levels)]
Row == [ts : Int, inst : Instruments, change : Change]
Line == [ts : Int, seq : Int, inst : Instruments, change : Change]

ASSUME BatchAssumption == Batch \in Nat \ {0} /\ Depth \in Nat \ {0}
ASSUME NoneAssumption == None \notin Row
\* A day file is written in time order; a capture numbers its lines.
ASSUME SlicesAssumption ==
  \A file \in Slices : /\ file \in Seq(Row) /\ file # <<>>
                       /\ \A j, k \in DOMAIN file : j < k => file[j].ts <= file[k].ts
ASSUME CapturesAssumption ==
  \A file \in Captures : /\ file \in Seq(Line)
                         /\ \A j, k \in DOMAIN file : file[j].seq = file[k].seq => j = k

VARIABLES
  rows, lines,   \* the two files
  events,        \* the live events loaded, in order
  idx,           \* live events applied
  touched,       \* instruments of the millisecond at hand
  fetched, next, \* the cursor: rows of the batches fetched, rows taken of them
  current,       \* the cursor's row, one ahead of the rows applied
  applied,       \* rows applied
  live, canonical,  \* the two book states
  count,         \* the report's counters
  pc             \* "live", "seek", "advance" or "report"

inputs == <<rows, lines, events>>
cursor == <<fetched, next, current>>
compareVars == <<inputs, idx, touched, cursor, applied, live, canonical, count, pc>>

-----------------------------------------------------------------------------
(* Books.                                                                  *)

NoBook == [side \in Sides |-> [p \in Prices |-> 0]]
NoState == [i \in Instruments |-> NoBook]

\* A snapshot replaces the book, a delta sets levels in turn.
Applied(book, change) ==
  IF change.kind = "snapshot" THEN change.book
  ELSE FoldLeft(LAMBDA b, level : [b EXCEPT ![level.side][level.px] = level.sz],
                book, change.levels)

Held(levels) == {p \in Prices : levels[p] > 0}
Better(side, p, q) == IF side = "bids" THEN p > q ELSE p < q

\* The Depth best prices of a side, and the best.
TopPrices(book, side) ==
  {p \in Held(book[side]) :
     Cardinality({q \in Held(book[side]) : Better(side, q, p)}) < Depth}
Top1(book, side) == CHOOSE p \in Held(book[side]) : \A q \in Held(book[side]) : ~Better(side, q, p)

\* _top_state gives nothing for a book without a side.
HasTop(book) == \A side \in Sides : Held(book[side]) # {}

Diff(l, c, side) == LET d == Top1(c, side) - Top1(l, side) IN IF d < 0 THEN -d ELSE d
Crossed(c) == Top1(c, "bids") >= Top1(c, "asks")
SameTop1(l, c) == \A side \in Sides : Diff(l, c, side) = 0
SameTop1Sizes(l, c) ==
  SameTop1(l, c) /\ \A side \in Sides : c[side][Top1(c, side)] = l[side][Top1(l, side)]
WithinTick(l, c) == \A side \in Sides : Diff(l, c, side) <= 1
SameTops(l, c) == \A side \in Sides : TopPrices(l, side) = TopPrices(c, side)
SameTopSizes(l, c) ==
  SameTops(l, c) /\ \A side \in Sides : \A p \in TopPrices(c, side) : c[side][p] = l[side][p]

Counters == {"snapshots", "missing", "compared", "crossed", "top1", "top1_sizes", "tick",
             "tops", "tops_sizes"}

\* Whether the sample of a live book l and a canonical book c counts.
Counts(what, l, c) ==
  /\ HasTop(l)
  /\ CASE what = "snapshots" -> TRUE
       [] what = "missing" -> ~HasTop(c)
       [] what = "compared" -> HasTop(c)
       [] what = "crossed" -> HasTop(c) /\ Crossed(c)
       [] what = "top1" -> HasTop(c) /\ SameTop1(l, c)
       [] what = "top1_sizes" -> HasTop(c) /\ SameTop1Sizes(l, c)
       [] what = "tick" -> HasTop(c) /\ WithinTick(l, c)
       [] what = "tops" -> HasTop(c) /\ SameTops(l, c)
       [] what = "tops_sizes" -> HasTop(c) /\ SameTopSizes(l, c)

-----------------------------------------------------------------------------
(* The comparison.                                                         *)

MinTs == rows[1].ts
MaxTs == rows[Len(rows)].ts

Earlier(e, f) == e.ts < f.ts \/ (e.ts = f.ts /\ e.seq < f.seq)

\* _load_live_events: the lines of books and price changes, sorted by time and
\* capture sequence.
Entries(file) == {file[k] : k \in DOMAIN file}
InOrder(S) ==
  CHOOSE s \in SetToSeqs(S) : \A j, k \in DOMAIN s : j < k => Earlier(s[j], s[k])
Loaded(file, maxTs) == InOrder({line \in Entries(file) : line.ts <= maxTs})

\* The instruments of the events; the cursor skips the rows of others.
Captured == {events[k].inst : k \in DOMAIN events}

CompareInit ==
  /\ rows \in Slices
  /\ lines \in Captures
  /\ events = Loaded(lines, MaxTs)
  /\ idx = 0 /\ touched = {}
  /\ fetched = 0 /\ next = 0 /\ current = None
  /\ applied = 0
  /\ live = NoState /\ canonical = NoState
  /\ count = [what \in Counters |-> 0]
  /\ pc = "seek"

Ts == events[idx].ts

\* The loop of the rows and of the live events come back here.
Resume == IF idx = 0 THEN "live" ELSE "advance"

Smaller(a, b) == IF a < b THEN a ELSE b

\* _load_next_batch.
FetchBatch ==
  /\ pc = "seek"
  /\ next = fetched
  /\ fetched < Len(rows)
  /\ fetched' = Smaller(fetched + Batch, Len(rows))
  /\ UNCHANGED <<inputs, idx, touched, next, current, applied, live, canonical, count, pc>>

\* Mutant of FileEnd: the end of a batch is taken for the end of the file.
BatchEnd ==
  /\ pc = "seek"
  /\ next = fetched
  /\ fetched > 0
  /\ current' = None
  /\ pc' = Resume
  /\ UNCHANGED <<inputs, idx, touched, fetched, next, applied, live, canonical, count>>

FileEnd ==
  /\ pc = "seek"
  /\ next = fetched
  /\ fetched = Len(rows)
  /\ current' = None
  /\ pc' = Resume
  /\ UNCHANGED <<inputs, idx, touched, fetched, next, applied, live, canonical, count>>

\* _load_next_row takes a row, and holds it if the capture has its instrument.
TakeRow ==
  /\ pc = "seek"
  /\ next < fetched
  /\ next' = next + 1
  /\ IF rows[next + 1].inst \in Captured
       THEN current' = rows[next + 1] /\ pc' = Resume
       ELSE UNCHANGED <<current, pc>>
  /\ UNCHANGED <<inputs, idx, touched, fetched, applied, live, canonical, count>>

\* All live events of a millisecond are applied; one before the slice's first
\* row is not sampled.
LiveEvent ==
  /\ pc = "live"
  /\ idx < Len(events)
  /\ LET e == events[idx + 1]
         last == idx + 2 > Len(events) \/ events[idx + 2].ts # e.ts
         now == touched \cup {e.inst}
     IN /\ live' = [live EXCEPT ![e.inst] = Applied(@, e.change)]
        /\ touched' = IF last /\ e.ts < MinTs THEN {} ELSE now
        /\ pc' = IF last /\ e.ts >= MinTs THEN "advance" ELSE "live"
  /\ idx' = idx + 1
  /\ UNCHANGED <<inputs, cursor, applied, canonical, count>>

\* The row at hand belongs to the sample.
Due == current # None /\ current.ts <= Ts

\* advance_until applies the row it holds and looks for the next.
AdvanceRow ==
  /\ pc = "advance"
  /\ Due
  /\ canonical' = [canonical EXCEPT ![current.inst] = Applied(@, current.change)]
  /\ applied' = applied + 1
  /\ pc' = "seek"
  /\ UNCHANGED <<inputs, idx, touched, cursor, live, count>>

\* ... until it holds a later row, or none; then the books touched are compared.
Sample ==
  /\ pc = "advance"
  /\ ~Due
  /\ count' = [what \in Counters |->
       count[what] + Cardinality({i \in touched : Counts(what, live[i], canonical[i])})]
  /\ touched' = {}
  /\ pc' = "live"
  /\ UNCHANGED <<inputs, idx, cursor, applied, live, canonical>>

Report ==
  /\ pc = "live"
  /\ idx = Len(events)
  /\ pc' = "report"
  /\ UNCHANGED <<inputs, idx, touched, cursor, applied, live, canonical, count>>

CompareNext ==
  \/ FetchBatch
  \/ FileEnd
  \/ TakeRow
  \/ LiveEvent
  \/ AdvanceRow
  \/ Sample
  \/ Report

CompareSpec == CompareInit /\ [][CompareNext]_compareVars

-----------------------------------------------------------------------------
(* The verdict.                                                            *)

\* The default thresholds, in ten-thousandths.
Thresholds == [top1 |-> 9990, tick |-> 9999, tops |-> 9900]

\* Mutant of RateMeets: the rate of no comparison is taken for a perfect one.
RateOfNothing(what) ==
  count["compared"] = 0 \/ count[what] * 10000 >= Thresholds[what] * count["compared"]

\* check_polymarket_golden_thresholds: the rate of nothing counts as -1.
RateMeets(what) ==
  /\ count["compared"] > 0
  /\ count[what] * 10000 >= Thresholds[what] * count["compared"]

\* No threshold errors.
Passes ==
  /\ count["missing"] = 0
  /\ count["crossed"] = 0
  /\ \A what \in DOMAIN Thresholds : RateMeets(what)

-----------------------------------------------------------------------------
(* Properties.                                                             *)

\* The books of an instrument after each entry of a file, the entries after time
\* t left out, and its book at time t.
Books(file, i, t) ==
  LET book[k \in 0..Len(file)] ==
        IF k = 0 THEN NoBook
        ELSE IF file[k].inst = i /\ file[k].ts <= t THEN Applied(book[k - 1], file[k].change)
        ELSE book[k - 1]
  IN book
Replay(file, i, t) == Books(file, i, t)[Len(file)]

\* The capture in the order the exchange sent it.
Sent == InOrder(Entries(lines))

\* The samples the report is about: the books the capture touches, at the
\* times the slice covers.
SamplePoints ==
  {s \in Captured \X (MinTs..MaxTs) :
     \E k \in DOMAIN Sent : s = <<Sent[k].inst, Sent[k].ts>>}

\* The report counts each sample once, of the books as a replay of both files
\* up to and with that millisecond gives them: it depends on no batch, on no
\* row of another instrument, and on no order of the capture's lines.
ReportExact ==
  pc = "report" =>
    \A what \in Counters :
      count[what] = Cardinality({s \in SamplePoints :
        Counts(what, Replay(Sent, s[1], s[2]), Replay(rows, s[1], s[2]))})

\* A comparison passes only if there was something to compare, the slice has
\* both sides of every sampled book, never crossed, and the levels compared differ in
\* price in at most one sample of a hundred.
VerdictSound ==
  pc = "report" /\ Passes =>
    LET l(s) == Replay(Sent, s[1], s[2])
        c(s) == Replay(rows, s[1], s[2])
        whole == {s \in SamplePoints : HasTop(l(s))}
    IN /\ whole # {}
       /\ \A s \in whole : HasTop(c(s)) /\ ~Crossed(c(s))
       /\ 100 * Cardinality({s \in whole : ~SameTops(l(s), c(s))}) <= Cardinality(whole)

=============================================================================
