------------------------------ MODULE DayMerge ------------------------------
(***************************************************************************)
(* Merging the hours of a date into its day file: _slice_pmxt_for_date,    *)
(* _PMTranslatedCursor and _write_pm_repaired_day_file in canonical.py.    *)
(*                                                                         *)
(* Every hour of the raw archive is translated into a file of its own.     *)
(* The files that have rows are sorted, and opened with a cursor each,     *)
(* which holds one batch of rows in memory; a heap of the cursors' first   *)
(* keys yields the rows of the day in order.  They are repaired (module    *)
(* BookRepair; it neither drops nor adds rows) and written in blocks.      *)
(*                                                                         *)
(* A row is <<ts_ms, source_row_number>>.  Nothing relates the timestamps  *)
(* of an hour's file to that hour, nor the row numbers to the timestamps.  *)
(* The sorting of one file is DuckDB's: Files holds sorted files.          *)
(***************************************************************************)
EXTENDS Naturals, Sequences

CONSTANTS
  Hours,      \* number of hours of a date (24)
  Files,      \* what the hours may translate to, sorted
  BatchSize,  \* rows a cursor loads at once (65536)
  BlockSize   \* rows that are written at once (65536)

SortedFile(f) ==
  \A i, j \in DOMAIN f : i < j =>
    \/ f[i][1] < f[j][1]
    \/ f[i][1] = f[j][1] /\ f[i][2] < f[j][2]

ASSUME HoursAssumption == Hours \in Nat
ASSUME FilesAssumption ==
  \A f \in Files : f \in Seq(Nat \X Nat) /\ SortedFile(f)
ASSUME BatchSizeAssumption == BatchSize \in Nat \ {0}
ASSUME BlockSizeAssumption == BlockSize \in Nat \ {0}

VARIABLES
  file,     \* per hour: its translated rows
  hour,     \* hours that are translated
  paths,    \* translated_paths: the hours that have rows
  opened,   \* number of paths that are sorted and opened
  cursors,  \* the cursors, in the order they were opened
  heap,     \* keys of the cursors that have rows left
  out,      \* rows that are not written yet
  written,  \* rows of data.parquet
  closed    \* the writer is closed

vars == <<file, hour, paths, opened, cursors, heap, out, written, closed>>

-----------------------------------------------------------------------------

\* A cursor of the hour h, before its first batch is loaded: index is the
\* place of its current row in the file, loaded the end of its batch.
Cursor(h) == [hour |-> h, index |-> 1, loaded |-> 0]

\* Mutant of WithNextBatch: the last batch is as long as the others.
WithWholeBatch(c) == [c EXCEPT !.loaded = c.loaded + BatchSize]

\* load_next_batch
WithNextBatch(c) ==
  [c EXCEPT !.loaded =
     IF c.loaded + BatchSize <= Len(file[c.hour]) THEN c.loaded + BatchSize
     ELSE Len(file[c.hour])]

HasNextBatch(c) == c.loaded < Len(file[c.hour])

\* advance: what the cursor is after it, and whether it has a current row.
Stepped(c) == [c EXCEPT !.index = c.index + 1]

Advanced(c) ==
  IF c.index < c.loaded THEN Stepped(c) ELSE WithNextBatch(Stepped(c))

\* Mutant of Advances: the end of a batch is taken for the end of the file.
AdvancesInBatch(c) == c.index < c.loaded

Advances(c) == c.index < c.loaded \/ HasNextBatch(c)

\* The current row's place in the day, and its key in the heap, which ends
\* with the index of the source: source_index counts from 1 here.
Place(c) == <<file[c.hour][c.index][1], c.hour, file[c.hour][c.index][2]>>

Key(c, source) ==
  <<file[c.hour][c.index][1], c.hour, file[c.hour][c.index][2], source>>

KeyBefore(k, l) ==
  \E n \in 1..4 : k[n] < l[n] /\ \A m \in 1..(n - 1) : k[m] = l[m]

-----------------------------------------------------------------------------

Init ==
  /\ file \in [1..Hours -> Files]
  /\ hour = 0
  /\ paths = <<>>
  /\ opened = 0
  /\ cursors = <<>>
  /\ heap = {}
  /\ out = <<>>
  /\ written = <<>>
  /\ closed = FALSE

\* Mutant of Translate: an hour without rows keeps its path.
TranslateAll ==
  /\ hour < Hours
  /\ hour' = hour + 1
  /\ paths' = Append(paths, hour + 1)
  /\ UNCHANGED <<file, opened, cursors, heap, out, written, closed>>

\* The next hour is translated; a file without rows is removed at once.
Translate ==
  /\ hour < Hours
  /\ hour' = hour + 1
  /\ paths' = IF file[hour + 1] # <<>> THEN Append(paths, hour + 1) ELSE paths
  /\ UNCHANGED <<file, opened, cursors, heap, out, written, closed>>

\* The next path is sorted and opened.  The source index is the path's, the
\* cursor's place in the list is that of the cursors that had a first batch.
Open ==
  /\ hour = Hours
  /\ opened < Len(paths)
  /\ opened' = opened + 1
  /\ LET c == Cursor(paths[opened + 1]) IN
     IF HasNextBatch(c)
       THEN /\ cursors' = Append(cursors, WithNextBatch(c))
            /\ heap' = heap \cup {Key(WithNextBatch(c), opened + 1)}
       ELSE UNCHANGED <<cursors, heap>>
  /\ UNCHANGED <<file, hour, paths, out, written, closed>>

\* flush_out when a block is full.
Write(rows) ==
  IF Len(rows) >= BlockSize
    THEN out' = <<>> /\ written' = written \o rows
    ELSE out' = rows /\ UNCHANGED written

\* The smallest key leaves the heap; the cursor it names gives the row.
Pop(k) ==
  /\ hour = Hours
  /\ opened = Len(paths)
  /\ k \in heap
  /\ \A l \in heap \ {k} : KeyBefore(k, l)
  /\ k[4] \in DOMAIN cursors
  /\ LET c == cursors[k[4]] IN
     /\ Write(Append(out, Place(c)))
     /\ cursors' = [cursors EXCEPT ![k[4]] = Advanced(c)]
     /\ heap' = (heap \ {k}) \cup
                (IF Advances(c) THEN {Key(Advanced(c), k[4])} ELSE {})
  /\ UNCHANGED <<file, hour, paths, opened, closed>>

\* The rest is written and the file is closed.
Close ==
  /\ hour = Hours
  /\ opened = Len(paths)
  /\ heap = {}
  /\ ~closed
  /\ closed' = TRUE
  /\ written' = written \o out
  /\ out' = <<>>
  /\ UNCHANGED <<file, hour, paths, opened, cursors, heap>>

Next == Translate \/ Open \/ (\E k \in heap : Pop(k)) \/ Close

Done == closed /\ UNCHANGED vars

Spec == Init /\ [][Next \/ Done]_vars

-----------------------------------------------------------------------------
(* Properties.                                                             *)

\* The rows of the date, by their places.
RowsOf(h) == {<<file[h][i][1], h, file[h][i][2]>> : i \in DOMAIN file[h]}

Rows == UNION {RowsOf(h) : h \in 1..Hours}

Emitted == written \o out

CursorType == [hour : 1..Hours, index : Nat \ {0}, loaded : Nat]

TypeOK ==
  /\ file \in [1..Hours -> Files]
  /\ hour \in 0..Hours
  /\ paths \in Seq(1..Hours)
  /\ opened \in 0..Len(paths)
  /\ cursors \in Seq(CursorType)
  /\ \A n \in DOMAIN cursors :
       /\ cursors[n].index <= cursors[n].loaded + 1
       /\ cursors[n].loaded <= Len(file[cursors[n].hour])
  /\ heap \subseteq Nat \X (1..Hours) \X Nat \X (1..Hours)
  /\ out \in Seq(Nat \X (1..Hours) \X Nat)
  /\ Len(out) < BlockSize
  /\ written \in Seq(Nat \X (1..Hours) \X Nat)
  /\ closed \in BOOLEAN

\* A key in the heap leads back to the cursor it was taken from, which still
\* stands on that row: the place of a path among the paths and that of its
\* cursor among the cursors never part, whichever hours have no rows.
HeapNamesCursors ==
  \A k \in heap :
    /\ k[4] \in DOMAIN cursors
    /\ cursors[k[4]].index <= cursors[k[4]].loaded
    /\ Place(cursors[k[4]]) = <<k[1], k[2], k[3]>>

Order == INSTANCE DayOrder WITH rows <- Rows, emitted <- Emitted

\* The day file grows by the first of the remaining rows, and by nothing else
\* (docstring of _slice_pmxt_for_date): it is sorted at any time and has no
\* row twice, whichever way the hours' timestamps overlap, and when it is
\* closed no row is lost between batches, hours or blocks.
DayOrderSpec == Order!Spec

=============================================================================
