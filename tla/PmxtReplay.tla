----------------------------- MODULE PmxtReplay -----------------------------
(***************************************************************************)
(* From the exchange to a reader of the canonical file: an exchange book,  *)
(* the PMXT archive that records it, the SQL translation that collapses    *)
(* the price changes of a millisecond (_PMXT_TRANSLATE_SQL_TEMPLATE in     *)
(* canonical.py), and the repair of BookRepair.                            *)
(*                                                                         *)
(* The exchange and the archive are outside the repository.  They are      *)
(* modelled by what the translation relies on: a price_change row gives    *)
(* the new size of one level and the best prices after the change, a book  *)
(* row gives the whole book, rows are archived in order, and any row may   *)
(* be missing.  The file is finished before the builder reads it, so how   *)
(* exchange and builder interleave does not matter: a millisecond is       *)
(* recorded, translated and written before the next one begins.            *)
(***************************************************************************)
EXTENDS BookRepair, Sequences, FiniteSetsExt

CONSTANTS
  MaxBurst,  \* most archived rows in one millisecond
  EmptyBest  \* the best price the exchange reports for an empty side

ASSUME MaxBurstAssumption == MaxBurst \in Nat \ {0}
ASSUME EmptyBestAssumption ==
  \A s \in Sides : EmptyBest[s] \in Int /\ \A p \in Px : Better(s, p, EmptyBest[s])

VARIABLES
  market,   \* the exchange's book
  recorded, \* archived rows of the current millisecond
  rows,     \* translated rows of it that the builder has not written yet
  synced    \* a snapshot was archived, and every change after it, none of
            \* which the collapse of its millisecond loses

feedVars == <<market, recorded, rows, synced>>
replayVars == <<vars, feedVars>>

-----------------------------------------------------------------------------
(* The exchange.                                                           *)

BestOf(book) ==
  [s \in Sides |-> IF Levels(book[s]) # {} THEN Top(s, book[s]) ELSE EmptyBest[s]]

\* An exchange matches crossing orders: its bids stay below its asks.
Uncrossed(book) ==
  \A s, t \in Sides : s # t =>
    \A p \in Levels(book[s]), q \in Levels(book[t]) : Better(s, q, p)

ChangeRow(s, p, z) ==
  [kind |-> "price_change", side |-> s, px |-> p, sz |-> z,
   best |-> BestOf([market EXCEPT ![s][p] = z])]

BookRow == [kind |-> "book", book |-> market]

-----------------------------------------------------------------------------
(* The translation of one millisecond.                                     *)

Changes == {i \in DOMAIN recorded : recorded[i].kind = "price_change"}
ChangesOf(s) == {i \in Changes : recorded[i].side = s}

\* Mutant of CollapsedLevels: levels of size 0 are dropped.
CollapsedNonZero(s) ==
  [p \in {recorded[i].px : i \in {j \in ChangesOf(s) : recorded[j].sz # 0}} |->
     Min({recorded[i].sz : i \in {j \in ChangesOf(s) : recorded[j].px = p}})]

\* GROUP BY side and price, MIN(size).
CollapsedLevels(s) ==
  [p \in {recorded[i].px : i \in ChangesOf(s)} |->
     Min({recorded[i].sz : i \in {j \in ChangesOf(s) : recorded[j].px = p}})]

\* MAX(best_bid), MIN(best_ask) over the whole millisecond.
CollapsedBest(s) ==
  LET bests == {recorded[i].best[s] : i \in Changes}
  IN IF s = "Buy" THEN Max(bests) ELSE Min(bests)

DeltaRow ==
  [kind |-> "delta_batch", levels |-> [s \in Sides |-> CollapsedLevels(s)],
   best |-> [s \in Sides |-> CollapsedBest(s)]]

\* All changes become one row, placed at the first of them; book rows keep
\* their places (ORDER BY of the merge: timestamp, hour, row number).
RowAt(i) == IF recorded[i].kind = "book" THEN recorded[i] ELSE DeltaRow

Placed == {i \in DOMAIN recorded : recorded[i].kind = "book" \/ i = Min(Changes)}

TranslatedRows ==
  [k \in 1..Cardinality(Placed) |->
     RowAt(CHOOSE i \in Placed : Cardinality({j \in Placed : j <= i}) = k)]

-----------------------------------------------------------------------------

FeedInit ==
  /\ Init
  /\ market \in {book \in [Sides -> Book] : Uncrossed(book)}
  /\ recorded = <<>>
  /\ rows = <<>>
  /\ synced = FALSE

\* A change loses its place in the millisecond: an earlier change of the level
\* is collapsed with it, or it is moved before a book row.
Displaced(s, p) ==
  \E i \in DOMAIN recorded :
    \/ recorded[i].kind = "book"
    \/ recorded[i].kind = "price_change" /\ recorded[i].side = s /\ recorded[i].px = p

\* The exchange changes a level and the archive records it.
Change(s, p, z) ==
  /\ rows = <<>>
  /\ Len(recorded) < MaxBurst
  /\ market[s][p] # z
  /\ Uncrossed([market EXCEPT ![s][p] = z])
  /\ market' = [market EXCEPT ![s][p] = z]
  /\ recorded' = Append(recorded, ChangeRow(s, p, z))
  /\ synced' = (synced /\ ~Displaced(s, p))
  /\ UNCHANGED <<vars, rows>>

\* The exchange changes a level and the archive misses it.
LostChange(s, p, z) ==
  /\ rows = <<>>
  /\ market[s][p] # z
  /\ Uncrossed([market EXCEPT ![s][p] = z])
  /\ market' = [market EXCEPT ![s][p] = z]
  /\ synced' = FALSE
  /\ UNCHANGED <<vars, recorded, rows>>

\* The archive records the whole book.
BookEvent ==
  /\ rows = <<>>
  /\ Len(recorded) < MaxBurst
  /\ recorded' = Append(recorded, BookRow)
  /\ synced' = TRUE
  /\ UNCHANGED <<vars, market, rows>>

\* The millisecond is over and is translated.
Translate ==
  /\ recorded # <<>>
  /\ rows' = TranslatedRows
  /\ recorded' = <<>>
  /\ UNCHANGED <<vars, market, synced>>

\* The builder writes the next row and the reader applies it.
WriteSnapshot ==
  /\ rows # <<>>
  /\ Head(rows).kind = "book"
  /\ Snapshot(Head(rows).book)
  /\ rows' = Tail(rows)
  /\ UNCHANGED <<market, recorded, synced>>

WriteDelta ==
  /\ rows # <<>>
  /\ Head(rows).kind = "delta_batch"
  /\ Delta(Head(rows).levels, Head(rows).best, FALSE)
  /\ rows' = Tail(rows)
  /\ UNCHANGED <<market, recorded, synced>>

FeedNext ==
  \/ \E s \in Sides, p \in Px, z \in Sz \cup {0} : Change(s, p, z)
  \/ \E s \in Sides, p \in Px, z \in Sz \cup {0} : LostChange(s, p, z)
  \/ BookEvent
  \/ Translate
  \/ WriteSnapshot
  \/ WriteDelta

FeedSpec == FeedInit /\ [][FeedNext]_replayVars

-----------------------------------------------------------------------------
(* Properties, of the moments between two milliseconds.                    *)

Settled == recorded = <<>> /\ rows = <<>>

\* After a snapshot and a complete record, the builder's full book is the
\* exchange's: translation and repair invent and lose nothing, unless a level
\* changes twice in a millisecond or a change follows a book row in it.
FullTracksMarket == Settled /\ synced => full = market

\* ... and the reader, who sees Depth levels only, has the exchange's best
\* price on each side, at its size (src/README.md:237, "reconstructs the same
\* top book").
TopTracksMarket ==
  Settled /\ synced =>
    \A s \in Sides :
      /\ Levels(market[s]) = {} => Levels(replay[s]) = {}
      /\ Levels(market[s]) # {} =>
           /\ Levels(replay[s]) # {}
           /\ Top(s, replay[s]) = Top(s, market[s])
           /\ replay[s][Top(s, market[s])] = market[s][Top(s, market[s])]

\* Whatever rows the archive lost, the reader's book is never crossed: the
\* purge of stale superior levels on both sides keeps bids below asks.
NeverCrossed == Settled => Uncrossed(replay)

=============================================================================
