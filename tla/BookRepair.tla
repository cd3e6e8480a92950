----------------------------- MODULE BookRepair -----------------------------
(***************************************************************************)
(* The repair of one instrument's Polymarket order book while a day shard  *)
(* is written (_append_repaired_pm_row and what it calls in canonical.py). *)
(*                                                                         *)
(* The builder keeps two books per side: the full-depth book PMXT          *)
(* described, and the published book, which a reader obtains by replaying  *)
(* the depth-limited rows written so far.  Rows arrive in merge order: a   *)
(* snapshot replaces both books, a delta batch is applied to both, and the *)
(* exchange-provided best price that a batch carries decides which levels  *)
(* are stale (deletes are appended to the row) and whether deeper levels   *)
(* have become visible (inserts are appended).  The variable replay is the *)
(* book of such a reader (_apply_canonical_row in golden.py).              *)
(*                                                                         *)
(* A book is a function from prices to sizes, 0 meaning no level.  States  *)
(* are kept per instrument in the code and instruments never interact, so  *)
(* one instrument is modelled.  Trade rows touch no state and are left     *)
(* out.  A timestamp matters only through its equality with the previous   *)
(* batch's, which is the input `same`.                                     *)
(***************************************************************************)
EXTENDS Integers, FiniteSets

CONSTANTS
  Px,        \* price levels, in ticks
  Sz,        \* sizes a level may have
  Depth,     \* levels per side in the canonical file
  Sides,     \* sides of the book the instance exercises
  Bounds,    \* best prices a batch may carry, NoBound among them or not
  NoBound    \* Python's None: no best price

ASSUME PxAssumption      == Px \subseteq Int /\ IsFiniteSet(Px)
ASSUME SzAssumption      == Sz \subseteq Nat \ {0}
ASSUME DepthAssumption   == Depth \in Nat \ {0}
ASSUME SidesAssumption   == Sides \subseteq {"Buy", "Sell"}
ASSUME BoundsAssumption  == Bounds \subseteq Int \cup {NoBound}
ASSUME NoBoundAssumption == NoBound \notin Int

VARIABLES
  full,       \* state.full_bids / full_asks
  published,  \* state.published_bids / published_asks
  best,       \* state.best_bid / best_ask
  touched,    \* state.touched_bid_keys / touched_ask_keys
  bound,      \* best prices of the last row (NoBound after a snapshot)
  replay      \* the book of a reader that has applied every row written

vars == <<full, published, best, touched, bound, replay>>

-----------------------------------------------------------------------------

Book    == [Px -> Sz \cup {0}]
Updates == UNION {[S -> Sz \cup {0}] : S \in SUBSET Px}

Empty == [p \in Px |-> 0]

Levels(book) == {p \in Px : book[p] # 0}

\* p is a more competitive price than q on side s.
Better(s, p, q) == IF s = "Buy" THEN p > q ELSE p < q

\* The first Depth levels of a book, best price first.
TopDepth(s, book) ==
  {p \in Levels(book) :
     Cardinality({q \in Levels(book) : Better(s, q, p)}) < Depth}

Top(s, book) == CHOOSE p \in Levels(book) : \A q \in Levels(book) : ~Better(s, q, p)

\* Mutant of Apply: a price change's size is taken for a difference.
ApplyDifference(book, upd) ==
  [p \in Px |-> IF p \in DOMAIN upd THEN book[p] + upd[p] ELSE book[p]]

\* Set the levels of upd in book; size 0 deletes.
Apply(book, upd) == [p \in Px |-> IF p \in DOMAIN upd THEN upd[p] ELSE book[p]]

Drop(book, S) == [p \in Px |-> IF p \in S THEN 0 ELSE book[p]]

Keep(book, S) == [p \in Px |-> IF p \in S THEN book[p] ELSE 0]

-----------------------------------------------------------------------------
(* A delta batch, one side of it: upd holds the levels of the batch, b the *)
(* best price it carries, same whether its timestamp is the previous one.  *)

TouchedBy(s, upd, same) == (IF same THEN touched[s] ELSE {}) \cup DOMAIN upd

\* The carried best price is worse than the recorded one, or none is recorded.
Retreats(s, b) == best[s] = NoBound \/ Better(s, best[s], b)

\* Mutant of Suspects: levels that no longer change are never purged.
SuspectsOfBatch(s, upd, b, same) == DOMAIN upd

\* When the best price retreats every level it contradicts goes, except the
\* levels updated at this timestamp; otherwise only levels of this batch go.
Suspects(s, upd, b, same) ==
  IF Retreats(s, b) THEN Px \ TouchedBy(s, upd, same) ELSE DOMAIN upd

Stale(s, upd, b, same) ==
  IF b = NoBound THEN {} ELSE {p \in Suspects(s, upd, b, same) : Better(s, p, b)}

FullAfter(s, upd, b, same) == Drop(Apply(full[s], upd), Stale(s, upd, b, same))

\* Mutant of Purged: stale levels are purged from the full book only.
PurgedNothing(s, upd, b, same) == Apply(published[s], upd)

Purged(s, upd, b, same) == Drop(Apply(published[s], upd), Stale(s, upd, b, same))

\* Mutant of BestAfter: the carried best price is recorded as it is.
BestAsCarried(s, upd, b, same) == IF b = NoBound THEN best[s] ELSE b

BestAfter(s, upd, b, same) ==
  LET book == FullAfter(s, upd, b, same) IN
  CASE b = NoBound -> best[s]
    [] b # NoBound /\ Levels(book) # {} -> Top(s, book)
    [] OTHER -> b

\* Mutant of Exposed: deeper levels are never published.
ExposedNever(s, upd, b, same) == {}

\* Levels within Depth that the reader does not have, or has with another
\* size; looked for only when the carried best price differs from the record.
Exposed(s, upd, b, same) ==
  IF b # NoBound /\ b # best[s]
    THEN {p \in TopDepth(s, FullAfter(s, upd, b, same)) :
            Purged(s, upd, b, same)[p] # FullAfter(s, upd, b, same)[p]}
    ELSE {}

Inserts(s, upd, b, same) ==
  [p \in Exposed(s, upd, b, same) |-> FullAfter(s, upd, b, same)[p]]

\* Mutant of Deletes: computed before the batch's own levels are published.
DeletesOfOld(s, upd, b, same) ==
  [p \in Stale(s, upd, b, same) \cap Levels(published[s]) |-> 0]

Deletes(s, upd, b, same) ==
  [p \in Stale(s, upd, b, same) \cap Levels(Apply(published[s], upd)) |-> 0]

\* The side's part of the written row: its levels, then deletes, then inserts.
RowLevels(s, upd, b, same) ==
  <<upd, Deletes(s, upd, b, same), Inserts(s, upd, b, same)>>

\* A reader applies the levels of a row in the order they are written.
ReplayRow(book, row) == Apply(Apply(Apply(book, row[1]), row[2]), row[3])

-----------------------------------------------------------------------------

Init ==
  /\ full = [s \in Sides |-> Empty]
  /\ published = [s \in Sides |-> Empty]
  /\ best = [s \in Sides |-> NoBound]
  /\ touched = [s \in Sides |-> {}]
  /\ bound = [s \in Sides |-> NoBound]
  /\ replay = [s \in Sides |-> Empty]

\* A PMXT book event: the file gets its first Depth levels, the builder keeps
\* all of them.  The touched keys are left as they are.
Snapshot(book) ==
  /\ full' = book
  /\ published' = [s \in Sides |-> Keep(book[s], TopDepth(s, book[s]))]
  /\ best' = [s \in Sides |->
                IF Levels(book[s]) # {} THEN Top(s, book[s]) ELSE NoBound]
  /\ bound' = [s \in Sides |-> NoBound]
  /\ replay' = [s \in Sides |-> Keep(book[s], TopDepth(s, book[s]))]
  /\ UNCHANGED touched

\* The price changes of one millisecond, collapsed into one batch.
Delta(upd, b, same) ==
  /\ full' = [s \in Sides |-> FullAfter(s, upd[s], b[s], same)]
  /\ published' = [s \in Sides |->
       Apply(Purged(s, upd[s], b[s], same), Inserts(s, upd[s], b[s], same))]
  /\ best' = [s \in Sides |-> BestAfter(s, upd[s], b[s], same)]
  /\ touched' = [s \in Sides |-> TouchedBy(s, upd[s], same)]
  /\ bound' = b
  /\ replay' = [s \in Sides |->
       ReplayRow(replay[s], RowLevels(s, upd[s], b[s], same))]

Next ==
  \/ \E book \in [Sides -> Book] : Snapshot(book)
  \/ \E upd \in [Sides -> Updates], b \in [Sides -> Bounds], same \in BOOLEAN :
       Delta(upd, b, same)

Spec == Init /\ [][Next]_vars

-----------------------------------------------------------------------------
(* Properties.                                                             *)

\* Every variable keeps its type.
TypeOK ==
  /\ full \in [Sides -> Book]
  /\ published \in [Sides -> Book]
  /\ best \in [Sides -> Int \cup {NoBound}]
  /\ touched \in [Sides -> SUBSET Px]
  /\ bound \in [Sides -> Int \cup {NoBound}]
  /\ replay \in [Sides -> Book]

\* Every level a reader sees is one the builder still believes in, with the
\* same size: the two purges of canonical.py (with and without output) never
\* part ways, however snapshots and batches interleave.
PublishedWithinFull ==
  \A s \in Sides, p \in Px :
    published[s][p] # 0 => published[s][p] = full[s][p]

\* The deletes and inserts appended to the rows are exactly what brings a
\* reader from one published book to the next: replaying the file gives the
\* book the builder reasons about.
ReplayMatchesPublished == replay = published

\* When every batch carries its best prices, the recorded best price is the
\* top of the full book.
BestIsTop ==
  \A s \in Sides : Levels(full[s]) # {} => best[s] = Top(s, full[s])

\* When every batch carries its best prices: after a batch, the reader keeps
\* no level better than the price PMXT called the best, except levels that
\* were updated at that very timestamp.
SuperiorPurged ==
  \A s \in Sides : bound[s] # NoBound =>
    \A p \in Levels(replay[s]) : Better(s, p, bound[s]) => p \in touched[s]

\* The reader has every level of the first Depth ones, at its right size.
DepthReplayed(s) == \A p \in TopDepth(s, full[s]) : replay[s][p] = full[s][p]

\* A batch whose best price differs from the recorded one leaves the reader
\* with the full book's first Depth levels, whatever was missing before.
ExposedLevelsPublished ==
  [][\A s \in Sides :
       bound'[s] # NoBound /\ bound'[s] # best[s] => DepthReplayed(s)']_vars

\* What the README promises of the repair (src/README.md:237): a
\* depth-limited replay reconstructs the same top book after every row.
DepthLimitedReplay == \A s \in Sides : DepthReplayed(s)

=============================================================================
