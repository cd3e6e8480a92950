-------------------------- MODULE PmxtReplayProofs --------------------------
(***************************************************************************)
(* Theorems about BookRepair, for every price ladder, set of sizes, depth  *)
(* and set of bounds; and about PmxtReplay, which feeds it, for every loss *)
(* of rows.  However many rows fall into a millisecond, the feed drives    *)
(* the repair as BookRepair allows and a complete record makes the         *)
(* builder's full book the exchange's (BurstInv).  When a millisecond has  *)
(* one archived row, a reader's book is never crossed and a complete       *)
(* record gives the reader the exchange's best prices (FeedInv).           *)
(***************************************************************************)
EXTENDS PmxtReplay, FiniteSetTheorems, SequenceTheorems, WellFoundedInduction,
        TLAPS

-----------------------------------------------------------------------------
(* The repair of a book (BookRepair).                                      *)

\* The price order of either side is a strict total order on Int.
LEMMA BetterOrder ==
  ASSUME NEW s, NEW p \in Int, NEW q \in Int, NEW r \in Int
  PROVE  /\ ~Better(s, p, p)
         /\ Better(s, p, q) /\ Better(s, q, r) => Better(s, p, r)
         /\ p # q => Better(s, p, q) \/ Better(s, q, p)
         /\ ~Better(s, p, q) /\ ~Better(s, q, r) => ~Better(s, p, r)
BY DEF Better

\* A finite set of prices has a best one (max() and min() of a non-empty
\* collection).
LEMMA BestExists ==
  ASSUME NEW s, NEW L \in SUBSET Int, IsFiniteSet(L), L # {}
  PROVE  \E p \in L : \A q \in L : ~Better(s, q, p)
<1> DEFINE Above(p) == {q \in L : Better(s, q, p)}
           T == {Above(p) : p \in L}
<1>2. IsWellFoundedOn(StrictSubsetOrdering(L), FiniteSubsetsOf(L))
  BY FS_StrictSubsetOrderingWellFounded
<1>3. T \subseteq FiniteSubsetsOf(L) /\ T # {}
  <2>1. ASSUME NEW p \in L PROVE Above(p) \in FiniteSubsetsOf(L)
    <3>1. Above(p) \subseteq L
      OBVIOUS
    <3>2. IsFiniteSet(Above(p))
      BY <3>1, FS_Subset
    <3> HIDE DEF Above
    <3> QED
      BY <3>1, <3>2 DEF FiniteSubsetsOf
  <2>2. PICK p \in L : TRUE
    OBVIOUS
  <2> QED
    BY <2>1, <2>2
<1>4. PICK x \in T : \A y \in T : <<y, x>> \notin StrictSubsetOrdering(L)
  BY <1>2, <1>3, WFMin
<1>5. PICK p \in L : x = Above(p)
  BY <1>4
<1>6. \A q \in L : ~Better(s, q, p)
  <2> SUFFICES ASSUME NEW q \in L, Better(s, q, p) PROVE FALSE
    OBVIOUS
  <2>1. Above(q) \subseteq Above(p)
    BY BetterOrder
  <2>2. q \in Above(p) /\ q \notin Above(q)
    BY BetterOrder
  <2>3. <<Above(q), Above(p)>> \in StrictSubsetOrdering(L)
    BY <2>1, <2>2 DEF StrictSubsetOrdering
  <2> QED
    BY <2>3, <1>4, <1>5
<1> QED
  BY <1>6

\* A book with a level has a best level.
LEMMA TopExists ==
  ASSUME NEW s, NEW book, Levels(book) # {}
  PROVE  /\ Top(s, book) \in Levels(book)
         /\ \A q \in Levels(book) : ~Better(s, q, Top(s, book))
<1>1. Levels(book) \in SUBSET Int /\ IsFiniteSet(Levels(book))
  BY PxAssumption, FS_Subset DEF Levels
<1>2. \E p \in Levels(book) : \A q \in Levels(book) : ~Better(s, q, p)
  BY <1>1, BestExists
<1> QED
  BY <1>2 DEF Top

\* MAX and MIN of a non-empty set of numbers.
LEMMA Extremes ==
  ASSUME NEW S \in SUBSET Int, IsFiniteSet(S), S # {}
  PROVE  /\ Max(S) \in S /\ \A y \in S : y <= Max(S)
         /\ Min(S) \in S /\ \A y \in S : Min(S) <= y
<1>1. \E x \in S : \A y \in S : x >= y
  <2>1. PICK x \in S : \A y \in S : ~Better("Buy", y, x)
    BY BestExists
  <2> QED
    BY <2>1 DEF Better
<1>2. \E x \in S : \A y \in S : x =< y
  <2>1. PICK x \in S : \A y \in S : ~Better("Sell", y, x)
    BY BestExists
  <2> QED
    BY <2>1 DEF Better
<1>3. Max(S) \in S /\ \A y \in S : Max(S) >= y
  BY <1>1 DEF Max
<1>4. Min(S) \in S /\ \A y \in S : Min(S) =< y
  BY <1>2 DEF Min
<1> QED
  BY <1>3, <1>4

\* A function takes finitely many values on a finite set.
LEMMA FiniteImage ==
  ASSUME NEW S, IsFiniteSet(S), NEW f
  PROVE  IsFiniteSet({f[x] : x \in S})
<1> DEFINE T == {f[x] : x \in S}
           g == [x \in S |-> f[x]]
<1>1. g \in Surjection(S, T)
  BY DEF Surjection
<1> HIDE DEF g, T
<1>2. IsFiniteSet(T)
  BY <1>1, FS_Surjection
<1> QED
  BY <1>2 DEF T

\* The members of a set of places, numbered in their order: every number up to
\* the set's size is one's, and the last place has the last number.
LEMMA Ranks ==
  ASSUME NEW n \in Nat, NEW P \in SUBSET (1..n)
  PROVE  LET At(k) == CHOOSE i \in P : Cardinality({j \in P : j <= i}) = k
         IN  /\ Cardinality(P) \in Nat
             /\ \A k \in 1..Cardinality(P) : At(k) \in P
             /\ n \in P => At(Cardinality(P)) = n /\ Cardinality(P) \in Nat \ {0}
<1> DEFINE Upto(i) == {j \in P : j <= i}
           c == Cardinality(P)
           rank == [i \in P |-> Cardinality(Upto(i))]
<1>1. IsFiniteSet(P) /\ c \in Nat
  <2>1. IsFiniteSet(1..n)
    BY FS_Interval
  <2> QED
    BY <2>1, FS_Subset, FS_CardinalityType
<1>2. ASSUME NEW i \in P
      PROVE  /\ Upto(i) \in SUBSET P /\ IsFiniteSet(Upto(i))
             /\ Cardinality(Upto(i)) \in 1..c
  <2>1. Upto(i) \in SUBSET P /\ i \in Upto(i)
    OBVIOUS
  <2> HIDE DEF Upto
  <2>2. IsFiniteSet(Upto(i)) /\ Cardinality(Upto(i)) <= c
    BY <1>1, <2>1, FS_Subset
  <2>3. Cardinality(Upto(i)) \in Nat /\ Cardinality(Upto(i)) # 0
    BY <2>1, <2>2, FS_CardinalityType, FS_EmptySet
  <2> QED
    BY <1>1, <2>1, <2>2, <2>3
<1>3. ASSUME NEW x \in P, NEW y \in P, Cardinality(Upto(x)) = Cardinality(Upto(y)), x < y
      PROVE  FALSE
  <2>0. P \subseteq Int
    OBVIOUS
  <2>1. Upto(x) \in SUBSET Upto(y) /\ y \in Upto(y) /\ y \notin Upto(x)
    <3>1. ASSUME NEW j \in P, j <= x PROVE j <= y
      BY <1>3, <2>0, <3>1
    <3>2. x \in Int /\ y \in Int /\ x < y
      BY <1>3, <2>0
    <3>3. y <= y /\ ~(y <= x)
      BY <3>2
    <3> QED
      BY <3>1, <3>3
  <2> HIDE DEF Upto
  <2> QED
    BY <1>2, <1>3, <2>1, FS_Subset
<1>4. rank \in Injection(P, 1..c)
  <2>1. rank \in [P -> 1..c]
    BY <1>2
  <2>2. ASSUME NEW x \in P, NEW y \in P, rank[x] = rank[y] PROVE x = y
    <3>1. x \in Int /\ y \in Int
      OBVIOUS
    <3> HIDE DEF Upto
    <3> QED
      BY <1>3, <2>2, <3>1
  <2> HIDE DEF rank
  <2> QED
    BY <2>1, <2>2 DEF Injection, IsInjective
<1>5. rank \in Surjection(P, 1..c)
  <2>1. IsFiniteSet(1..c) /\ Cardinality(1..c) = c
    BY <1>1, FS_Interval
  <2> HIDE DEF rank
  <2> QED
    BY <1>4, <2>1, FS_Injection
<1>6. ASSUME NEW k \in 1..c PROVE \E i \in P : Cardinality(Upto(i)) = k
  BY <1>5 DEF Surjection
<1>7. ASSUME n \in P
      PROVE  /\ Cardinality(Upto(n)) = c /\ c # 0
             /\ \A i \in P : Cardinality(Upto(i)) = c => i = n
  <2>1. Upto(n) = P
    <3>1. \A j \in P : j <= n
      OBVIOUS
    <3> QED
      BY <3>1
  <2>2. ASSUME NEW i \in P, Cardinality(Upto(i)) = c PROVE i = n
    <3>1. i <= n /\ i \in Int
      OBVIOUS
    <3> HIDE DEF Upto
    <3> QED
      BY <1>3, <1>7, <2>1, <2>2, <3>1
  <2> QED
    BY <1>1, <1>7, <2>1, <2>2, FS_EmptySet
<1> DEFINE At(k) == CHOOSE i \in P : Cardinality(Upto(i)) = k
<1>8. \A k \in 1..c : At(k) \in P
  BY <1>6
<1>9. n \in P => At(c) = n
  BY <1>7
<1> QED
  BY <1>1, <1>7, <1>8, <1>9

-----------------------------------------------------------------------------
(* Typing.                                                                 *)

\* The levels of a batch are prices of the ladder with legal sizes.
LEMMA UpdateType ==
  ASSUME NEW upd \in Updates
  PROVE  DOMAIN upd \subseteq Px /\ \A p \in DOMAIN upd : upd[p] \in Sz \cup {0}
BY DEF Updates

\* The book operations return books.
LEMMA BookOps ==
  ASSUME NEW book \in Book
  PROVE  /\ Empty \in Book
         /\ \A upd \in Updates : Apply(book, upd) \in Book
         /\ \A S : Drop(book, S) \in Book
         /\ \A S : Keep(book, S) \in Book
BY UpdateType DEF Book, Empty, Apply, Drop, Keep

\* Levels removed and levels inserted by the repair are well-formed batches.
LEMMA RepairTypes ==
  ASSUME TypeOK, NEW s \in Sides, NEW upd \in Updates, NEW b, NEW same
  PROVE  /\ FullAfter(s, upd, b, same) \in Book
         /\ Purged(s, upd, b, same) \in Book
         /\ Inserts(s, upd, b, same) \in Updates
         /\ Deletes(s, upd, b, same) \in Updates
<1>1. full[s] \in Book /\ published[s] \in Book
  BY DEF TypeOK
<1>2. FullAfter(s, upd, b, same) \in Book
  BY <1>1, BookOps DEF FullAfter
<1>3. Purged(s, upd, b, same) \in Book
  BY <1>1, BookOps DEF Purged
<1>4. Inserts(s, upd, b, same) \in Updates
  <2>1. Exposed(s, upd, b, same) \subseteq Px
    BY DEF Exposed, TopDepth, Levels
  <2> QED
    BY <1>2, <2>1 DEF Inserts, Updates, Book
<1>5. Deletes(s, upd, b, same) \in Updates
  <2> DEFINE D == Stale(s, upd, b, same) \cap Levels(Apply(published[s], upd))
  <2>1. D \in SUBSET Px
    BY DEF Levels
  <2>2. Deletes(s, upd, b, same) = [p \in D |-> 0]
    BY DEF Deletes
  <2> HIDE DEF D
  <2>3. [p \in D |-> 0] \in [D -> Sz \cup {0}]
    OBVIOUS
  <2> QED
    BY <2>1, <2>2, <2>3 DEF Updates
<1> QED
  BY <1>2, <1>3, <1>4, <1>5

\* The recorded best price is a price or None.
LEMMA BestType ==
  ASSUME TypeOK, NEW s \in Sides, NEW upd, NEW b \in Bounds, NEW same
  PROVE  BestAfter(s, upd, b, same) \in Int \cup {NoBound}
<1> DEFINE book == FullAfter(s, upd, b, same)
<1>1. CASE Levels(book) # {}
  <2>1. Top(s, book) \in Int
    BY <1>1, TopExists, PxAssumption DEF Levels
  <2> QED
    BY <2>1, BoundsAssumption DEF BestAfter, TypeOK
<1>2. CASE Levels(book) = {}
  BY <1>2, BoundsAssumption DEF BestAfter, TypeOK
<1> QED
  BY <1>1, <1>2

\* Type correctness of the builder's state and of the reader's book.
THEOREM TypeCorrect == Spec => []TypeOK
<1>1. Init => TypeOK
  BY DEF Init, TypeOK, Book, Empty
<1>2. TypeOK /\ [Next]_vars => TypeOK'
  <2> SUFFICES ASSUME TypeOK, [Next]_vars PROVE TypeOK'
    OBVIOUS
  <2>1. ASSUME NEW book \in [Sides -> Book], Snapshot(book) PROVE TypeOK'
    <3>1. ASSUME NEW s \in Sides PROVE Keep(book[s], TopDepth(s, book[s])) \in Book
      BY BookOps
    <3>2. ASSUME NEW s \in Sides, Levels(book[s]) # {} PROVE Top(s, book[s]) \in Int
      BY <3>2, TopExists, PxAssumption DEF Levels
    <3> QED
      BY <2>1, <3>1, <3>2 DEF Snapshot, TypeOK
  <2>2. ASSUME NEW upd \in [Sides -> Updates], NEW b \in [Sides -> Bounds],
               NEW same \in BOOLEAN, Delta(upd, b, same)
        PROVE  TypeOK'
    <3>1. full' \in [Sides -> Book]
      BY <2>2, RepairTypes DEF Delta
    <3>2. published' \in [Sides -> Book]
      BY <2>2, RepairTypes, BookOps DEF Delta
    <3>3. best' \in [Sides -> Int \cup {NoBound}]
      BY <2>2, BestType DEF Delta
    <3>4. touched' \in [Sides -> SUBSET Px]
      <4>1. ASSUME NEW s \in Sides PROVE TouchedBy(s, upd[s], same) \subseteq Px
        BY UpdateType DEF TouchedBy, TypeOK
      <4> QED
        BY <2>2, <4>1 DEF Delta
    <3>5. bound' \in [Sides -> Int \cup {NoBound}]
      BY <2>2, BoundsAssumption DEF Delta
    <3>6. replay' \in [Sides -> Book]
      <4>1. ASSUME NEW s \in Sides
            PROVE  ReplayRow(replay[s], RowLevels(s, upd[s], b[s], same)) \in Book
        BY RepairTypes, BookOps DEF ReplayRow, RowLevels, TypeOK
      <4> QED
        BY <2>2, <4>1 DEF Delta
    <3> QED
      BY <3>1, <3>2, <3>3, <3>4, <3>5, <3>6 DEF TypeOK
  <2>3. CASE UNCHANGED vars
    BY <2>3 DEF vars, TypeOK
  <2> QED
    BY <2>1, <2>2, <2>3 DEF Next
<1> QED
  BY <1>1, <1>2, PTL DEF Spec

-----------------------------------------------------------------------------
(* What a reader sees.                                                     *)

\* Both books take the same updates and the same purge, and an insert copies
\* the full book's level: what is published stays part of the full book.
LEMMA DeltaPublishedWithin ==
  ASSUME TypeOK, PublishedWithinFull,
         NEW s \in Sides, NEW upd \in Updates, NEW b, NEW same, NEW p \in Px
  PROVE  LET pub == Apply(Purged(s, upd, b, same), Inserts(s, upd, b, same))
         IN  pub[p] # 0 => pub[p] = FullAfter(s, upd, b, same)[p]
<1>1. Purged(s, upd, b, same)[p] # 0 =>
        Purged(s, upd, b, same)[p] = FullAfter(s, upd, b, same)[p]
  BY DEF Purged, FullAfter, Drop, Apply, PublishedWithinFull
<1>2. p \in Exposed(s, upd, b, same) =>
        Inserts(s, upd, b, same)[p] = FullAfter(s, upd, b, same)[p]
  BY DEF Inserts
<1>3. DOMAIN Inserts(s, upd, b, same) = Exposed(s, upd, b, same)
  BY DEF Inserts
<1> QED
  BY <1>1, <1>2, <1>3 DEF Apply

\* Every published level is a level of the full book, at the same size
\* (canonical.py: the purges with and without output stay in step).
THEOREM PublishedStaysWithinFull == Spec => []PublishedWithinFull
<1>1. Init => PublishedWithinFull
  BY DEF Init, PublishedWithinFull, Empty
<1>2. TypeOK /\ PublishedWithinFull /\ [Next]_vars => PublishedWithinFull'
  <2> SUFFICES ASSUME TypeOK, PublishedWithinFull, [Next]_vars
               PROVE  PublishedWithinFull'
    OBVIOUS
  <2>1. ASSUME NEW book \in [Sides -> Book], Snapshot(book)
        PROVE  PublishedWithinFull'
    BY <2>1 DEF Snapshot, PublishedWithinFull, Keep
  <2>2. ASSUME NEW upd \in [Sides -> Updates], NEW b \in [Sides -> Bounds],
               NEW same \in BOOLEAN, Delta(upd, b, same)
        PROVE  PublishedWithinFull'
    BY <2>2, DeltaPublishedWithin DEF Delta, PublishedWithinFull
  <2>3. CASE UNCHANGED vars
    BY <2>3 DEF vars, PublishedWithinFull
  <2> QED
    BY <2>1, <2>2, <2>3 DEF Next
<1> QED
  BY <1>1, <1>2, TypeCorrect, PTL DEF Spec

\* The levels, deletes and inserts of a row lead from the published book
\* before the row to the published book after it.
LEMMA RowReplaysPurge ==
  ASSUME NEW s \in Sides, NEW upd, NEW b, NEW same
  PROVE  ReplayRow(published[s], RowLevels(s, upd, b, same)) =
           Apply(Purged(s, upd, b, same), Inserts(s, upd, b, same))
<1> DEFINE pub == Apply(published[s], upd)
<1>1. Apply(pub, Deletes(s, upd, b, same)) = Purged(s, upd, b, same)
  <2>1. DOMAIN Deletes(s, upd, b, same) = Stale(s, upd, b, same) \cap Levels(pub)
    BY DEF Deletes
  <2>2. \A p \in DOMAIN Deletes(s, upd, b, same) : Deletes(s, upd, b, same)[p] = 0
    BY DEF Deletes
  <2>3. \A p \in Px : p \notin Levels(pub) => pub[p] = 0
    BY DEF Levels
  <2>4. Purged(s, upd, b, same) = Drop(pub, Stale(s, upd, b, same))
    BY DEF Purged
  <2> HIDE DEF pub
  <2> QED
    BY <2>1, <2>2, <2>3, <2>4 DEF Apply, Drop
<1> QED
  BY <1>1 DEF ReplayRow, RowLevels

\* Replaying the written rows gives the published book.
THEOREM ReplayIsPublished == Spec => []ReplayMatchesPublished
<1>1. Init => ReplayMatchesPublished
  BY DEF Init, ReplayMatchesPublished
<1>2. TypeOK /\ ReplayMatchesPublished /\ [Next]_vars => ReplayMatchesPublished'
  <2> SUFFICES ASSUME TypeOK, ReplayMatchesPublished, [Next]_vars
               PROVE  ReplayMatchesPublished'
    OBVIOUS
  <2>1. ASSUME NEW book \in [Sides -> Book], Snapshot(book)
        PROVE  ReplayMatchesPublished'
    BY <2>1 DEF Snapshot, ReplayMatchesPublished
  <2>2. ASSUME NEW upd \in [Sides -> Updates], NEW b \in [Sides -> Bounds],
               NEW same \in BOOLEAN, Delta(upd, b, same)
        PROVE  ReplayMatchesPublished'
    BY <2>2, RowReplaysPurge DEF Delta, ReplayMatchesPublished
  <2>3. CASE UNCHANGED vars
    BY <2>3 DEF vars, ReplayMatchesPublished
  <2> QED
    BY <2>1, <2>2, <2>3 DEF Next
<1> QED
  BY <1>1, <1>2, TypeCorrect, PTL DEF Spec

\* A batch whose best price differs from the recorded one leaves the reader
\* with the first Depth levels of the full book.
THEOREM ExposedArePublished == Spec => ExposedLevelsPublished
<1>1. ASSUME TypeOK, ReplayMatchesPublished, ReplayMatchesPublished', [Next]_vars
      PROVE  [\A s \in Sides :
                bound'[s] # NoBound /\ bound'[s] # best[s] => DepthReplayed(s)']_vars
  <2> SUFFICES ASSUME ~UNCHANGED vars, NEW s \in Sides,
                      bound'[s] # NoBound, bound'[s] # best[s]
               PROVE  DepthReplayed(s)'
    BY <1>1
  <2>1. ASSUME NEW book \in [Sides -> Book], Snapshot(book) PROVE FALSE
    BY <2>1 DEF Snapshot
  <2>2. ASSUME NEW upd \in [Sides -> Updates], NEW b \in [Sides -> Bounds],
               NEW same \in BOOLEAN, Delta(upd, b, same)
        PROVE  DepthReplayed(s)'
    <3> DEFINE f == FullAfter(s, upd[s], b[s], same)
               x == Exposed(s, upd[s], b[s], same)
               pre == Purged(s, upd[s], b[s], same)
               ins == Inserts(s, upd[s], b[s], same)
    <3>1. full'[s] = f /\ replay'[s] = Apply(pre, ins)
      BY <1>1, <2>2 DEF Delta, ReplayMatchesPublished
    <3>2. x = {p \in TopDepth(s, f) : pre[p] # f[p]}
      BY <2>2 DEF Delta, Exposed
    <3>3. DOMAIN ins = x /\ \A p \in x : ins[p] = f[p]
      BY DEF Inserts
    <3>4. TopDepth(s, f) \subseteq Px
      BY DEF TopDepth, Levels
    <3>5. \A p \in TopDepth(s, f) : Apply(pre, ins)[p] = f[p]
      <4> HIDE DEF f, x, pre, ins
      <4> QED
        BY <3>2, <3>3, <3>4 DEF Apply
    <3> QED
      BY <3>1, <3>5 DEF DepthReplayed
  <2> QED
    BY <1>1, <2>1, <2>2 DEF Next
<1> QED
  BY <1>1, TypeCorrect, ReplayIsPublished, PTL DEF Spec, ExposedLevelsPublished

-----------------------------------------------------------------------------
(* When every batch carries its best prices.                               *)

\* The recorded best price is the top of the full book, as long as no batch
\* comes without one (a batch without a best price changes the book and
\* leaves the record alone, and BestIsTop fails).
THEOREM BestStaysTop == NoBound \notin Bounds => (Spec => []BestIsTop)
<1> SUFFICES ASSUME NoBound \notin Bounds PROVE Spec => []BestIsTop
  OBVIOUS
<1>1. Init => BestIsTop
  BY DEF Init, BestIsTop, Empty, Levels
<1>2. BestIsTop /\ [Next]_vars => BestIsTop'
  <2> SUFFICES ASSUME BestIsTop, [Next]_vars PROVE BestIsTop'
    OBVIOUS
  <2>1. ASSUME NEW book \in [Sides -> Book], Snapshot(book) PROVE BestIsTop'
    BY <2>1 DEF Snapshot, BestIsTop
  <2>2. ASSUME NEW upd \in [Sides -> Updates], NEW b \in [Sides -> Bounds],
               NEW same \in BOOLEAN, Delta(upd, b, same)
        PROVE  BestIsTop'
    <3> SUFFICES ASSUME NEW s \in Sides, Levels(full'[s]) # {}
                 PROVE  best'[s] = Top(s, full'[s])
      BY DEF BestIsTop, Levels, Top
    <3>1. full'[s] = FullAfter(s, upd[s], b[s], same)
      BY <2>2 DEF Delta
    <3>2. best'[s] = BestAfter(s, upd[s], b[s], same)
      BY <2>2 DEF Delta
    <3>3. b[s] # NoBound
      OBVIOUS
    <3> QED
      BY <3>1, <3>2, <3>3 DEF BestAfter
  <2>3. CASE UNCHANGED vars
    BY <2>3 DEF vars, BestIsTop, Levels, Top
  <2> QED
    BY <2>1, <2>2, <2>3 DEF Next
<1> QED
  BY <1>1, <1>2, PTL DEF Spec

\* A level that survives a batch and is better than the batch's best price
\* was updated at the batch's timestamp.
LEMMA DeltaPurgesSuperior ==
  ASSUME TypeOK, PublishedWithinFull, BestIsTop,
         NEW s \in Sides, NEW upd \in Updates, NEW b \in Int, NEW same,
         NEW p \in Px, Better(s, p, b),
         Apply(Purged(s, upd, b, same), Inserts(s, upd, b, same))[p] # 0
  PROVE  p \in TouchedBy(s, upd, same)
<1> SUFFICES ASSUME p \notin TouchedBy(s, upd, same) PROVE FALSE
  OBVIOUS
<1>1. p \notin DOMAIN upd
  BY DEF TouchedBy
<1>2. b # NoBound
  BY NoBoundAssumption
<1>3. FullAfter(s, upd, b, same)[p] # 0
  BY DeltaPublishedWithin
<1>4. p \notin Stale(s, upd, b, same) /\ full[s][p] # 0
  BY <1>1, <1>3 DEF FullAfter, Drop, Apply
<1>5. ~Retreats(s, b)
  BY <1>2, <1>4 DEF Stale, Suspects
<1>6. best[s] \in Int /\ ~Better(s, best[s], b)
  BY <1>5 DEF Retreats, TypeOK
<1>7. p \in Levels(full[s]) /\ best[s] = Top(s, full[s])
  BY <1>4 DEF Levels, BestIsTop
<1>8. ~Better(s, p, best[s])
  BY <1>7, TopExists
<1> QED
  BY <1>6, <1>8, BetterOrder, PxAssumption

\* After a batch the reader keeps no level better than the price PMXT called
\* the best, except levels updated at that very timestamp.
THEOREM SuperiorArePurged == NoBound \notin Bounds => (Spec => []SuperiorPurged)
<1> SUFFICES ASSUME NoBound \notin Bounds PROVE Spec => []SuperiorPurged
  OBVIOUS
<1> DEFINE Inv == TypeOK /\ PublishedWithinFull /\ ReplayMatchesPublished /\ BestIsTop
<1>1. Init => SuperiorPurged
  BY DEF Init, SuperiorPurged
<1>2. Inv /\ Inv' /\ SuperiorPurged /\ [Next]_vars => SuperiorPurged'
  <2> SUFFICES ASSUME Inv, Inv', SuperiorPurged, [Next]_vars PROVE SuperiorPurged'
    OBVIOUS
  <2>1. ASSUME NEW book \in [Sides -> Book], Snapshot(book) PROVE SuperiorPurged'
    BY <2>1 DEF Snapshot, SuperiorPurged
  <2>2. ASSUME NEW upd \in [Sides -> Updates], NEW b \in [Sides -> Bounds],
               NEW same \in BOOLEAN, Delta(upd, b, same)
        PROVE  SuperiorPurged'
    <3> SUFFICES ASSUME NEW s \in Sides, NEW p \in Px,
                        replay'[s][p] # 0, Better(s, p, bound'[s])
                 PROVE  p \in touched'[s]
      BY DEF SuperiorPurged, Levels
    <3>1. bound'[s] = b[s] /\ b[s] \in Int
      BY <2>2, BoundsAssumption DEF Delta
    <3>2. replay'[s] = Apply(Purged(s, upd[s], b[s], same), Inserts(s, upd[s], b[s], same))
      BY <2>2 DEF Delta, ReplayMatchesPublished
    <3>3. p \in TouchedBy(s, upd[s], same)
      BY <3>1, <3>2, DeltaPurgesSuperior
    <3> QED
      BY <2>2, <3>3 DEF Delta
  <2>3. CASE UNCHANGED vars
    BY <2>3 DEF vars, SuperiorPurged, Levels
  <2> QED
    BY <2>1, <2>2, <2>3 DEF Next
<1> QED
  BY <1>1, <1>2, TypeCorrect, PublishedStaysWithinFull, ReplayIsPublished,
     BestStaysTop, PTL DEF Spec

-----------------------------------------------------------------------------
(* The feed (PmxtReplay), with any number of rows in a millisecond.        *)

\* Every row of the archive carries best prices, of the ladder or of an empty
\* side.
Covered ==
  /\ NoBound \notin Bounds
  /\ \A s \in Sides : Px \cup {EmptyBest[s]} \subseteq Bounds

Markets == {m \in [Sides -> Book] : Uncrossed(m)}

\* The best prices of a book are bounds.
LEMMA BestOfType ==
  ASSUME NEW m, NEW s \in Sides
  PROVE  /\ BestOf(m)[s] \in Int
         /\ BestOf(m)[s] \in Px \cup {EmptyBest[s]}
         /\ Covered => BestOf(m)[s] \in Bounds
         /\ Levels(m[s]) # {} => BestOf(m)[s] = Top(s, m[s])
         /\ Levels(m[s]) = {} => BestOf(m)[s] = EmptyBest[s]
<1>1. CASE Levels(m[s]) # {}
  <2>1. Top(s, m[s]) \in Px
    BY <1>1, TopExists DEF Levels
  <2> QED
    BY <1>1, <2>1, PxAssumption DEF BestOf, Covered
<1>2. CASE Levels(m[s]) = {}
  BY <1>2, EmptyBestAssumption DEF BestOf, Covered
<1> QED
  BY <1>1, <1>2

\* No level of a book is better than its best price.
LEMMA NoneBeyondBest ==
  ASSUME NEW m, NEW s \in Sides, NEW p \in Levels(m[s])
  PROVE  ~Better(s, p, BestOf(m)[s])
BY BestOfType, TopExists

\* The rows of the archive and of the translation.
Bests == {b \in [Sides -> Int] : \A s \in Sides : b[s] \in Px \cup {EmptyBest[s]}}

BookRows   == [kind : {"book"}, book : Markets]
ChangeRows == [kind : {"price_change"}, side : Sides, px : Px, sz : Sz \cup {0},
               best : Bests]
BatchRows  == [kind : {"delta_batch"}, levels : [Sides -> Updates], best : Bests]

\* The queue's last row is a snapshot of the exchange's present book.
EndsInBook(queue) ==
  /\ queue # <<>>
  /\ queue[Len(queue)].kind = "book"
  /\ queue[Len(queue)].book = market

\* The builder's full book lacks nothing but the millisecond's changes, none of
\* which was overtaken by another.
ChangesOnly ==
  /\ \A i \in DOMAIN recorded :
       /\ recorded[i].kind = "price_change"
       /\ recorded[i].sz = market[recorded[i].side][recorded[i].px]
  /\ \A s \in Sides, p \in Px :
       (\A i \in DOMAIN recorded : recorded[i].side # s \/ recorded[i].px # p)
         => full[s][p] = market[s][p]
  /\ recorded # <<>> => recorded[Len(recorded)].best = BestOf(market)

\* The builder's full book lacks nothing but one batch, whose best prices no
\* level of the exchange is beyond.
BatchOnly ==
  /\ rows = <<rows[1]>> /\ rows[1].kind = "delta_batch"
  /\ \A s \in Sides :
       /\ \A p \in DOMAIN rows[1].levels[s] : rows[1].levels[s][p] = market[s][p]
       /\ \A p \in Px \ DOMAIN rows[1].levels[s] : full[s][p] = market[s][p]
       /\ \A p \in Levels(market[s]) : ~Better(s, p, rows[1].best[s])

\* While the record is complete, what is queued leads to the exchange's book.
Leads ==
  IF rows = <<>> THEN EndsInBook(recorded) \/ ChangesOnly
                 ELSE EndsInBook(rows) \/ BatchOnly

BurstTypes ==
  /\ market \in Markets
  /\ full \in [Sides -> Book]
  /\ synced \in BOOLEAN
  /\ recorded \in Seq(BookRows \cup ChangeRows)
  /\ rows \in Seq(BookRows \cup BatchRows)
  /\ recorded = <<>> \/ rows = <<>>

BurstInv == BurstTypes /\ (synced => Leads)

\* The exchange's book after a change.
LEMMA MarketChanges ==
  ASSUME BurstTypes, NEW s \in Sides, NEW p \in Px, NEW z \in Sz \cup {0},
         Uncrossed([market EXCEPT ![s][p] = z])
  PROVE  LET after == [market EXCEPT ![s][p] = z]
         IN  /\ after \in Markets /\ after[s][p] = z
             /\ \A t \in Sides, q \in Px : t # s \/ q # p => after[t][q] = market[t][q]
BY DEF BurstTypes, Markets, Book

\* What is archived is a row, at the end of the millisecond's.
LEMMA RowsGrow ==
  ASSUME BurstTypes, NEW r \in BookRows \cup ChangeRows
  PROVE  /\ Append(recorded, r) \in Seq(BookRows \cup ChangeRows)
         /\ Append(recorded, r) # <<>>
         /\ Len(recorded) \in Nat /\ Len(Append(recorded, r)) = Len(recorded) + 1
         /\ DOMAIN recorded = 1..Len(recorded)
         /\ DOMAIN Append(recorded, r) = 1..(Len(recorded) + 1)
         /\ \A i \in DOMAIN recorded : Append(recorded, r)[i] = recorded[i]
         /\ Append(recorded, r)[Len(recorded) + 1] = r
<1> DEFINE S == BookRows \cup ChangeRows
<1>1. recorded \in Seq(S) /\ r \in S
  BY DEF BurstTypes
<1> HIDE DEF S
<1>2. /\ Append(recorded, r) \in Seq(S)
      /\ Len(recorded) \in Nat /\ Len(Append(recorded, r)) = Len(recorded) + 1
      /\ DOMAIN recorded = 1..Len(recorded)
      /\ DOMAIN Append(recorded, r) = 1..(Len(recorded) + 1)
  BY <1>1, LenProperties
<1>3. /\ Append(recorded, r) # <<>>
      /\ \A i \in 1..Len(recorded) : Append(recorded, r)[i] = recorded[i]
      /\ Append(recorded, r)[Len(recorded) + 1] = r
  BY <1>1, AppendProperties
<1> QED
  BY <1>2, <1>3 DEF S

\* The collapse of a millisecond with changes is a batch: its levels have sizes
\* that were archived for them, its best prices are the best of those archived.
LEMMA CollapseType ==
  ASSUME BurstTypes, Changes # {}
  PROVE  /\ DeltaRow \in BatchRows
         /\ \A s \in Sides : \A p \in DOMAIN DeltaRow.levels[s] :
              \E i \in Changes : /\ recorded[i].side = s /\ recorded[i].px = p
                                 /\ recorded[i].sz = DeltaRow.levels[s][p]
         /\ \A i \in Changes : recorded[i].px \in DOMAIN DeltaRow.levels[recorded[i].side]
         /\ \A i \in Changes, s \in Sides :
              ~Better(s, recorded[i].best[s], DeltaRow.best[s])
<1>1. IsFiniteSet(Changes) /\ Changes \subseteq DOMAIN recorded
  <2>1. DOMAIN recorded = 1..Len(recorded) /\ Len(recorded) \in Nat
    BY DEF BurstTypes
  <2>2. IsFiniteSet(DOMAIN recorded)
    BY <2>1, FS_Interval
  <2>3. Changes \subseteq DOMAIN recorded
    BY DEF Changes
  <2> QED
    BY <2>2, <2>3, FS_Subset
<1>2. ASSUME NEW i \in Changes
      PROVE  /\ recorded[i] \in ChangeRows
             /\ recorded[i].side \in Sides /\ recorded[i].px \in Px
             /\ recorded[i].sz \in Sz \cup {0} /\ recorded[i].best \in Bests
  <2>1. recorded[i].kind = "price_change" /\ recorded[i] \in BookRows \cup ChangeRows
    BY <1>1, ElementOfSeq DEF Changes, BurstTypes
  <2>2. recorded[i] \in ChangeRows
    BY <2>1 DEF BookRows
  <2> QED
    BY <2>2 DEF ChangeRows
<1>3. ASSUME NEW s \in Sides, NEW p \in {recorded[i].px : i \in ChangesOf(s)}
      PROVE  /\ CollapsedLevels(s)[p] \in Sz \cup {0} /\ p \in Px
             /\ \E i \in Changes : /\ recorded[i].side = s /\ recorded[i].px = p
                                   /\ recorded[i].sz = CollapsedLevels(s)[p]
  <2> DEFINE I == {j \in ChangesOf(s) : recorded[j].px = p}
             size == [i \in I |-> recorded[i].sz]
             sizes == {size[i] : i \in I}
  <2>1. I \subseteq Changes /\ I # {} /\ \A i \in I : recorded[i].side = s /\ recorded[i].px = p
    BY <1>3 DEF ChangesOf
  <2>2. IsFiniteSet(sizes)
    <3>1. IsFiniteSet(I)
      BY <1>1, <2>1, FS_Subset
    <3> HIDE DEF I, size
    <3> QED
      BY <3>1, FiniteImage
  <2>3. sizes # {} /\ sizes \subseteq Sz \cup {0} /\ sizes \in SUBSET Int
    <3>1. \A i \in I : size[i] \in Sz \cup {0}
      BY <1>2, <2>1
    <3>2. Sz \cup {0} \subseteq Int
      BY SzAssumption
    <3> HIDE DEF I, size
    <3> QED
      BY <2>1, <3>1, <3>2
  <2>4. CollapsedLevels(s)[p] = Min(sizes)
    <3>1. sizes = {recorded[i].sz : i \in I}
      BY DEF size
    <3> HIDE DEF sizes, size
    <3> QED
      BY <1>3, <3>1 DEF CollapsedLevels
  <2>5. Min(sizes) \in sizes
    <3> HIDE DEF sizes
    <3> QED
      BY <2>2, <2>3, Extremes
  <2>6. PICK i \in I : Min(sizes) = recorded[i].sz
    BY <2>5
  <2> QED
    BY <1>2, <2>1, <2>3, <2>4, <2>5, <2>6
<1>4. ASSUME NEW s \in Sides
      PROVE  /\ CollapsedLevels(s) \in Updates
             /\ DOMAIN CollapsedLevels(s) = {recorded[i].px : i \in ChangesOf(s)}
  <2> DEFINE D == {recorded[i].px : i \in ChangesOf(s)}
  <2>1. D \in SUBSET Px
    BY <1>3
  <2>2. CollapsedLevels(s) \in [D -> Sz \cup {0}]
    <3>1. CollapsedLevels(s) = [p \in D |-> CollapsedLevels(s)[p]]
      BY DEF CollapsedLevels
    <3>2. \A p \in D : CollapsedLevels(s)[p] \in Sz \cup {0}
      BY <1>3
    <3> HIDE DEF D
    <3> QED
      BY <3>1, <3>2
  <2> HIDE DEF D
  <2> QED
    BY <2>1, <2>2 DEF Updates, D
<1>5. ASSUME NEW s \in Sides
      PROVE  /\ CollapsedBest(s) \in Int /\ CollapsedBest(s) \in Px \cup {EmptyBest[s]}
             /\ \A i \in Changes : ~Better(s, recorded[i].best[s], CollapsedBest(s))
  <2> DEFINE bestOf == [i \in Changes |-> recorded[i].best[s]]
             bests == {bestOf[i] : i \in Changes}
  <2>1. \A i \in Changes : recorded[i].best[s] \in Int /\ recorded[i].best[s] \in Px \cup {EmptyBest[s]}
    BY <1>2 DEF Bests
  <2>2. bests # {} /\ bests \in SUBSET Int /\ bests \subseteq Px \cup {EmptyBest[s]}
    BY <2>1
  <2>3. IsFiniteSet(bests)
    <3> HIDE DEF bestOf
    <3> QED
      BY <1>1, FiniteImage
  <2>4. CollapsedBest(s) = IF s = "Buy" THEN Max(bests) ELSE Min(bests)
    <3>1. bests = {recorded[i].best[s] : i \in Changes}
      BY DEF bestOf
    <3> HIDE DEF bests, bestOf
    <3> QED
      BY <3>1 DEF CollapsedBest
  <2>5. /\ Max(bests) \in bests /\ \A y \in bests : y <= Max(bests)
        /\ Min(bests) \in bests /\ \A y \in bests : Min(bests) <= y
    <3> HIDE DEF bests
    <3> QED
      BY <2>2, <2>3, Extremes
  <2>6. \A i \in Changes : recorded[i].best[s] \in bests
    BY DEF bestOf
  <2> HIDE DEF bests
  <2>7. CollapsedBest(s) \in bests /\ \A y \in bests : ~Better(s, y, CollapsedBest(s))
    <3>1. \A y \in bests : y \in Int
      BY <2>2
    <3>2. CASE s = "Buy"
      BY <2>4, <2>5, <3>1, <3>2 DEF Better
    <3>3. CASE s # "Buy"
      BY <2>4, <2>5, <3>1, <3>3 DEF Better
    <3> QED
      BY <3>2, <3>3
  <2> QED
    BY <2>2, <2>6, <2>7
<1>6. /\ DeltaRow.kind = "delta_batch"
      /\ DeltaRow.levels = [s \in Sides |-> CollapsedLevels(s)]
      /\ DeltaRow.best = [s \in Sides |-> CollapsedBest(s)]
      /\ DeltaRow = [kind |-> "delta_batch", levels |-> DeltaRow.levels, best |-> DeltaRow.best]
  BY DEF DeltaRow
<1>7. DeltaRow \in BatchRows
  <2>1. DeltaRow.levels \in [Sides -> Updates]
    BY <1>4, <1>6
  <2>2. DeltaRow.best \in Bests
    <3>1. \A s \in Sides : DeltaRow.best[s] \in Int /\ DeltaRow.best[s] \in Px \cup {EmptyBest[s]}
      BY <1>5, <1>6
    <3>2. DeltaRow.best = [s \in Sides |-> DeltaRow.best[s]]
      BY <1>6
    <3> QED
      BY <3>1, <3>2 DEF Bests
  <2> QED
    BY <1>6, <2>1, <2>2 DEF BatchRows
<1>8. \A s \in Sides : \A p \in DOMAIN DeltaRow.levels[s] :
        \E i \in Changes : /\ recorded[i].side = s /\ recorded[i].px = p
                           /\ recorded[i].sz = DeltaRow.levels[s][p]
  <2> SUFFICES ASSUME NEW s \in Sides, NEW p \in DOMAIN DeltaRow.levels[s]
               PROVE  \E i \in Changes : /\ recorded[i].side = s /\ recorded[i].px = p
                                         /\ recorded[i].sz = DeltaRow.levels[s][p]
    OBVIOUS
  <2>1. DeltaRow.levels[s] = CollapsedLevels(s)
    BY <1>6
  <2>2. p \in {recorded[i].px : i \in ChangesOf(s)}
    BY <1>4, <2>1
  <2> QED
    BY <1>3, <2>1, <2>2
<1>9. \A i \in Changes : recorded[i].px \in DOMAIN DeltaRow.levels[recorded[i].side]
  <2> SUFFICES ASSUME NEW i \in Changes
               PROVE  recorded[i].px \in DOMAIN DeltaRow.levels[recorded[i].side]
    OBVIOUS
  <2>1. i \in ChangesOf(recorded[i].side) /\ recorded[i].side \in Sides
    BY <1>2 DEF ChangesOf
  <2> QED
    BY <1>4, <1>6, <2>1
<1> QED
  BY <1>5, <1>6, <1>7, <1>8, <1>9

\* The translation of a millisecond: rows for the builder, the last of which is
\* the archive's last if that is a book; changes alone become one batch.
LEMMA TranslateType ==
  ASSUME BurstTypes, Translate
  PROVE  /\ rows' \in Seq(BookRows \cup BatchRows)
         /\ EndsInBook(recorded) =>
              rows' # <<>> /\ rows'[Len(rows')] = recorded[Len(recorded)]
         /\ ChangesOnly => rows' = <<DeltaRow>> /\ Changes = DOMAIN recorded
<1> DEFINE n == Len(recorded)
           c == Cardinality(Placed)
           At(k) == CHOOSE i \in Placed : Cardinality({j \in Placed : j <= i}) = k
<1>1. n \in Nat /\ DOMAIN recorded = 1..n /\ n # 0
  BY DEF BurstTypes, Translate
<1>2. Placed \in SUBSET (1..n)
  BY <1>1 DEF Placed
<1>3. /\ c \in Nat
      /\ \A k \in 1..c : At(k) \in Placed
      /\ n \in Placed => At(c) = n /\ c \in Nat \ {0}
  <2> HIDE DEF n
  <2> QED
    BY <1>1, <1>2, Ranks
<1>4. ASSUME NEW i \in Placed PROVE RowAt(i) \in BookRows \cup BatchRows
  <2>1. recorded[i] \in BookRows \cup ChangeRows /\ i \in DOMAIN recorded
    BY <1>1, <1>2, ElementOfSeq DEF BurstTypes
  <2>2. CASE recorded[i].kind = "book"
    BY <2>1, <2>2 DEF RowAt, ChangeRows
  <2>3. CASE recorded[i].kind # "book"
    <3>1. recorded[i] \in ChangeRows
      BY <2>1, <2>3 DEF BookRows
    <3>2. i \in Changes
      BY <2>1, <3>1 DEF Changes, ChangeRows
    <3> QED
      BY <2>3, <3>2, CollapseType DEF RowAt
  <2> QED
    BY <2>2, <2>3
<1>5. rows' = [k \in 1..c |-> RowAt(At(k))]
  BY DEF Translate, TranslatedRows
<1>6. rows' \in Seq(BookRows \cup BatchRows) /\ Len(rows') = c
  <2>1. \A k \in 1..c : RowAt(At(k)) \in BookRows \cup BatchRows
    BY <1>3, <1>4
  <2> HIDE DEF c, At
  <2>2. rows' \in [1..c -> BookRows \cup BatchRows]
    BY <1>5, <2>1
  <2> QED
    BY <1>3, <2>2, SeqDef, LenProperties
<1>7. ASSUME EndsInBook(recorded)
      PROVE  rows' # <<>> /\ rows'[Len(rows')] = recorded[Len(recorded)]
  <2>1. recorded[n].kind = "book" /\ n \in Placed
    BY <1>1, <1>7 DEF EndsInBook, Placed
  <2>2. At(c) = n /\ c \in 1..c
    BY <1>3, <2>1
  <2>3. RowAt(n) = recorded[n]
    BY <2>1 DEF RowAt
  <2> HIDE DEF c, At, n
  <2>4. rows'[c] = recorded[n]
    BY <1>5, <2>2, <2>3
  <2>5. rows' # <<>>
    BY <1>6, <2>2
  <2> QED
    BY <1>6, <2>4, <2>5 DEF n
<1>8. ASSUME ChangesOnly PROVE rows' = <<DeltaRow>> /\ Changes = DOMAIN recorded
  <2>1. Changes = 1..n
    BY <1>1, <1>8 DEF ChangesOnly, Changes
  <2>2. Min(Changes) = 1
    <3>1. 1..n \in SUBSET Int /\ IsFiniteSet(1..n) /\ 1 \in 1..n
      BY <1>1, FS_Interval
    <3>2. Min(1..n) \in 1..n /\ Min(1..n) <= 1
      BY <3>1, Extremes
    <3> QED
      BY <1>1, <2>1, <3>2
  <2>3. Placed = {1}
    BY <1>1, <1>8, <2>2 DEF Placed, ChangesOnly
  <2>4. c = 1 /\ At(1) = 1
    <3>1. c = 1
      BY <2>3, FS_Singleton
    <3> HIDE DEF c, At
    <3>2. At(1) \in Placed
      BY <1>3, <3>1
    <3> QED
      BY <2>3, <3>1, <3>2
  <2>5. RowAt(1) = DeltaRow
    BY <1>1, <1>8 DEF RowAt, ChangesOnly
  <2> HIDE DEF c, At
  <2>6. rows' = [k \in 1..1 |-> RowAt(At(k))]
    BY <1>5, <2>4
  <2>7. rows' = <<RowAt(At(1))>>
    BY <2>6
  <2> QED
    BY <1>1, <2>1, <2>4, <2>5, <2>7
<1> QED
  BY <1>6, <1>7, <1>8

\* A complete batch turns the full book into the exchange's, if no level of the
\* exchange is beyond its best price.
LEMMA BatchCompletes ==
  ASSUME NEW m \in Markets, NEW s \in Sides, NEW upd \in Updates, NEW b,
         \A p \in DOMAIN upd : upd[p] = m[s][p],
         \A p \in Px \ DOMAIN upd : full[s][p] = m[s][p],
         \A p \in Levels(m[s]) : ~Better(s, p, b)
  PROVE  FullAfter(s, upd, b, FALSE) = m[s]
<1>1. m[s] \in [Px -> Sz \cup {0}]
  BY DEF Markets, Book
<1>2. Apply(full[s], upd) = m[s]
  BY <1>1 DEF Apply
<1>3. ASSUME NEW p \in Stale(s, upd, b, FALSE) PROVE p \in Px => m[s][p] = 0
  <2>1. p \notin Levels(m[s])
    BY <1>3 DEF Stale
  <2> QED
    BY <2>1 DEF Levels
<1> QED
  BY <1>1, <1>2, <1>3 DEF FullAfter, Drop

\* The initial book of the exchange is any uncrossed one.
LEMMA BurstStarts == FeedInit => BurstInv
<1> SUFFICES ASSUME FeedInit PROVE BurstInv
  OBVIOUS
<1>1. full \in [Sides -> Book]
  BY DEF FeedInit, Init, Book, Empty
<1>2. recorded = <<>> /\ rows = <<>> /\ market \in Markets /\ synced = FALSE
  BY DEF FeedInit, Markets
<1> QED
  BY <1>1, <1>2, EmptySeq DEF BurstInv, BurstTypes

\* The exchange's own steps and the archive's.
ArchiveStep ==
  \/ \E s \in Sides, p \in Px, z \in Sz \cup {0} : Change(s, p, z) \/ LostChange(s, p, z)
  \/ BookEvent

LEMMA BurstArchives ==
  ASSUME BurstInv, ArchiveStep
  PROVE  BurstInv'
<1>1. BurstTypes
  BY DEF BurstInv
<1>2. ASSUME NEW s \in Sides, NEW p \in Px, NEW z \in Sz \cup {0}, Change(s, p, z)
      PROVE  BurstInv'
  <2> DEFINE after == [market EXCEPT ![s][p] = z]
             row == ChangeRow(s, p, z)
  <2>1. /\ rows = <<>> /\ rows' = rows /\ full' = full
        /\ market' = after /\ recorded' = Append(recorded, row)
        /\ synced' = (synced /\ ~Displaced(s, p))
    BY <1>2 DEF Change, vars
  <2>2. /\ after \in Markets /\ after[s][p] = z
        /\ \A t \in Sides, q \in Px : t # s \/ q # p => after[t][q] = market[t][q]
    <3>1. Uncrossed([market EXCEPT ![s][p] = z])
      BY <1>2 DEF Change
    <3> QED
      BY <1>1, <3>1, MarketChanges
  <2>3. /\ row.kind = "price_change" /\ row.side = s /\ row.px = p /\ row.sz = z
        /\ row.best = BestOf(after) /\ row \in ChangeRows
    <3>1. BestOf(after) \in Bests
      <4>1. \A t \in Sides : BestOf(after)[t] \in Int /\ BestOf(after)[t] \in Px \cup {EmptyBest[t]}
        BY BestOfType
      <4>2. BestOf(after) = [t \in Sides |-> BestOf(after)[t]]
        BY DEF BestOf
      <4> QED
        BY <4>1, <4>2 DEF Bests
    <3> HIDE DEF after
    <3>2. row = [kind |-> "price_change", side |-> s, px |-> p, sz |-> z, best |-> BestOf(after)]
      BY DEF ChangeRow, after
    <3> QED
      BY <3>1, <3>2 DEF ChangeRows
  <2> HIDE DEF row, after
  <2>4. /\ recorded' \in Seq(BookRows \cup ChangeRows)
        /\ Len(recorded) \in Nat /\ Len(recorded') = Len(recorded) + 1
        /\ DOMAIN recorded = 1..Len(recorded)
        /\ DOMAIN recorded' = 1..(Len(recorded) + 1)
        /\ \A i \in DOMAIN recorded : recorded'[i] = recorded[i]
        /\ recorded'[Len(recorded) + 1] = row
    BY <1>1, <2>1, <2>3, RowsGrow
  <2>5. BurstTypes'
    BY <1>1, <2>1, <2>2, <2>4 DEF BurstTypes
  <2>6. ASSUME synced' PROVE ChangesOnly'
    <3>1. synced /\ ~Displaced(s, p)
      BY <2>1, <2>6
    <3>2. ~EndsInBook(recorded)
      BY <2>4, <3>1 DEF EndsInBook, Displaced
    <3>3. ChangesOnly
      BY <2>1, <3>1, <3>2 DEF BurstInv, Leads
    <3>4. \A i \in DOMAIN recorded :
            /\ recorded[i].kind = "price_change"
            /\ recorded[i].sz = market[recorded[i].side][recorded[i].px]
            /\ recorded[i].side # s \/ recorded[i].px # p
            /\ recorded[i].side \in Sides /\ recorded[i].px \in Px
      <4> SUFFICES ASSUME NEW i \in DOMAIN recorded
                   PROVE  /\ recorded[i].kind = "price_change"
                          /\ recorded[i].sz = market[recorded[i].side][recorded[i].px]
                          /\ recorded[i].side # s \/ recorded[i].px # p
                          /\ recorded[i].side \in Sides /\ recorded[i].px \in Px
        OBVIOUS
      <4>1. /\ recorded[i].kind = "price_change"
            /\ recorded[i].sz = market[recorded[i].side][recorded[i].px]
        BY <3>3 DEF ChangesOnly
      <4>2. recorded[i].side # s \/ recorded[i].px # p
        BY <3>1, <4>1 DEF Displaced
      <4>3. recorded[i] \in BookRows \cup ChangeRows
        BY <1>1, <2>4, ElementOfSeq DEF BurstTypes
      <4>4. recorded[i] \in ChangeRows
        BY <4>1, <4>3 DEF BookRows
      <4> QED
        BY <4>1, <4>2, <4>4 DEF ChangeRows
    <3>5. \A i \in DOMAIN recorded' :
            /\ recorded'[i].kind = "price_change"
            /\ recorded'[i].sz = market'[recorded'[i].side][recorded'[i].px]
      <4> SUFFICES ASSUME NEW i \in DOMAIN recorded'
                   PROVE  /\ recorded'[i].kind = "price_change"
                          /\ recorded'[i].sz = market'[recorded'[i].side][recorded'[i].px]
        OBVIOUS
      <4>1. CASE i \in DOMAIN recorded
        BY <2>1, <2>2, <2>4, <3>4, <4>1
      <4>2. CASE i \notin DOMAIN recorded
        <5>1. i = Len(recorded) + 1
          BY <2>4, <4>2
        <5> QED
          BY <2>1, <2>2, <2>3, <2>4, <5>1
      <4> QED
        BY <4>1, <4>2
    <3>6. ASSUME NEW t \in Sides, NEW q \in Px,
                 \A i \in DOMAIN recorded' : recorded'[i].side # t \/ recorded'[i].px # q
          PROVE  full'[t][q] = market'[t][q]
      <4>1. t # s \/ q # p
        BY <2>3, <2>4, <3>6
      <4>2. \A i \in DOMAIN recorded : recorded[i].side # t \/ recorded[i].px # q
        BY <2>4, <3>6
      <4>3. full[t][q] = market[t][q]
        BY <3>3, <4>2 DEF ChangesOnly
      <4> QED
        BY <2>1, <2>2, <4>1, <4>3
    <3>7. recorded'[Len(recorded')].best = BestOf(market')
      BY <2>1, <2>3, <2>4
    <3>8. BestOf(market') = BestOf(market)'
      BY DEF BestOf, Levels, Top
    <3> QED
      BY <3>5, <3>6, <3>7, <3>8 DEF ChangesOnly
  <2> QED
    BY <2>1, <2>5, <2>6 DEF BurstInv, Leads
<1>3. ASSUME NEW s \in Sides, NEW p \in Px, NEW z \in Sz \cup {0}, LostChange(s, p, z)
      PROVE  BurstInv'
  <2>1. market' \in Markets
    BY <1>1, <1>3, MarketChanges DEF LostChange
  <2>2. synced' = FALSE /\ recorded' = recorded /\ rows' = rows /\ full' = full
    BY <1>3 DEF LostChange, vars
  <2> QED
    BY <1>1, <2>1, <2>2 DEF BurstInv, BurstTypes
<1>4. CASE BookEvent
  <2>1. /\ rows = <<>> /\ rows' = rows /\ full' = full /\ market' = market
        /\ recorded' = Append(recorded, BookRow) /\ synced' = TRUE
    BY <1>4 DEF BookEvent, vars
  <2>2. BookRow.kind = "book" /\ BookRow.book = market /\ BookRow \in BookRows
    BY <1>1 DEF BookRow, BookRows, BurstTypes
  <2>3. /\ recorded' \in Seq(BookRows \cup ChangeRows) /\ recorded' # <<>>
        /\ recorded'[Len(recorded')] = BookRow
    BY <1>1, <2>1, <2>2, RowsGrow
  <2>4. EndsInBook(recorded)'
    BY <2>1, <2>2, <2>3 DEF EndsInBook
  <2> QED
    BY <1>1, <2>1, <2>3, <2>4 DEF BurstInv, BurstTypes, Leads
<1> QED
  BY <1>2, <1>3, <1>4 DEF ArchiveStep

\* The translation keeps what the millisecond leads to.
LEMMA BurstTranslates ==
  ASSUME BurstInv, Translate
  PROVE  BurstInv'
<1>1. /\ BurstTypes /\ recorded # <<>> /\ rows = <<>> /\ recorded' = <<>>
      /\ market' = market /\ synced' = synced /\ full' = full
  BY DEF BurstInv, BurstTypes, Translate, vars
<1>2. BurstTypes'
  BY <1>1, TranslateType, EmptySeq DEF BurstTypes
<1>3. CASE EndsInBook(recorded)
  <2>1. EndsInBook(rows)'
    BY <1>1, <1>3, TranslateType DEF EndsInBook
  <2>2. rows' # <<>>
    BY <2>1 DEF EndsInBook
  <2> QED
    BY <1>2, <2>1, <2>2 DEF BurstInv, Leads
<1>4. CASE ChangesOnly
  <2>1. rows' = <<DeltaRow>> /\ Changes = DOMAIN recorded /\ Changes # {}
    <3>1. rows' = <<DeltaRow>> /\ Changes = DOMAIN recorded
      BY <1>1, <1>4, TranslateType
    <3>2. DOMAIN recorded = 1..Len(recorded) /\ Len(recorded) \in Nat \ {0}
      BY <1>1 DEF BurstTypes
    <3> QED
      BY <3>1, <3>2
  <2>2. rows' = <<rows'[1]>> /\ rows'[1] = DeltaRow /\ rows' # <<>>
    BY <2>1
  <2>3. DeltaRow.kind = "delta_batch"
    BY DEF DeltaRow
  <2>4. ASSUME NEW s \in Sides
        PROVE  /\ \A p \in DOMAIN DeltaRow.levels[s] : DeltaRow.levels[s][p] = market[s][p]
               /\ \A p \in Px \ DOMAIN DeltaRow.levels[s] : full[s][p] = market[s][p]
               /\ \A p \in Levels(market[s]) : ~Better(s, p, DeltaRow.best[s])
    <3>1. ASSUME NEW p \in DOMAIN DeltaRow.levels[s]
          PROVE  DeltaRow.levels[s][p] = market[s][p]
      <4>1. PICK i \in Changes : /\ recorded[i].side = s /\ recorded[i].px = p
                                 /\ recorded[i].sz = DeltaRow.levels[s][p]
        BY <1>1, <2>1, CollapseType
      <4> QED
        BY <1>4, <2>1, <4>1 DEF ChangesOnly
    <3>2. ASSUME NEW p \in Px \ DOMAIN DeltaRow.levels[s]
          PROVE  full[s][p] = market[s][p]
      <4>1. \A i \in DOMAIN recorded : recorded[i].side # s \/ recorded[i].px # p
        BY <1>1, <2>1, CollapseType
      <4> QED
        BY <1>4, <4>1 DEF ChangesOnly
    <3>3. ASSUME NEW p \in Levels(market[s])
          PROVE  ~Better(s, p, DeltaRow.best[s])
      <4> DEFINE last == recorded[Len(recorded)]
      <4>1. last.best = BestOf(market)
        BY <1>1, <1>4 DEF ChangesOnly
      <4>2. Len(recorded) \in Changes
        BY <1>1, <2>1 DEF BurstTypes
      <4>3. ~Better(s, BestOf(market)[s], DeltaRow.best[s])
        BY <1>1, <2>1, <4>1, <4>2, CollapseType
      <4>4. ~Better(s, p, BestOf(market)[s])
        BY NoneBeyondBest
      <4>5. p \in Int /\ BestOf(market)[s] \in Int
        BY BestOfType, PxAssumption DEF Levels
      <4>6. DeltaRow.best[s] \in Int
        BY <1>1, <2>1, CollapseType DEF BatchRows, Bests
      <4> QED
        BY <4>3, <4>4, <4>5, <4>6, BetterOrder
    <3> QED
      BY <3>1, <3>2, <3>3
  <2>5. BatchOnly'
    <3>1. \A s \in Sides :
            /\ \A p \in DOMAIN rows'[1].levels[s] : rows'[1].levels[s][p] = market'[s][p]
            /\ \A p \in Px \ DOMAIN rows'[1].levels[s] : full'[s][p] = market'[s][p]
            /\ \A p \in Levels(market'[s]) : ~Better(s, p, rows'[1].best[s])
      BY <1>1, <2>2, <2>4
    <3>2. \A s \in Sides : Levels(market[s])' = Levels(market'[s])
      BY DEF Levels
    <3> QED
      BY <2>2, <2>3, <3>1, <3>2 DEF BatchOnly
  <2> QED
    BY <1>2, <2>2, <2>5 DEF BurstInv, Leads
<1>5. CASE ~synced
  BY <1>1, <1>2, <1>5 DEF BurstInv
<1> QED
  BY <1>1, <1>3, <1>4, <1>5 DEF BurstInv, Leads

\* The next row of the builder's queue.
LEMMA NextRow ==
  ASSUME BurstTypes, rows # <<>>
  PROVE  /\ recorded = <<>> /\ Head(rows) = rows[1]
         /\ Head(rows).kind = "book" =>
              Head(rows).book \in Markets
         /\ Head(rows).kind = "delta_batch" =>
              Head(rows).levels \in [Sides -> Updates] /\ Head(rows).best \in Bests
         /\ Tail(rows) \in Seq(BookRows \cup BatchRows)
         /\ Len(rows) \in Nat \ {0}
         /\ Tail(rows) = <<>> => Len(rows) = 1
         /\ Tail(rows) # <<>> => Tail(rows)[Len(Tail(rows))] = rows[Len(rows)]
<1> DEFINE S == BookRows \cup BatchRows
<1>1. rows \in Seq(S) /\ rows # <<>> /\ recorded = <<>>
  BY DEF BurstTypes
<1>2. rows[1] \in S
  <2> HIDE DEF S
  <2> QED
    BY <1>1, ElementOfSeq, HeadTailProperties
<1>3. rows[1].kind = "book" => rows[1].book \in Markets
  BY <1>2 DEF BookRows, BatchRows
<1>4. rows[1].kind = "delta_batch" =>
        rows[1].levels \in [Sides -> Updates] /\ rows[1].best \in Bests
  BY <1>2 DEF BookRows, BatchRows
<1> HIDE DEF S
<1>5. /\ Head(rows) = rows[1] /\ Tail(rows) \in Seq(S)
      /\ Len(rows) \in Nat \ {0} /\ Len(Tail(rows)) = Len(rows) - 1
      /\ \A i \in 1..Len(Tail(rows)) : Tail(rows)[i] = rows[i + 1]
  BY <1>1, HeadTailProperties, LenProperties, EmptySeq
<1>6. Tail(rows) = <<>> => Len(rows) = 1
  <2>1. Tail(rows) = <<>> => Len(Tail(rows)) = 0
    BY <1>5, EmptySeq
  <2> QED
    BY <1>5, <2>1
<1>7. Tail(rows) # <<>> => Tail(rows)[Len(Tail(rows))] = rows[Len(rows)]
  <2>1. Tail(rows) # <<>> => Len(Tail(rows)) # 0
    BY <1>5, EmptySeq
  <2>2. Len(Tail(rows)) # 0 => Len(Tail(rows)) \in 1..Len(Tail(rows))
    BY <1>5
  <2> QED
    BY <1>5, <2>1, <2>2
<1> QED
  BY <1>1, <1>3, <1>4, <1>5, <1>6, <1>7 DEF S

\* The rows written lead to the exchange's book.
LEMMA BurstWrites ==
  ASSUME BurstInv, WriteSnapshot \/ WriteDelta
  PROVE  BurstInv'
<1>1. /\ BurstTypes /\ rows # <<>> /\ recorded = <<>> /\ recorded' = recorded
      /\ market' = market /\ synced' = synced /\ rows' = Tail(rows)
      /\ Head(rows) = rows[1]
  BY NextRow DEF BurstInv, WriteSnapshot, WriteDelta
<1>2. full' \in [Sides -> Book]
  <2>1. CASE WriteSnapshot
    BY <1>1, <2>1, NextRow DEF WriteSnapshot, Snapshot, Markets
  <2>2. CASE WriteDelta
    <3>1. /\ Head(rows).levels \in [Sides -> Updates]
          /\ full' = [s \in Sides |->
               FullAfter(s, Head(rows).levels[s], Head(rows).best[s], FALSE)]
      BY <1>1, <2>2, NextRow DEF WriteDelta, Delta
    <3>2. ASSUME NEW s \in Sides
          PROVE  FullAfter(s, Head(rows).levels[s], Head(rows).best[s], FALSE) \in Book
      <4>1. full[s] \in Book /\ Head(rows).levels[s] \in Updates
        BY <1>1, <3>1 DEF BurstTypes
      <4>2. Apply(full[s], Head(rows).levels[s]) \in Book
        BY <4>1, BookOps
      <4> QED
        BY <4>2, BookOps DEF FullAfter
    <3> QED
      BY <3>1, <3>2
  <2> QED
    BY <2>1, <2>2
<1>3. BurstTypes'
  BY <1>1, <1>2, NextRow DEF BurstTypes
<1>4. ASSUME synced, EndsInBook(rows), Tail(rows) # <<>>
      PROVE  Leads'
  BY <1>1, <1>4, NextRow DEF EndsInBook, Leads
<1>5. ASSUME Tail(rows) = <<>>, full' = market
      PROVE  Leads'
  <2>1. ChangesOnly'
    BY <1>1, <1>5 DEF ChangesOnly
  <2> QED
    BY <1>1, <1>5, <2>1 DEF Leads
<1>6. ASSUME synced, EndsInBook(rows), Tail(rows) = <<>>
      PROVE  full' = market
  <2>1. Len(rows) = 1
    BY <1>1, <1>6, NextRow
  <2>2. Head(rows).kind = "book" /\ Head(rows).book = market
    BY <1>1, <1>6, <2>1 DEF EndsInBook
  <2> QED
    BY <2>2 DEF WriteSnapshot, WriteDelta, Snapshot
<1>7. ASSUME synced, BatchOnly
      PROVE  Tail(rows) = <<>> /\ full' = market
  <2>1. /\ rows = <<rows[1]>> /\ rows[1].kind = "delta_batch"
        /\ \A s \in Sides :
             /\ \A p \in DOMAIN rows[1].levels[s] : rows[1].levels[s][p] = market[s][p]
             /\ \A p \in Px \ DOMAIN rows[1].levels[s] : full[s][p] = market[s][p]
             /\ \A p \in Levels(market[s]) : ~Better(s, p, rows[1].best[s])
    BY <1>7 DEF BatchOnly
  <2>2. /\ full' = [s \in Sides |-> FullAfter(s, rows[1].levels[s], rows[1].best[s], FALSE)]
        /\ rows[1].levels \in [Sides -> Updates]
    BY <1>1, <2>1, NextRow DEF WriteSnapshot, WriteDelta, Delta
  <2>3. market \in Markets
    BY <1>1 DEF BurstTypes
  <2>4. ASSUME NEW s \in Sides
        PROVE  FullAfter(s, rows[1].levels[s], rows[1].best[s], FALSE) = market[s]
    <3> DEFINE u == rows[1].levels[s]
               b == rows[1].best[s]
    <3>1. /\ u \in Updates
          /\ \A p \in DOMAIN u : u[p] = market[s][p]
          /\ \A p \in Px \ DOMAIN u : full[s][p] = market[s][p]
          /\ \A p \in Levels(market[s]) : ~Better(s, p, b)
      BY <2>1, <2>2
    <3> HIDE DEF u, b
    <3>2. FullAfter(s, u, b, FALSE) = market[s]
      BY <2>3, <3>1, BatchCompletes
    <3> QED
      BY <3>2 DEF u, b
  <2>5. full' = [s \in Sides |-> market[s]]
    BY <2>2, <2>4
  <2>6. market = [s \in Sides |-> market[s]]
    BY <2>3 DEF Markets
  <2>7. Tail(<<rows[1]>>) = <<>>
    OBVIOUS
  <2> QED
    BY <2>1, <2>5, <2>6, <2>7
<1>8. synced => Leads'
  BY <1>1, <1>4, <1>5, <1>6, <1>7 DEF BurstInv, Leads
<1> QED
  BY <1>1, <1>3, <1>8 DEF BurstInv

LEMMA BurstInvariance == FeedSpec => []BurstInv
<1>1. BurstInv /\ [FeedNext]_replayVars => BurstInv'
  <2> SUFFICES ASSUME BurstInv, [FeedNext]_replayVars PROVE BurstInv'
    OBVIOUS
  <2>1. CASE UNCHANGED replayVars
    BY <2>1 DEF replayVars, feedVars, vars, BurstInv, BurstTypes, Leads, EndsInBook,
       ChangesOnly, BatchOnly, BestOf, Levels, Top
  <2>2. CASE ArchiveStep
    BY <2>2, BurstArchives
  <2>3. CASE Translate
    BY <2>3, BurstTranslates
  <2>4. CASE WriteSnapshot \/ WriteDelta
    BY <2>4, BurstWrites
  <2>5. ArchiveStep \/ Translate \/ WriteSnapshot \/ WriteDelta \/ UNCHANGED replayVars
    BY DEF FeedNext, ArchiveStep
  <2> QED
    BY <2>1, <2>2, <2>3, <2>4, <2>5
<1> QED
  BY <1>1, BurstStarts, PTL DEF FeedSpec

\* A complete record since a snapshot makes the builder's full book the
\* exchange's: the collapse of a millisecond's changes into one batch loses
\* nothing of it, unless a change overtakes another of its level or a book.
THEOREM FullIsMarket == FeedSpec => []FullTracksMarket
<1>1. BurstInv => FullTracksMarket
  <2> SUFFICES ASSUME BurstInv, Settled, synced PROVE full = market
    BY DEF FullTracksMarket
  <2>1. recorded = <<>> /\ rows = <<>>
    BY DEF Settled
  <2>2. ChangesOnly
    BY <2>1 DEF BurstInv, Leads, EndsInBook
  <2>3. \A s \in Sides, p \in Px : full[s][p] = market[s][p]
    BY <2>1, <2>2 DEF ChangesOnly
  <2>4. full \in [Sides -> [Px -> Sz \cup {0}]] /\ market \in [Sides -> [Px -> Sz \cup {0}]]
    BY DEF BurstInv, BurstTypes, Markets, Book
  <2>5. \A s \in Sides : full[s] = market[s]
    BY <2>3, <2>4
  <2> QED
    BY <2>4, <2>5
<1> QED
  BY <1>1, BurstInvariance, PTL

\* The translated feed drives the repair as BookRepair allows: its theorems
\* hold of every archive, whatever rows it lost and however many fell into a
\* millisecond.
THEOREM FeedIsRepair == Covered => (FeedSpec => Spec)
<1> SUFFICES ASSUME Covered PROVE FeedSpec => Spec
  OBVIOUS
<1>1. FeedInit => Init
  BY DEF FeedInit
<1>2. BurstInv /\ [FeedNext]_replayVars => [Next]_vars
  <2> SUFFICES ASSUME BurstInv, [FeedNext]_replayVars PROVE Next \/ UNCHANGED vars
    OBVIOUS
  <2>1. CASE WriteSnapshot
    <3>1. Snapshot(Head(rows).book) /\ Head(rows).book \in Markets
      BY <2>1, NextRow DEF WriteSnapshot, BurstInv
    <3> QED
      BY <3>1 DEF Next, Markets
  <2>2. CASE WriteDelta
    <3>1. /\ Delta(Head(rows).levels, Head(rows).best, FALSE)
          /\ Head(rows).levels \in [Sides -> Updates] /\ Head(rows).best \in Bests
      BY <2>2, NextRow DEF WriteDelta, BurstInv
    <3>2. Head(rows).best \in [Sides -> Bounds]
      BY <3>1 DEF Bests, Covered
    <3> QED
      BY <3>1, <3>2 DEF Next
  <2>3. CASE UNCHANGED replayVars
    BY <2>3 DEF replayVars
  <2>4. CASE \E s \in Sides, p \in Px, z \in Sz \cup {0} : Change(s, p, z) \/ LostChange(s, p, z)
    BY <2>4 DEF Change, LostChange
  <2>5. CASE BookEvent \/ Translate
    BY <2>5 DEF BookEvent, Translate
  <2> QED
    BY <2>1, <2>2, <2>3, <2>4, <2>5 DEF FeedNext
<1> QED
  BY <1>1, <1>2, BurstInvariance, PTL DEF FeedSpec, Spec

\* The recorded best price stays the top of the full book, and a reader keeps
\* no level that the best price of the last batch contradicts, however the
\* rows of the archive fall into milliseconds.
THEOREM FeedKeepsBest == Covered => (FeedSpec => [](BestIsTop /\ SuperiorPurged))
<1> SUFFICES ASSUME Covered PROVE FeedSpec => [](BestIsTop /\ SuperiorPurged)
  OBVIOUS
<1>1. NoBound \notin Bounds
  BY DEF Covered
<1>2. (Spec => []BestIsTop) /\ (Spec => []SuperiorPurged)
  BY <1>1, BestStaysTop, SuperiorArePurged
<1> QED
  BY <1>2, FeedIsRepair, PTL

\* What BookRepair's theorems say of the state of the repair.
LEMMA RepairFacts ==
  Covered =>
    (FeedSpec => [](TypeOK /\ PublishedWithinFull /\ ReplayMatchesPublished /\ BestIsTop))
<1> SUFFICES ASSUME Covered
             PROVE  FeedSpec =>
               [](TypeOK /\ PublishedWithinFull /\ ReplayMatchesPublished /\ BestIsTop)
  OBVIOUS
<1>1. NoBound \notin Bounds
  BY DEF Covered
<1>2. Spec => []BestIsTop
  BY <1>1, BestStaysTop
<1>3. FeedSpec => Spec
  BY FeedIsRepair
<1> QED
  BY <1>2, <1>3, TypeCorrect, PublishedStaysWithinFull, ReplayIsPublished, PTL

\* After a snapshot and a complete record a reader's book is not crossed,
\* however many rows fall into a millisecond; only a lost or overtaken change
\* can cross it then.
THEOREM CompleteNeverCrossed ==
  Covered => (FeedSpec => [](Settled /\ synced => Uncrossed(replay)))
<1> SUFFICES ASSUME Covered
             PROVE  FeedSpec => [](Settled /\ synced => Uncrossed(replay))
  OBVIOUS
<1> DEFINE Repair == TypeOK /\ PublishedWithinFull /\ ReplayMatchesPublished /\ BestIsTop
<1>1. Repair /\ BurstInv /\ FullTracksMarket => (Settled /\ synced => Uncrossed(replay))
  <2> SUFFICES ASSUME Repair, BurstInv, FullTracksMarket, Settled, synced
               PROVE  Uncrossed(replay)
    OBVIOUS
  <2>1. full = market /\ Uncrossed(market)
    BY DEF FullTracksMarket, BurstInv, BurstTypes, Markets
  <2>2. \A s \in Sides : Levels(replay[s]) \subseteq Levels(full[s])
    BY DEF PublishedWithinFull, ReplayMatchesPublished, Levels
  <2> QED
    BY <2>1, <2>2 DEF Uncrossed
<1> HIDE DEF Repair
<1>2. FeedSpec => []Repair
  BY RepairFacts DEF Repair
<1> QED
  BY <1>1, <1>2, BurstInvariance, FullIsMarket, PTL

-----------------------------------------------------------------------------
(* The feed with one archived row in a millisecond.                        *)

\* One archived row per millisecond.
Single == MaxBurst = 1

-----------------------------------------------------------------------------
(* What a row tells of the exchange.                                       *)

\* What row r says of the book m of the exchange is right.
Told(r, m) ==
  \/ r.kind = "book" /\ r.book = m
  \/ /\ r.kind = "price_change"
     /\ r.side \in Sides /\ r.px \in Px
     /\ r.sz = m[r.side][r.px]
     /\ r.best = BestOf(m)
  \/ /\ r.kind = "delta_batch"
     /\ r.levels \in [Sides -> Updates]
     /\ \A s \in Sides : \A p \in DOMAIN r.levels[s] : r.levels[s][p] = m[s][p]
     /\ r.best = BestOf(m)

\* The builder's full book lacks nothing of m but what row r says.
Completes(r, m) ==
  \/ r.kind = "book"
  \/ /\ r.kind = "price_change"
     /\ \A s \in Sides, p \in Px : s # r.side \/ p # r.px => full[s][p] = m[s][p]
  \/ /\ r.kind = "delta_batch"
     /\ \A s \in Sides : \A p \in Px \ DOMAIN r.levels[s] : full[s][p] = m[s][p]

\* A queue holds one row at most; while the record is complete the row leads to
\* the exchange's present book.
Sound(queue, kinds) ==
  \/ queue = <<>>
  \/ /\ queue = <<queue[1]>>
     /\ queue[1].kind \in kinds
     /\ \E m \in Markets :
          /\ Told(queue[1], m)
          /\ synced => m = market /\ Completes(queue[1], m)

FeedInv ==
  /\ market \in Markets
  /\ synced \in BOOLEAN
  /\ Sound(recorded, {"book", "price_change"})
  /\ Sound(rows, {"book", "delta_batch"})
  /\ recorded = <<>> \/ rows = <<>>

\* The translation of a single archived row.
LEMMA TranslateOne ==
  ASSUME Single, FeedInv, Translate
  PROVE  /\ rows' = <<rows'[1]>>
         /\ recorded[1].kind = "book" => rows'[1] = recorded[1]
         /\ recorded[1].kind = "price_change" =>
              /\ rows'[1].kind = "delta_batch"
              /\ rows'[1].levels = [s \in Sides |->
                   IF s = recorded[1].side THEN [p \in {recorded[1].px} |-> recorded[1].sz]
                   ELSE [p \in {} |-> 0]]
              /\ rows'[1].best = [s \in Sides |-> recorded[1].best[s]]
<1>1. recorded = <<recorded[1]>> /\ recorded[1].kind \in {"book", "price_change"}
  BY DEF FeedInv, Sound, Translate
<1>2. DOMAIN recorded = {1}
  BY <1>1
<1>3. Placed = {1}
  <2>1. CASE recorded[1].kind = "book"
    BY <1>2, <2>1 DEF Placed
  <2>2. CASE recorded[1].kind = "price_change"
    <3>1. Changes = {1}
      BY <1>2, <2>2 DEF Changes
    <3>2. Min(Changes) = 1
      BY <3>1 DEF Min
    <3> QED
      BY <1>2, <2>2, <3>2 DEF Placed
  <2> QED
    BY <1>1, <2>1, <2>2
<1>4. Cardinality(Placed) = 1
  BY <1>3, FS_Singleton
<1>5. (CHOOSE i \in Placed : Cardinality({j \in Placed : j <= i}) = 1) = 1
  <2>1. {j \in Placed : j <= 1} = {1}
    BY <1>3
  <2>2. Cardinality({j \in Placed : j <= 1}) = 1
    BY <2>1, FS_Singleton
  <2> QED
    BY <1>3, <2>2
<1> DEFINE At(k) == RowAt(CHOOSE i \in Placed : Cardinality({j \in Placed : j <= i}) = k)
<1>6. rows' = [k \in 1..1 |-> At(k)] /\ At(1) = RowAt(1)
  BY <1>4, <1>5 DEF Translate, TranslatedRows
<1>7. rows' = <<RowAt(1)>>
  <2> HIDE DEF At
  <2>1. [k \in 1..1 |-> At(k)] = <<At(1)>>
    OBVIOUS
  <2> QED
    BY <1>6, <2>1
<1>8. rows' = <<rows'[1]>> /\ rows'[1] = RowAt(1)
  BY <1>7
<1>9. recorded[1].kind = "book" => RowAt(1) = recorded[1]
  BY DEF RowAt
<1>10. ASSUME recorded[1].kind = "price_change"
       PROVE  /\ RowAt(1).kind = "delta_batch"
              /\ RowAt(1).levels = [s \in Sides |->
                   IF s = recorded[1].side THEN [p \in {recorded[1].px} |-> recorded[1].sz]
                   ELSE [p \in {} |-> 0]]
              /\ RowAt(1).best = [s \in Sides |-> recorded[1].best[s]]
  <2>1. Changes = {1}
    BY <1>2, <1>10 DEF Changes
  <2>2. RowAt(1) = DeltaRow
    BY <1>10 DEF RowAt
  <2>3. ASSUME NEW s \in Sides, s = recorded[1].side
        PROVE  CollapsedLevels(s) = [p \in {recorded[1].px} |-> recorded[1].sz]
    <3>1. ChangesOf(s) = {1}
      BY <2>1, <2>3 DEF ChangesOf
    <3>2. {recorded[i].px : i \in ChangesOf(s)} = {recorded[1].px}
      BY <3>1
    <3>3. {recorded[i].sz : i \in {j \in ChangesOf(s) : recorded[j].px = recorded[1].px}}
            = {recorded[1].sz}
      BY <3>1
    <3>4. Min({recorded[1].sz}) = recorded[1].sz
      <4>1. recorded[1].sz \in Int
        <5>1. PICK m \in Markets : Told(recorded[1], m)
          BY <1>1 DEF FeedInv, Sound, Translate
        <5>2. /\ recorded[1].side \in Sides /\ recorded[1].px \in Px
              /\ recorded[1].sz = m[recorded[1].side][recorded[1].px]
          BY <5>1, <1>10 DEF Told
        <5>3. recorded[1].sz \in Sz \cup {0}
          BY <5>2 DEF Markets, Book
        <5>4. Sz \cup {0} \subseteq Int
          BY SzAssumption
        <5> QED
          BY <5>3, <5>4
      <4> QED
        BY <4>1 DEF Min
    <3> QED
      BY <3>2, <3>3, <3>4 DEF CollapsedLevels
  <2>4. ASSUME NEW s \in Sides, s # recorded[1].side
        PROVE  CollapsedLevels(s) = [p \in {} |-> 0]
    <3>1. ChangesOf(s) = {}
      BY <2>1, <2>4 DEF ChangesOf
    <3> QED
      BY <3>1 DEF CollapsedLevels
  <2>5. ASSUME NEW s \in Sides PROVE CollapsedBest(s) = recorded[1].best[s]
    <3>1. {recorded[i].best[s] : i \in Changes} = {recorded[1].best[s]}
      BY <2>1
    <3>2. recorded[1].best[s] \in Int
      <4>1. PICK m \in Markets : Told(recorded[1], m)
        BY <1>1 DEF FeedInv, Sound, Translate
      <4> QED
        BY <4>1, <1>10, BestOfType DEF Told
    <3>3. ASSUME NEW x \in Int PROVE Min({x}) = x /\ Max({x}) = x
      BY DEF Min, Max
    <3> QED
      BY <3>1, <3>2, <3>3 DEF CollapsedBest
  <2> QED
    BY <2>2, <2>3, <2>4, <2>5 DEF DeltaRow
<1> QED
  BY <1>8, <1>9, <1>10

-----------------------------------------------------------------------------
(* The feed's invariant.                                                   *)

\* Reads the facts of a pending batch.
LEMMA BatchOf ==
  ASSUME FeedInv, rows # <<>>, Head(rows).kind = "delta_batch"
  PROVE  \E m \in Markets :
           /\ Head(rows) = rows[1] /\ rows = <<rows[1]>>
           /\ rows[1].levels \in [Sides -> Updates]
           /\ \A s \in Sides : \A p \in DOMAIN rows[1].levels[s] :
                rows[1].levels[s][p] = m[s][p]
           /\ rows[1].best = BestOf(m)
           /\ synced =>
                /\ m = market
                /\ \A s \in Sides : \A p \in Px \ DOMAIN rows[1].levels[s] :
                     full[s][p] = m[s][p]
<1>1. rows = <<rows[1]>> /\ Head(rows) = rows[1]
  BY DEF FeedInv, Sound
<1>2. PICK m \in Markets :
        Told(rows[1], m) /\ (synced => m = market /\ Completes(rows[1], m))
  BY DEF FeedInv, Sound
<1>3. rows[1].kind = "delta_batch"
  BY <1>1
<1>4. synced => \A s \in Sides : \A p \in Px \ DOMAIN rows[1].levels[s] :
                  full[s][p] = m[s][p]
  BY <1>2, <1>3 DEF Completes
<1>5. /\ rows[1].levels \in [Sides -> Updates]
      /\ \A s \in Sides : \A p \in DOMAIN rows[1].levels[s] :
           rows[1].levels[s][p] = m[s][p]
      /\ rows[1].best = BestOf(m)
  BY <1>2, <1>3 DEF Told
<1> QED
  BY <1>1, <1>2, <1>4, <1>5

\* Reads the facts of a pending snapshot.
LEMMA SnapshotOf ==
  ASSUME FeedInv, rows # <<>>, Head(rows).kind = "book"
  PROVE  /\ Head(rows) = rows[1] /\ rows = <<rows[1]>>
         /\ rows[1].book \in Markets
         /\ synced => rows[1].book = market
<1>1. rows = <<rows[1]>> /\ Head(rows) = rows[1]
  BY DEF FeedInv, Sound
<1>2. PICK m \in Markets :
        Told(rows[1], m) /\ (synced => m = market /\ Completes(rows[1], m))
  BY DEF FeedInv, Sound
<1>3. rows[1].kind = "book"
  BY <1>1
<1>4. rows[1].book = m
  BY <1>2, <1>3 DEF Told
<1> QED
  BY <1>1, <1>2, <1>4

\* A level that a batch leaves in the full book is not better than the best
\* price it carries: a batch's own levels agree with that price, and of the
\* others those that contradict it are purged.
LEMMA BatchBounds ==
  ASSUME BestIsTop, TypeOK, NEW m, NEW s \in Sides, NEW upd \in Updates,
         \A p \in DOMAIN upd : upd[p] = m[s][p],
         NEW p \in Px, FullAfter(s, upd, BestOf(m)[s], FALSE)[p] # 0
  PROVE  ~Better(s, p, BestOf(m)[s])
<1> DEFINE b == BestOf(m)[s]
<1>1. b \in Int /\ b # NoBound
  BY BestOfType, NoBoundAssumption
<1>2. CASE p \in DOMAIN upd
  <2>1. upd[p] # 0
    BY <1>2 DEF FullAfter, Drop, Apply
  <2>2. p \in Levels(m[s])
    BY <1>2, <2>1 DEF Levels
  <2> QED
    BY <2>2, NoneBeyondBest
<1>3. CASE p \notin DOMAIN upd
  <2>1. p \notin Stale(s, upd, b, FALSE) /\ full[s][p] # 0
    BY <1>3 DEF FullAfter, Drop, Apply
  <2>2. CASE Retreats(s, b)
    <3>1. p \in Suspects(s, upd, b, FALSE)
      BY <1>3, <2>2 DEF Suspects, TouchedBy
    <3> QED
      BY <1>1, <2>1, <3>1 DEF Stale
  <2>3. CASE ~Retreats(s, b)
    <3>1. best[s] \in Int /\ ~Better(s, best[s], b)
      BY <2>3 DEF Retreats, TypeOK
    <3>2. p \in Levels(full[s]) /\ best[s] = Top(s, full[s])
      BY <2>1 DEF Levels, BestIsTop
    <3>3. ~Better(s, p, best[s])
      BY <3>2, TopExists
    <3> QED
      BY <1>1, <3>1, <3>3, BetterOrder, PxAssumption
  <2> QED
    BY <2>2, <2>3
<1> QED
  BY <1>2, <1>3

\* The initial book of the exchange is any uncrossed one.
LEMMA FeedStarts == FeedInit => FeedInv
BY DEF FeedInit, FeedInv, Sound, Settled, Markets

LEMMA ArchiveKeeps ==
  ASSUME Single, FeedInv, FullTracksMarket, ArchiveStep
  PROVE  FeedInv'
<1>1. market \in Markets /\ synced \in BOOLEAN
  BY DEF FeedInv
<1>2. ASSUME NEW s \in Sides, NEW p \in Px, NEW z \in Sz \cup {0}, Change(s, p, z)
      PROVE  FeedInv'
  <2>1. rows = <<>> /\ recorded = <<>> /\ rows' = rows
    <3>1. Len(recorded) < 1 /\ rows = <<>> /\ rows' = rows
      BY <1>2 DEF Change, Single
    <3>2. recorded = <<>> \/ recorded = <<recorded[1]>>
      BY DEF FeedInv, Sound
    <3> QED
      BY <3>1, <3>2
  <2>2. recorded' = <<ChangeRow(s, p, z)>>
    BY <1>2, <2>1 DEF Change
  <2>3. /\ market' \in Markets /\ market'[s][p] = z
        /\ \A t \in Sides, q \in Px : t # s \/ q # p => market'[t][q] = market[t][q]
        /\ market' = [market EXCEPT ![s][p] = z]
    <3>1. /\ Uncrossed([market EXCEPT ![s][p] = z])
          /\ market' = [market EXCEPT ![s][p] = z]
      BY <1>2 DEF Change
    <3> QED
      BY <1>1, <3>1 DEF Markets, Book
  <2>4. recorded'[1] = ChangeRow(s, p, z) /\ recorded' = <<recorded'[1]>>
    BY <2>2
  <2>5. BestOf([market EXCEPT ![s][p] = z]) = BestOf(market')
    BY <2>3
  <2>6. /\ recorded'[1].kind = "price_change"
        /\ recorded'[1].side = s /\ recorded'[1].px = p /\ recorded'[1].sz = z
        /\ recorded'[1].best = BestOf(market')
    BY <2>4, <2>5 DEF ChangeRow
  <2>7. Told(recorded[1], market)'
    BY <2>3, <2>6 DEF Told
  <2>8. synced' \in BOOLEAN /\ (synced' => synced) /\ full' = full
    BY <1>1, <1>2 DEF Change, vars
  <2>9. synced => full = market
    BY <2>1 DEF FullTracksMarket, Settled
  <2>10. synced' => Completes(recorded[1], market)'
    BY <2>3, <2>6, <2>8, <2>9 DEF Completes
  <2>11. Sound(recorded, {"book", "price_change"})'
    <3>1. \E m \in Markets :
            Told(recorded[1], m)' /\ (synced' => m = market' /\ Completes(recorded[1], m)')
      <4>1. PICK m \in Markets : m = market'
        BY <2>3
      <4>2. Told(recorded[1], m)'
        BY <2>7, <4>1 DEF Told
      <4>3. synced' => Completes(recorded[1], m)'
        BY <2>10, <4>1 DEF Completes
      <4> QED
        BY <4>1, <4>2, <4>3
    <3> QED
      BY <2>4, <2>6, <3>1 DEF Sound
  <2>12. Sound(rows, {"book", "delta_batch"})' /\ recorded' # <<>>
    BY <2>1, <2>2 DEF Sound
  <2> QED
    BY <2>1, <2>3, <2>8, <2>11, <2>12 DEF FeedInv, Settled
<1>3. ASSUME NEW s \in Sides, NEW p \in Px, NEW z \in Sz \cup {0}, LostChange(s, p, z)
      PROVE  FeedInv'
  <2>1. market' \in Markets
    BY <1>1, <1>3 DEF LostChange, Markets, Book
  <2>2. synced' = FALSE /\ recorded' = recorded /\ rows' = rows
    BY <1>3 DEF LostChange
  <2>3. Sound(recorded, {"book", "price_change"})' /\ Sound(rows, {"book", "delta_batch"})'
    BY <2>2 DEF FeedInv, Sound
  <2> QED
    BY <2>1, <2>2, <2>3 DEF FeedInv
<1>4. CASE BookEvent
  <2>1. rows = <<>> /\ recorded = <<>> /\ rows' = rows
    <3>1. Len(recorded) < 1 /\ rows = <<>> /\ rows' = rows
      BY <1>4 DEF BookEvent, Single
    <3>2. recorded = <<>> \/ recorded = <<recorded[1]>>
      BY DEF FeedInv, Sound
    <3> QED
      BY <3>1, <3>2
  <2>2. recorded' = <<BookRow>> /\ synced' = TRUE /\ market' = market
    BY <1>4, <2>1 DEF BookEvent
  <2>3. /\ recorded' = <<recorded'[1]>>
        /\ recorded'[1].kind = "book" /\ recorded'[1].book = market'
    BY <2>2 DEF BookRow
  <2>4. Sound(recorded, {"book", "price_change"})'
    BY <1>1, <2>2, <2>3 DEF Sound, Told, Completes
  <2>5. Sound(rows, {"book", "delta_batch"})' /\ recorded' # <<>>
    BY <2>1, <2>2 DEF Sound
  <2> QED
    BY <1>1, <2>1, <2>2, <2>4, <2>5 DEF FeedInv, Settled
<1> QED
  BY <1>2, <1>3, <1>4 DEF ArchiveStep

\* The translation keeps what the archived row tells.
LEMMA TranslateKeeps ==
  ASSUME Single, FeedInv, Translate
  PROVE  FeedInv'
<1>1. /\ recorded = <<recorded[1]>> /\ recorded[1].kind \in {"book", "price_change"}
      /\ recorded # <<>> /\ rows = <<>>
  BY DEF FeedInv, Sound, Translate
<1>2. PICK m \in Markets :
        Told(recorded[1], m) /\ (synced => m = market /\ Completes(recorded[1], m))
  BY <1>1 DEF FeedInv, Sound
<1>3. /\ recorded' = <<>> /\ market' = market /\ synced' = synced /\ full' = full
      /\ rows' = <<rows'[1]>>
  BY TranslateOne DEF Translate, vars
<1>4. CASE recorded[1].kind = "book"
  <2>1. rows'[1] = recorded[1] /\ rows'[1].kind = "book" /\ rows'[1].book = m
    BY <1>2, <1>4, TranslateOne DEF Told
  <2>2. Sound(rows, {"book", "delta_batch"})'
    BY <1>2, <1>3, <2>1 DEF Sound, Told, Completes
  <2> QED
    BY <1>3, <2>2 DEF FeedInv, Sound, Settled
<1>5. CASE recorded[1].kind = "price_change"
  <2> DEFINE side == recorded[1].side
             px == recorded[1].px
             sz == recorded[1].sz
  <2>1. /\ side \in Sides /\ px \in Px /\ sz = m[side][px]
        /\ recorded[1].best = BestOf(m)
    BY <1>2, <1>5 DEF Told
  <2>2. sz \in Sz \cup {0}
    BY <2>1 DEF Markets, Book
  <2>3. /\ rows'[1].kind = "delta_batch"
        /\ rows'[1].levels = [s \in Sides |->
             IF s = side THEN [p \in {px} |-> sz] ELSE [p \in {} |-> 0]]
        /\ rows'[1].best = [s \in Sides |-> recorded[1].best[s]]
    BY <1>5, TranslateOne
  <2>4. rows'[1].best = BestOf(m)
    BY <2>1, <2>3 DEF BestOf
  <2>5. ASSUME NEW s \in Sides
        PROVE  /\ rows'[1].levels[s] \in Updates
               /\ \A p \in DOMAIN rows'[1].levels[s] : rows'[1].levels[s][p] = m[s][p]
               /\ s = side => DOMAIN rows'[1].levels[s] = {px}
    <3>1. CASE s = side
      <4>1. rows'[1].levels[s] = [p \in {px} |-> sz]
        BY <2>3, <3>1
      <4>2. [p \in {px} |-> sz] \in [{px} -> Sz \cup {0}] /\ {px} \in SUBSET Px
        BY <2>1, <2>2
      <4> HIDE DEF px, sz, side
      <4>3. [p \in {px} |-> sz] \in Updates
        BY <4>2 DEF Updates
      <4> QED
        BY <2>1, <3>1, <4>1, <4>3
    <3>2. CASE s # side
      <4>1. rows'[1].levels[s] = [p \in {} |-> 0]
        BY <2>3, <3>2
      <4>2. [p \in {} |-> 0] \in [{} -> Sz \cup {0}] /\ {} \in SUBSET Px
        OBVIOUS
      <4>3. [p \in {} |-> 0] \in Updates
        BY <4>2 DEF Updates
      <4> QED
        BY <3>2, <4>1, <4>3
    <3> QED
      BY <3>1, <3>2
  <2>6. rows'[1].levels \in [Sides -> Updates]
    BY <2>3, <2>5
  <2>7. Told(rows'[1], m)
    BY <2>3, <2>4, <2>5, <2>6 DEF Told
  <2>8. synced => \A s \in Sides : \A p \in Px \ DOMAIN rows'[1].levels[s] :
                    full[s][p] = m[s][p]
    <3>1. synced => \A s \in Sides, p \in Px : s # side \/ p # px => full[s][p] = m[s][p]
      BY <1>2, <1>5 DEF Completes
    <3> QED
      BY <2>5, <3>1
  <2>9. Sound(rows, {"book", "delta_batch"})'
    BY <1>2, <1>3, <2>3, <2>7, <2>8 DEF Sound, Told, Completes
  <2> QED
    BY <1>3, <2>9 DEF FeedInv, Sound, Settled
<1> QED
  BY <1>1, <1>4, <1>5

\* Writing the row ends the millisecond.
LEMMA WriteKeeps ==
  ASSUME FeedInv, WriteSnapshot \/ WriteDelta
  PROVE  FeedInv'
<1>1. rows # <<>> /\ rows' = Tail(rows)
  BY DEF WriteSnapshot, WriteDelta
<1>2. recorded = <<>> /\ rows = <<rows[1]>>
  BY <1>1 DEF FeedInv, Sound
<1>3. Tail(<<rows[1]>>) = <<>>
  OBVIOUS
<1>4. rows' = <<>> /\ recorded' = <<>> /\ market' = market /\ synced' = synced
  BY <1>1, <1>2, <1>3 DEF WriteSnapshot, WriteDelta
<1> QED
  BY <1>4 DEF FeedInv, Sound

LEMMA FeedInvariance == Single => (FeedSpec => []FeedInv)
<1> SUFFICES ASSUME Single PROVE FeedSpec => []FeedInv
  OBVIOUS
<1>1. FeedInv /\ FullTracksMarket /\ [FeedNext]_replayVars => FeedInv'
  <2> SUFFICES ASSUME FeedInv, FullTracksMarket, [FeedNext]_replayVars PROVE FeedInv'
    OBVIOUS
  <2>1. CASE UNCHANGED replayVars
    <3>1. /\ market' = market /\ recorded' = recorded /\ rows' = rows
          /\ synced' = synced /\ full' = full
      BY <2>1 DEF replayVars, feedVars, vars
    <3>2. \A r, m : Completes(r, m)' <=> Completes(r, m)
      BY <3>1 DEF Completes
    <3>3. Sound(recorded, {"book", "price_change"})'
      BY <3>1, <3>2 DEF FeedInv, Sound, Told
    <3>4. Sound(rows, {"book", "delta_batch"})'
      BY <3>1, <3>2 DEF FeedInv, Sound, Told
    <3> QED
      BY <3>1, <3>3, <3>4 DEF FeedInv, Settled
  <2>2. CASE ArchiveStep
    BY <2>2, ArchiveKeeps
  <2>3. CASE Translate
    BY <2>3, TranslateKeeps
  <2>4. CASE WriteSnapshot \/ WriteDelta
    BY <2>4, WriteKeeps
  <2>5. ArchiveStep \/ Translate \/ WriteSnapshot \/ WriteDelta \/ UNCHANGED replayVars
    BY DEF FeedNext, ArchiveStep
  <2> QED
    BY <2>1, <2>2, <2>3, <2>4, <2>5
<1> QED
  BY <1>1, FeedStarts, FullIsMarket, PTL DEF FeedSpec

-----------------------------------------------------------------------------
(* Theorems.                                                               *)

\* A batch leaves the full book uncrossed: neither side keeps a level beyond
\* the best price of an uncrossed book.
LEMMA BatchUncrosses ==
  ASSUME BestIsTop, TypeOK, NEW m \in Markets, NEW upd \in [Sides -> Updates],
         \A s \in Sides : \A p \in DOMAIN upd[s] : upd[s][p] = m[s][p]
  PROVE  Uncrossed([s \in Sides |-> FullAfter(s, upd[s], BestOf(m)[s], FALSE)])
<1> DEFINE after == [s \in Sides |-> FullAfter(s, upd[s], BestOf(m)[s], FALSE)]
<1>1. ASSUME NEW s \in Sides, NEW p \in Levels(after[s])
      PROVE  /\ p \in Int /\ ~Better(s, p, BestOf(m)[s])
             /\ Levels(m[s]) # {} /\ BestOf(m)[s] = Top(s, m[s])
             /\ Top(s, m[s]) \in Levels(m[s]) /\ Top(s, m[s]) \in Int
  <2>1. p \in Px /\ FullAfter(s, upd[s], BestOf(m)[s], FALSE)[p] # 0
    BY <1>1 DEF Levels
  <2>2. ~Better(s, p, BestOf(m)[s])
    BY <2>1, BatchBounds
  <2>3. Levels(m[s]) # {}
    BY <2>1, <2>2, BestOfType, EmptyBestAssumption
  <2> QED
    BY <2>1, <2>2, <2>3, BestOfType, TopExists, PxAssumption DEF Levels
<1>2. ASSUME NEW s \in Sides, NEW t \in Sides, s # t,
             NEW p \in Levels(after[s]), NEW q \in Levels(after[t])
      PROVE  Better(s, q, p)
  <2> HIDE DEF after
  <2>1. Better(s, Top(t, m[t]), Top(s, m[s]))
    BY <1>1, <1>2 DEF Markets, Uncrossed
  <2>2. ~Better(s, p, Top(s, m[s])) /\ ~Better(t, q, Top(t, m[t]))
    BY <1>1, <1>2
  <2>3. p \in Int /\ q \in Int /\ Top(s, m[s]) \in Int /\ Top(t, m[t]) \in Int
    BY <1>1, <1>2
  <2>4. s \in {"Buy", "Sell"} /\ t \in {"Buy", "Sell"}
    BY SidesAssumption
  <2> QED
    BY <1>2, <2>1, <2>2, <2>3, <2>4 DEF Better
<1> QED
  BY <1>2 DEF Uncrossed

\* A reader's book is never crossed, whatever rows the archive lost.
THEOREM ReaderNeverCrossed == Single /\ Covered => (FeedSpec => []NeverCrossed)
<1> SUFFICES ASSUME Single, Covered PROVE FeedSpec => []NeverCrossed
  OBVIOUS
<1> DEFINE Repair == TypeOK /\ PublishedWithinFull /\ ReplayMatchesPublished /\ BestIsTop
<1>1. FeedInit => Uncrossed(full)
  BY DEF FeedInit, Init, Empty, Uncrossed, Levels
<1>2. Repair /\ FeedInv /\ Uncrossed(full) /\ [FeedNext]_replayVars => Uncrossed(full)'
  <2> SUFFICES ASSUME Repair, FeedInv, Uncrossed(full), [FeedNext]_replayVars
               PROVE  Uncrossed(full')
    BY DEF Uncrossed, Levels
  <2>1. CASE WriteSnapshot
    <3>1. full' = rows[1].book /\ rows[1].book \in Markets
      BY <2>1, SnapshotOf DEF WriteSnapshot, Snapshot
    <3> QED
      BY <3>1 DEF Markets
  <2>2. CASE WriteDelta
    <3>1. Head(rows).kind = "delta_batch" /\ rows # <<>>
      BY <2>2 DEF WriteDelta
    <3>2. PICK m \in Markets :
            /\ Head(rows) = rows[1]
            /\ rows[1].levels \in [Sides -> Updates]
            /\ \A s \in Sides : \A p \in DOMAIN rows[1].levels[s] :
                 rows[1].levels[s][p] = m[s][p]
            /\ rows[1].best = BestOf(m)
      BY <3>1, BatchOf
    <3>3. full' = [s \in Sides |-> FullAfter(s, rows[1].levels[s], BestOf(m)[s], FALSE)]
      BY <2>2, <3>2 DEF WriteDelta, Delta
    <3> QED
      BY <3>2, <3>3, BatchUncrosses
  <2>3. CASE UNCHANGED full
    BY <2>3
  <2> QED
    BY <2>1, <2>2, <2>3
    DEF FeedNext, Change, LostChange, BookEvent, Translate, replayVars, vars
<1>3. Repair /\ Uncrossed(full) => NeverCrossed
  <2> SUFFICES ASSUME Repair, Uncrossed(full) PROVE Uncrossed(replay)
    BY DEF NeverCrossed
  <2>1. \A s \in Sides : Levels(replay[s]) \subseteq Levels(full[s])
    BY DEF PublishedWithinFull, ReplayMatchesPublished, Levels
  <2> QED
    BY <2>1 DEF Uncrossed
<1> HIDE DEF Repair
<1>4. FeedSpec => []Repair
  BY RepairFacts DEF Repair
<1> QED
  BY <1>1, <1>2, <1>3, <1>4, FeedInvariance, PTL DEF FeedSpec

-----------------------------------------------------------------------------
(* The top of the reader's book.                                           *)

BookPending ==
  \/ recorded # <<>> /\ recorded[1].kind = "book"
  \/ rows # <<>> /\ rows[1].kind = "book"

\* The reader has the top of the full book; the record of an empty side is no
\* price of the ladder.
Anchored ==
  \A s \in Sides :
    /\ Levels(full[s]) # {} => replay[s][Top(s, full[s])] = full[s][Top(s, full[s])]
    /\ Levels(full[s]) = {} => best[s] \in {NoBound, EmptyBest[s]}

\* A snapshot publishes the top.
LEMMA SnapshotAnchors ==
  ASSUME NEW book, Snapshot(book)
  PROVE  Anchored'
<1>1. ASSUME NEW s \in Sides, Levels(book[s]) # {}
      PROVE  Top(s, book[s]) \in TopDepth(s, book[s]) /\ Top(s, book[s]) \in Px
  <2>1. /\ Top(s, book[s]) \in Levels(book[s])
        /\ {q \in Levels(book[s]) : Better(s, q, Top(s, book[s]))} = {}
    BY <1>1, TopExists
  <2>2. Cardinality({}) < Depth
    BY FS_EmptySet, DepthAssumption
  <2> QED
    BY <2>1, <2>2 DEF TopDepth, Levels
<1>2. ASSUME NEW s \in Sides
      PROVE  /\ full'[s] = book[s]
             /\ replay'[s] = Keep(book[s], TopDepth(s, book[s]))
             /\ Levels(book[s]) = {} => best'[s] = NoBound
  BY DEF Snapshot
<1>3. ASSUME NEW s \in Sides, Levels(book[s]) # {}
      PROVE  Keep(book[s], TopDepth(s, book[s]))[Top(s, book[s])] = book[s][Top(s, book[s])]
  BY <1>1, <1>3 DEF Keep
<1> SUFFICES ASSUME NEW s \in Sides
             PROVE  /\ Levels(full'[s]) # {} =>
                         replay'[s][Top(s, full'[s])] = full'[s][Top(s, full'[s])]
                    /\ Levels(full'[s]) = {} => best'[s] \in {NoBound, EmptyBest[s]}
  BY DEF Anchored, Levels, Top
<1> QED
  BY <1>2, <1>3

\* So does a batch that completes the full book: either its best price differs
\* from the record and the depth is exposed, or the top stays where it was.
LEMMA BatchAnchors ==
  ASSUME TypeOK, BestIsTop, ReplayMatchesPublished, ReplayMatchesPublished', Anchored,
         NEW m \in Markets, NEW upd \in [Sides -> Updates],
         \A s \in Sides : \A p \in DOMAIN upd[s] : upd[s][p] = m[s][p],
         \A s \in Sides : \A p \in Px \ DOMAIN upd[s] : full[s][p] = m[s][p],
         Delta(upd, BestOf(m), FALSE)
  PROVE  Anchored'
<1> SUFFICES ASSUME NEW s \in Sides
             PROVE  /\ Levels(full'[s]) # {} =>
                         replay'[s][Top(s, full'[s])] = full'[s][Top(s, full'[s])]
                    /\ Levels(full'[s]) = {} => best'[s] \in {NoBound, EmptyBest[s]}
  BY DEF Anchored, Levels, Top
<1> DEFINE b == BestOf(m)[s]
           u == upd[s]
<1>1. /\ FullAfter(s, u, b, FALSE) = m[s]
      /\ full'[s] = m[s]
      /\ b \in Int /\ b # NoBound
  <2>1. /\ u \in Updates
        /\ \A p \in DOMAIN u : u[p] = m[s][p]
        /\ \A p \in Px \ DOMAIN u : full[s][p] = m[s][p]
        /\ \A p \in Levels(m[s]) : ~Better(s, p, b)
    BY NoneBeyondBest
  <2>2. full'[s] = FullAfter(s, u, b, FALSE)
    BY DEF Delta
  <2>3. b \in Int /\ b # NoBound
    BY BestOfType, NoBoundAssumption
  <2> HIDE DEF u, b
  <2>4. FullAfter(s, u, b, FALSE) = m[s]
    BY <2>1, BatchCompletes
  <2> QED
    BY <2>2, <2>3, <2>4
<1>2. replay'[s] = Apply(Purged(s, u, b, FALSE), Inserts(s, u, b, FALSE))
  BY DEF Delta, ReplayMatchesPublished
<1>3. CASE Levels(m[s]) = {}
  <2>1. best'[s] = b /\ b = EmptyBest[s]
    BY <1>1, <1>3, BestOfType DEF Delta, BestAfter
  <2> QED
    BY <1>1, <1>3, <2>1
<1>4. CASE Levels(m[s]) # {}
  <2> DEFINE t == Top(s, m[s])
  <2>1. /\ t \in Levels(m[s]) /\ t \in Px /\ b = t
        /\ {q \in Levels(m[s]) : Better(s, q, t)} = {}
    BY <1>4, TopExists, BestOfType DEF Levels
  <2>2. t \in TopDepth(s, m[s])
    <3>1. Cardinality({}) < Depth
      BY FS_EmptySet, DepthAssumption
    <3> QED
      BY <2>1, <3>1 DEF TopDepth
  <2>3. CASE b # best[s]
    <3>1. Exposed(s, u, b, FALSE) =
            {p \in TopDepth(s, m[s]) : Purged(s, u, b, FALSE)[p] # m[s][p]}
      BY <1>1, <2>3 DEF Exposed
    <3>2. \A p \in Exposed(s, u, b, FALSE) : Inserts(s, u, b, FALSE)[p] = m[s][p]
      BY <1>1 DEF Inserts
    <3>3. DOMAIN Inserts(s, u, b, FALSE) = Exposed(s, u, b, FALSE)
      BY DEF Inserts
    <3>4. replay'[s][t] = m[s][t]
      <4>1. CASE t \in Exposed(s, u, b, FALSE)
        BY <1>2, <2>1, <3>2, <3>3, <4>1 DEF Apply
      <4>2. CASE t \notin Exposed(s, u, b, FALSE)
        <5>1. Purged(s, u, b, FALSE)[t] = m[s][t]
          BY <2>2, <3>1, <4>2
        <5> QED
          BY <1>2, <2>1, <3>3, <4>2, <5>1 DEF Apply
      <4> QED
        BY <4>1, <4>2
    <3> QED
      BY <1>1, <1>4, <3>4
  <2>4. CASE b = best[s]
    <3>1. Levels(full[s]) # {}
      <4>1. Levels(full[s]) = {} => best[s] \in {NoBound, EmptyBest[s]}
        BY DEF Anchored
      <4>2. t # EmptyBest[s]
        BY <2>1, EmptyBestAssumption, BetterOrder, PxAssumption
      <4> QED
        BY <1>1, <2>1, <2>4, <4>1, <4>2
    <3>2. t = Top(s, full[s]) /\ replay[s][t] = full[s][t]
      <4>1. best[s] = Top(s, full[s])
        BY <3>1 DEF BestIsTop
      <4>2. replay[s][Top(s, full[s])] = full[s][Top(s, full[s])]
        BY <3>1 DEF Anchored
      <4>3. t = Top(s, full[s])
        BY <2>1, <2>4, <4>1
      <4> HIDE DEF t
      <4> QED
        BY <4>2, <4>3
    <3>3. published[s][t] = full[s][t]
      BY <3>2 DEF ReplayMatchesPublished
    <3>4. Apply(published[s], u)[t] = m[s][t]
      BY <2>1, <3>3 DEF Apply
    <3>5. t \notin Stale(s, u, b, FALSE)
      <4>1. ~Better(s, t, b)
        <5> HIDE DEF t, b
        <5> QED
          BY <1>1, <2>1 DEF Better
      <4> HIDE DEF t, b, u
      <4> QED
        BY <4>1 DEF Stale
    <3>6. Purged(s, u, b, FALSE)[t] = m[s][t]
      BY <2>1, <3>4, <3>5 DEF Purged, Drop
    <3>7. Exposed(s, u, b, FALSE) = {}
      BY <2>4 DEF Exposed
    <3>8. replay'[s][t] = m[s][t]
      BY <1>2, <2>1, <3>6, <3>7 DEF Apply, Inserts
    <3> QED
      BY <1>1, <1>4, <3>8
  <2> QED
    BY <2>3, <2>4
<1> QED
  BY <1>3, <1>4

\* After a snapshot and a complete record the reader has the exchange's best
\* price on each side, at its size.
THEOREM TopIsMarketTop == Single /\ Covered => (FeedSpec => []TopTracksMarket)
<1> SUFFICES ASSUME Single, Covered PROVE FeedSpec => []TopTracksMarket
  OBVIOUS
<1> DEFINE Repair == TypeOK /\ PublishedWithinFull /\ ReplayMatchesPublished /\ BestIsTop
           TopInv == synced /\ ~BookPending => Anchored
<1>1. FeedInit => TopInv
  BY DEF FeedInit
<1>2. Repair /\ Repair' /\ FeedInv /\ TopInv /\ [FeedNext]_replayVars => TopInv'
  <2> SUFFICES ASSUME Repair, Repair', FeedInv, TopInv, [FeedNext]_replayVars,
                      synced', ~BookPending'
               PROVE  Anchored'
    OBVIOUS
  <2>1. ASSUME UNCHANGED vars, Anchored PROVE Anchored'
    BY <2>1 DEF vars, Anchored, Levels, Top
  <2>2. ASSUME NEW s \in Sides, NEW p \in Px, NEW z \in Sz \cup {0}, Change(s, p, z)
        PROVE  Anchored'
    <3>1. recorded = <<>> /\ rows = <<>>
      <4>1. Len(recorded) < 1 /\ rows = <<>>
        BY <2>2 DEF Change, Single
      <4>2. recorded = <<>> \/ recorded = <<recorded[1]>>
        BY DEF FeedInv, Sound
      <4> QED
        BY <4>1, <4>2
    <3> QED
      BY <2>1, <2>2, <3>1 DEF Change, BookPending
  <2>3. ASSUME NEW s \in Sides, NEW p \in Px, NEW z \in Sz \cup {0}, LostChange(s, p, z)
        PROVE  Anchored'
    BY <2>3 DEF LostChange
  <2>4. CASE BookEvent
    <3>1. recorded = <<>>
      <4>1. Len(recorded) < 1
        BY <2>4 DEF BookEvent, Single
      <4>2. recorded = <<>> \/ recorded = <<recorded[1]>>
        BY DEF FeedInv, Sound
      <4> QED
        BY <4>1, <4>2
    <3>2. recorded' = <<BookRow>>
      BY <2>4, <3>1 DEF BookEvent
    <3>3. recorded'[1].kind = "book" /\ recorded' # <<>>
      BY <3>2 DEF BookRow
    <3> QED
      BY <3>3 DEF BookPending
  <2>5. CASE Translate
    <3>1. /\ recorded # <<>> /\ rows = <<>>
          /\ recorded[1].kind = "book" => rows'[1] = recorded[1]
          /\ rows' = <<rows'[1]>>
          /\ synced' = synced /\ UNCHANGED vars
      BY <2>5, TranslateOne DEF Translate, FeedInv
    <3>2. rows' # <<>>
      BY <3>1
    <3>3. ~BookPending
      BY <3>1, <3>2 DEF BookPending
    <3> QED
      BY <2>1, <3>1, <3>3
  <2>6. CASE WriteSnapshot
    BY <2>6, SnapshotAnchors DEF WriteSnapshot
  <2>7. CASE WriteDelta
    <3>1. /\ Head(rows).kind = "delta_batch" /\ rows # <<>> /\ synced
      BY <2>7 DEF WriteDelta
    <3>2. PICK m \in Markets :
            /\ Head(rows) = rows[1]
            /\ rows[1].levels \in [Sides -> Updates]
            /\ \A s \in Sides : \A p \in DOMAIN rows[1].levels[s] :
                 rows[1].levels[s][p] = m[s][p]
            /\ rows[1].best = BestOf(m)
            /\ \A s \in Sides : \A p \in Px \ DOMAIN rows[1].levels[s] :
                 full[s][p] = m[s][p]
      BY <3>1, BatchOf
    <3>3. ~BookPending
      <4>1. recorded = <<>>
        BY <3>1 DEF FeedInv
      <4> QED
        BY <3>1, <3>2, <4>1 DEF BookPending
    <3>4. Delta(rows[1].levels, BestOf(m), FALSE)
      BY <2>7, <3>2 DEF WriteDelta
    <3> QED
      BY <3>1, <3>2, <3>3, <3>4, BatchAnchors
  <2>8. CASE UNCHANGED replayVars
    <3>1. UNCHANGED vars /\ synced' = synced /\ (BookPending' <=> BookPending)
      BY <2>8 DEF replayVars, feedVars, BookPending
    <3> QED
      BY <2>1, <3>1
  <2> QED
    BY <2>2, <2>3, <2>4, <2>5, <2>6, <2>7, <2>8 DEF FeedNext
<1>3. Repair /\ FullTracksMarket /\ TopInv => TopTracksMarket
  <2> SUFFICES ASSUME Repair, FullTracksMarket, TopInv, Settled, synced, NEW s \in Sides
               PROVE  /\ Levels(market[s]) = {} => Levels(replay[s]) = {}
                      /\ Levels(market[s]) # {} =>
                           /\ Levels(replay[s]) # {}
                           /\ Top(s, replay[s]) = Top(s, market[s])
                           /\ replay[s][Top(s, market[s])] = market[s][Top(s, market[s])]
    BY DEF TopTracksMarket
  <2>1. full = market /\ Anchored
    BY DEF FullTracksMarket, Settled, BookPending
  <2>2. Levels(replay[s]) \subseteq Levels(market[s])
    BY <2>1 DEF PublishedWithinFull, ReplayMatchesPublished, Levels
  <2>3. ASSUME Levels(market[s]) # {}
        PROVE  /\ Levels(replay[s]) # {}
               /\ Top(s, replay[s]) = Top(s, market[s])
               /\ replay[s][Top(s, market[s])] = market[s][Top(s, market[s])]
    <3> DEFINE t == Top(s, market[s])
    <3>1. /\ t \in Levels(market[s]) /\ \A q \in Levels(market[s]) : ~Better(s, q, t)
      BY <2>3, TopExists
    <3>2. replay[s][t] = market[s][t]
      BY <2>1, <2>3 DEF Anchored
    <3>3. t \in Levels(replay[s])
      BY <3>1, <3>2 DEF Levels
    <3>4. /\ Top(s, replay[s]) \in Levels(replay[s])
          /\ \A q \in Levels(replay[s]) : ~Better(s, q, Top(s, replay[s]))
      BY <3>3, TopExists
    <3>5. ~Better(s, Top(s, replay[s]), t) /\ ~Better(s, t, Top(s, replay[s]))
      BY <2>2, <3>1, <3>3, <3>4
    <3>6. t \in Int /\ Top(s, replay[s]) \in Int
      BY <3>1, <3>4, PxAssumption DEF Levels
    <3>7. Top(s, replay[s]) = t
      BY <3>5, <3>6, BetterOrder
    <3> QED
      BY <3>2, <3>3, <3>7
  <2> QED
    BY <2>2, <2>3
<1> HIDE DEF Repair, TopInv
<1>4. FeedSpec => []Repair
  BY RepairFacts DEF Repair
<1> QED
  BY <1>1, <1>2, <1>3, <1>4, FeedInvariance, FullIsMarket, PTL DEF FeedSpec

=============================================================================
