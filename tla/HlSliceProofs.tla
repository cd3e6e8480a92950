--------------------------- MODULE HlSliceProofs ----------------------------
(***************************************************************************)
(* Theorems about HlSlice, for every number and length of hours, every     *)
(* overlap of places, every set of builders and all bounds: a shard in the *)
(* catalog tells the day of the exchange, and its reader is in step with   *)
(* the exchange at each snapshot.                                          *)
(***************************************************************************)
EXTENDS HlSlice, FiniteSetTheorems, SequenceTheorems, TLAPS

LEMMA MulMonotonic ==
  ASSUME NEW a \in Int, NEW b \in Int, NEW c \in Nat, a <= b
  PROVE  a * c <= b * c
OBVIOUS

LEMMA PlaceType ==
  ASSUME NEW a \in Nat, NEW b \in Nat, NEW c \in Nat
  PROVE  a * b + c \in Nat
OBVIOUS

\* A place in a later line is a later place.
LEMMA PlaceOrder ==
  ASSUME NEW k \in Nat, NEW l \in Nat, NEW S \in Nat, NEW d \in 1..(S - 1), NEW e \in Nat \ {0},
         k < l
  PROVE  k * S + d < l * S + e
<1>1. (k + 1) * S <= l * S
  BY MulMonotonic
<1>2. (k + 1) * S = k * S + S /\ k * S \in Nat /\ l * S \in Nat
  OBVIOUS
<1> QED
  BY <1>1, <1>2

\* Hour t lies in hour h of the day.
Within(h, t) == h * Ticks <= t /\ t < (h + 1) * Ticks

LEMMA HourOfTime ==
  ASSUME NEW t \in 0..(HourCount * Ticks - 1)
  PROVE  (t \div Ticks) \in Hours /\ Within(t \div Ticks, t)
<1> DEFINE q == t \div Ticks
<1>1. Ticks \in Nat \ {0} /\ HourCount \in Nat \ {0}
  BY BoundsAssumption
<1>2. q \in Nat /\ q * Ticks <= t /\ t < (q + 1) * Ticks
  BY <1>1
<1>3. q < HourCount
  <2> SUFFICES ASSUME HourCount <= q PROVE FALSE
    BY <1>1, <1>2
  <2>1. HourCount * Ticks <= q * Ticks
    BY <1>1, <1>2, MulMonotonic
  <2> QED
    BY <1>1, <1>2, <2>1
<1> QED
  BY <1>1, <1>2, <1>3 DEF Hours, Within

\* A time lies in one hour only.
LEMMA OneHour ==
  ASSUME NEW g \in Int, NEW h \in Int, NEW t \in Int, Within(g, t), Within(h, t)
  PROVE  g = h
<1>1. Ticks \in Nat \ {0}
  BY BoundsAssumption
<1>2. CASE g < h
  <2>1. (g + 1) * Ticks <= h * Ticks
    BY <1>1, <1>2, MulMonotonic
  <2> QED
    BY <1>1, <2>1 DEF Within
<1>3. CASE h < g
  <2>1. (h + 1) * Ticks <= g * Ticks
    BY <1>1, <1>3, MulMonotonic
  <2> QED
    BY <1>1, <2>1 DEF Within
<1> QED
  BY <1>2, <1>3

-----------------------------------------------------------------------------
(* The fills of an hour, each with its place.                              *)

\* Fills, of any lines.
Placed(lines) ==
  UNION {{[fill |-> lines[l][e], place |-> l * LineStride + e]
           : e \in DOMAIN lines[l]} : l \in DOMAIN lines}

\* The fill on line l at position e, where it stands, if there is one.
At(lines, l, e) == [fill |-> lines[l][e], place |-> l * LineStride + e]
Holds(lines, l, e) == l \in 1..Len(lines) /\ e \in 1..Len(lines[l])

LEMMA PlacedAt ==
  ASSUME NEW lines \in Seq(Seq(FillType)), NEW x
  PROVE  x \in Placed(lines) <=>
           \E l \in Nat : \E e \in Nat : Holds(lines, l, e) /\ x = At(lines, l, e)
<1>1. DOMAIN lines = 1..Len(lines) /\ Len(lines) \in Nat
  BY LenProperties
<1>2. ASSUME NEW l \in 1..Len(lines)
      PROVE  DOMAIN lines[l] = 1..Len(lines[l]) /\ Len(lines[l]) \in Nat
  BY LenProperties, ElementOfSeq
<1>3. ASSUME x \in Placed(lines)
      PROVE  \E l \in Nat : \E e \in Nat : Holds(lines, l, e) /\ x = At(lines, l, e)
  <2>1. PICK l \in DOMAIN lines :
             x \in {[fill |-> lines[l][e], place |-> l * LineStride + e] : e \in DOMAIN lines[l]}
    BY <1>3, Zenon DEF Placed
  <2>2. PICK e \in DOMAIN lines[l] : x = At(lines, l, e)
    BY <2>1, Zenon DEF At
  <2> QED
    BY <2>1, <2>2, <1>1, <1>2 DEF Holds
<1>4. ASSUME NEW l \in Nat, NEW e \in Nat, Holds(lines, l, e)
      PROVE  At(lines, l, e) \in Placed(lines)
  <2>1. l \in DOMAIN lines /\ e \in DOMAIN lines[l]
    BY <1>1, <1>2, <1>4 DEF Holds
  <2> DEFINE Row(g) == {[fill |-> lines[g][d], place |-> g * LineStride + d] : d \in DOMAIN lines[g]}
  <2>2. At(lines, l, e) \in Row(l)
    BY <2>1 DEF At
  <2>3. Row(l) \in {Row(g) : g \in DOMAIN lines}
    BY <2>1
  <2> QED
    BY <2>2, <2>3 DEF Placed
<1> QED
  BY <1>3, <1>4

\* One more fill, in a place after all others.
Grows(lines, more, l, e, p) ==
  /\ p = l * LineStride + e
  /\ \A g \in Nat : \A d \in Nat :
       Holds(more, g, d) <=> Holds(lines, g, d) \/ (g = l /\ d = e)
  /\ \A g \in Nat : \A d \in Nat :
       Holds(lines, g, d) => more[g][d] = lines[g][d] /\ g * LineStride + d < p

LEMMA PlacedGrows ==
  ASSUME NEW lines \in Seq(Seq(FillType)), NEW more \in Seq(Seq(FillType)),
         NEW l \in Nat, NEW e \in Nat, NEW p, Grows(lines, more, l, e, p)
  PROVE  /\ Placed(more) = Placed(lines) \cup {[fill |-> more[l][e], place |-> p]}
         /\ \A x \in Placed(lines) : x.place < p
<1>1. \A g \in Nat : \A d \in Nat : Holds(lines, g, d) =>
        At(more, g, d) = At(lines, g, d) /\ At(lines, g, d).place = g * LineStride + d
  BY DEF At, Grows
<1>2. At(more, l, e) = [fill |-> more[l][e], place |-> p]
  BY DEF At, Grows
<1>3. \A x \in Placed(lines) : x.place < p
  BY <1>1, PlacedAt DEF Grows
<1>4. ASSUME NEW x
      PROVE  x \in Placed(more) <=> x \in Placed(lines) \/ x = At(more, l, e)
  BY <1>1, PlacedAt DEF Grows
<1> QED
  BY <1>2, <1>3, <1>4

\* A fill that is appended to the last line, or on a line of its own, stands
\* after all others.
LEMMA LinesGrow ==
  ASSUME NEW lines \in Seq(Seq(FillType)), NEW f \in FillType, NEW more,
         \A l \in 1..Len(lines) : Len(lines[l]) < LineStride,
         \/ more = Append(lines, <<f>>)
         \/ lines # <<>> /\ more = Append(Front(lines), Append(Last(lines), f))
  PROVE  /\ more \in Seq(Seq(FillType))
         /\ \E p \in Nat : /\ Placed(more) = Placed(lines) \cup {[fill |-> f, place |-> p]}
                           /\ \A x \in Placed(lines) : x.place < p
         /\ \A l \in 1..Len(more) :
              \/ Len(more[l]) = 1
              \/ l \in 1..Len(lines) /\ Len(more[l]) <= Len(lines[l]) + 1
<1> DEFINE Line == Seq(FillType)
           n == Len(lines)
<1>1. n \in Nat /\ DOMAIN lines = 1..n /\ lines \in Seq(Line)
  BY LenProperties
<1>2. ASSUME NEW l \in 1..n
      PROVE  lines[l] \in Line /\ Len(lines[l]) \in 0..(LineStride - 1)
  <2>1. lines[l] \in Line
    BY ElementOfSeq
  <2>2. Len(lines[l]) \in Nat /\ Len(lines[l]) < LineStride
    BY <2>1, LenProperties
  <2> QED
    BY <2>1, <2>2, BoundsAssumption
<1>3. LineStride \in Nat
  BY BoundsAssumption
<1>4. CASE more = Append(lines, <<f>>)
  <2> DEFINE m == n + 1
             p == m * LineStride + 1
             single == <<f>>
  <2>1. single \in Line /\ Len(single) = 1 /\ single[1] = f
    OBVIOUS
  <2> HIDE DEF Line, single
  <2>2. /\ more \in Seq(Line) /\ Len(more) = n + 1 /\ more[n + 1] = single
        /\ \A l \in 1..n : more[l] = lines[l]
    BY <1>1, <1>4, <2>1, AppendProperties DEF single
  <2> HIDE DEF n
  <2>3. \A g \in Nat : \A d \in Nat :
          Holds(more, g, d) <=> Holds(lines, g, d) \/ (g = n + 1 /\ d = 1)
    <3> SUFFICES ASSUME NEW g \in Nat, NEW d \in Nat
                 PROVE  Holds(more, g, d) <=> Holds(lines, g, d) \/ (g = n + 1 /\ d = 1)
      OBVIOUS
    <3>1. CASE g = n + 1
      <4>1. Holds(more, g, d) <=> d \in 1..1
        <5>1. more[g] = single
          BY <2>2, <3>1
        <5>2. g \in 1..Len(more)
          BY <1>1, <2>2, <3>1
        <5> QED
          BY <5>1, <5>2, <2>1 DEF Holds
      <4>2. ~Holds(lines, g, d)
        BY <1>1, <3>1 DEF Holds, n
      <4> QED
        BY <4>1, <4>2, <3>1
    <3>2. CASE g \in 1..n
      BY <1>1, <2>2, <3>2 DEF Holds, n
    <3>3. CASE g \notin 1..(n + 1)
      BY <1>1, <2>2, <3>3 DEF Holds, n
    <3> QED
      BY <1>1, <3>1, <3>2, <3>3
  <2>4. ASSUME NEW g \in Nat, NEW d \in Nat, Holds(lines, g, d)
        PROVE  more[g][d] = lines[g][d] /\ g * LineStride + d < p
    <3>1. g \in 1..n /\ d \in 1..Len(lines[g])
      BY <2>4 DEF Holds, n
    <3>2. d \in 1..(LineStride - 1) /\ n + 1 \in Nat /\ g < n + 1 /\ 1 \in Nat \ {0}
      BY <1>1, <1>2, <1>3, <3>1
    <3>3. g * LineStride + d < (n + 1) * LineStride + 1
      BY <1>3, <3>2, PlaceOrder
    <3> QED
      BY <2>2, <3>1, <3>3
  <2>5. p \in Nat /\ m \in Nat /\ 1 \in Nat /\ p = m * LineStride + 1
    <3>1. m \in Nat
      BY <1>1
    <3> HIDE DEF m
    <3> QED
      BY <3>1, <1>3, PlaceType
  <2>6. more[m][1] = f
    BY <2>1, <2>2
  <2>7. /\ Placed(more) = Placed(lines) \cup {[fill |-> f, place |-> p]}
        /\ \A x \in Placed(lines) : x.place < p
    <3>1. lines \in Seq(Seq(FillType)) /\ more \in Seq(Seq(FillType))
      BY <2>2 DEF Line
    <3>2. \A g \in Nat : \A d \in Nat :
            Holds(more, g, d) <=> Holds(lines, g, d) \/ (g = m /\ d = 1)
      BY <2>3
    <3> HIDE DEF p, m
    <3>3. Grows(lines, more, m, 1, p)
      BY <3>2, <2>4, <2>5 DEF Grows
    <3>4. /\ Placed(more) = Placed(lines) \cup {[fill |-> more[m][1], place |-> p]}
          /\ \A x \in Placed(lines) : x.place < p
      BY <3>1, <3>3, <2>5, PlacedGrows
    <3> QED
      BY <3>4, <2>6
  <2>8. \A l \in 1..Len(more) :
              \/ Len(more[l]) = 1
              \/ l \in 1..n /\ Len(more[l]) <= Len(lines[l]) + 1
    <3> SUFFICES ASSUME NEW l \in 1..(n + 1)
                 PROVE  \/ Len(more[l]) = 1
                        \/ l \in 1..n /\ Len(more[l]) <= Len(lines[l]) + 1
      BY <2>2
    <3>1. CASE l = n + 1
      BY <2>1, <2>2, <3>1
    <3>2. CASE l \in 1..n
      BY <1>2, <1>3, <2>2, <3>2
    <3> QED
      BY <1>1, <3>1, <3>2
  <2> HIDE DEF p
  <2> QED
    BY <2>2, <2>5, <2>7, <2>8 DEF Line, n
<1>5. CASE lines # <<>> /\ more = Append(Front(lines), Append(Last(lines), f))
  <2> DEFINE last == lines[n]
             e == Len(last) + 1
             p == n * LineStride + e
             front == Front(lines)
             longer == Append(last, f)
  <2>1. n \in Nat \ {0} /\ n \in 1..n
    BY <1>5, <1>1, EmptySeq
  <2>2. last \in Line /\ Len(last) \in 0..(LineStride - 1)
    BY <1>2, <2>1
  <2>3. /\ longer \in Line /\ Len(longer) = e /\ longer[e] = f
        /\ \A d \in 1..Len(last) : longer[d] = last[d]
    BY <2>2, AppendProperties
  <2>4. front \in Seq(Line) /\ Len(front) = n - 1 /\ \A l \in 1..(n - 1) : front[l] = lines[l]
    <3>1. 1 \in Int /\ n - 1 \in Int /\ \A i \in 1..(n - 1) : lines[i] \in Line
      BY <2>1, <1>2
    <3> HIDE DEF Line, n
    <3>2. /\ SubSeq(lines, 1, n - 1) \in Seq(Line)
          /\ Len(SubSeq(lines, 1, n - 1)) = IF 1 <= n - 1 THEN n - 1 - 1 + 1 ELSE 0
          /\ \A i \in 1 .. n - 1 - 1 + 1 : SubSeq(lines, 1, n - 1)[i] = lines[1 + i - 1]
      BY <3>1, SubSeqProperties
    <3>3. front = SubSeq(lines, 1, n - 1)
      BY DEF Front, n
    <3> QED
      BY <2>1, <3>2, <3>3
  <2>5. more = Append(front, longer)
    BY <1>5 DEF Last
  <2> HIDE DEF Line, front, longer
  <2>6. /\ more \in Seq(Line) /\ Len(more) = n /\ more[n] = longer
        /\ \A l \in 1..(n - 1) : more[l] = lines[l]
    BY <2>1, <2>3, <2>4, <2>5, AppendProperties
  <2> HIDE DEF n, last
  <2>7. \A g \in Nat : \A d \in Nat :
          Holds(more, g, d) <=> Holds(lines, g, d) \/ (g = n /\ d = e)
    <3> SUFFICES ASSUME NEW g \in Nat, NEW d \in Nat
                 PROVE  Holds(more, g, d) <=> Holds(lines, g, d) \/ (g = n /\ d = e)
      OBVIOUS
    <3>1. CASE g = n
      <4>1. Holds(more, g, d) <=> d \in 1..e
        BY <2>1, <2>3, <2>6, <3>1 DEF Holds
      <4>2. Holds(lines, g, d) <=> d \in 1..Len(last)
        BY <2>1, <3>1 DEF Holds, n, last
      <4> QED
        BY <2>2, <4>1, <4>2, <3>1
    <3>2. CASE g \in 1..(n - 1)
      BY <2>1, <2>6, <3>2 DEF Holds, n
    <3>3. CASE g \notin 1..n
      BY <2>6, <3>3 DEF Holds, n
    <3> QED
      BY <2>1, <3>1, <3>2, <3>3
  <2>8. ASSUME NEW g \in Nat, NEW d \in Nat, Holds(lines, g, d)
        PROVE  more[g][d] = lines[g][d] /\ g * LineStride + d < p
    <3>1. g \in 1..n /\ d \in 1..Len(lines[g]) /\ d \in Nat \ {0}
      BY <2>8 DEF Holds, n
    <3>2. CASE g = n
      <4>1. d \in 1..Len(last)
        BY <3>1, <3>2 DEF last
      <4>2. more[g][d] = lines[g][d]
        BY <4>1, <3>2, <2>3, <2>6 DEF last
      <4>3. d < e /\ n * LineStride \in Nat
        BY <4>1, <2>2, <1>1, <1>3
      <4> QED
        BY <4>2, <4>3, <3>2, <2>2
    <3>3. CASE g < n
      <4>1. d \in 1..(LineStride - 1) /\ n \in Nat /\ e \in Nat \ {0}
        <5>1. Len(lines[g]) \in 0..(LineStride - 1)
          BY <1>2, <3>1
        <5> QED
          BY <5>1, <2>1, <1>3, <3>1, <2>2
      <4>2. g * LineStride + d < n * LineStride + e
        BY <1>3, <4>1, <3>3, PlaceOrder
      <4>3. more[g] = lines[g]
        BY <2>6, <2>1, <3>1, <3>3
      <4> QED
        BY <4>2, <4>3
    <3> QED
      BY <3>1, <3>2, <3>3, <1>1
  <2>9. n \in Nat /\ e \in Nat /\ p \in Nat /\ p = n * LineStride + e
    <3>1. n \in Nat /\ e \in Nat
      BY <1>1, <1>3, <2>2
    <3> HIDE DEF e
    <3> QED
      BY <3>1, <1>3, PlaceType
  <2>10. more[n][e] = f
    BY <2>3, <2>6
  <2>11. /\ Placed(more) = Placed(lines) \cup {[fill |-> f, place |-> p]}
         /\ \A x \in Placed(lines) : x.place < p
    <3> HIDE DEF e, p
    <3>1. lines \in Seq(Seq(FillType)) /\ more \in Seq(Seq(FillType))
      BY <2>6 DEF Line
    <3>2. Grows(lines, more, n, e, p)
      BY <2>7, <2>8, <2>9 DEF Grows
    <3>3. /\ Placed(more) = Placed(lines) \cup {[fill |-> more[n][e], place |-> p]}
          /\ \A x \in Placed(lines) : x.place < p
      BY <3>1, <3>2, <2>9, PlacedGrows
    <3> QED
      BY <3>3, <2>10
  <2>12. \A l \in 1..Len(more) : l \in 1..n /\ Len(more[l]) <= Len(lines[l]) + 1
    <3> SUFFICES ASSUME NEW l \in 1..n PROVE Len(more[l]) <= Len(lines[l]) + 1
      BY <2>6
    <3>1. Len(lines[l]) \in Nat
      BY <1>2, <1>3
    <3> QED
      BY <3>1, <2>1, <2>2, <2>3, <2>6 DEF last
  <2> HIDE DEF p
  <2> QED
    BY <2>6, <2>9, <2>11, <2>12 DEF Line, n
<1> QED
  BY <1>4, <1>5

-----------------------------------------------------------------------------
(* The inductive invariant.                                                *)

\* What has been reported, in a file or in the block that is being written.
Reported == owed \cup {x.fill : x \in UNION {Fills(h) : h \in Hours}}

\* A line and what its block still owes have two fills per trade at most.
BlocksInv ==
  /\ IsFiniteSet(owed)
  /\ Cardinality(owed) <= 2 * matches
  /\ \A h \in Hours : \A l \in 1..Len(fills[h]) :
       Len(fills[h][l]) + Cardinality(owed) <= 2 * matches

\* What happened in an hour is in its files, and trades are told as they come.
ClockInv ==
  /\ \A h \in Hours : \A x \in Fills(h) : Within(h, x.fill.time)
  /\ \A h \in Hours : \A l \in 1..Len(books[h]) : Within(h, books[h][l].time)
  /\ \A f \in owed : f.time = now /\ ~DayOver
  /\ \A n \in DOMAIN trades : trades[n].ts <= now
  /\ \A m, n \in DOMAIN trades : m < n => trades[m].ts <= trades[n].ts

\* Line i of the snapshots of hour g stands before line l of those of hour h.
Earlier(g, i, h, l) == g < h \/ (g = h /\ i < l)

\* Snapshots are written and numbered as they are taken.
ShotsInv ==
  /\ \A h \in Hours : \A l \in 1..Len(books[h]) :
       books[h][l].time <= now /\ books[h][l].book <= Cardinality(Snapshots)
  /\ \A g, h \in Hours : \A i \in 1..Len(books[g]) : \A l \in 1..Len(books[h]) :
       Earlier(g, i, h, l) =>
         books[g][i].time <= books[h][l].time /\ books[g][i].book < books[h][l].book

OfTrade(fill, tid) == fill.coin = "this" /\ fill.tid = tid

\* Trade n of the market has number k[n] at the exchange.
Numbers(k) ==
  /\ k \in [DOMAIN trades -> 1..matches]
  /\ \A m, n \in DOMAIN trades : m < n => k[m] < k[n]

\* Every fill of the market is of one of its trades, and tells of it what is
\* right; every trade has a fill of its taker.
FillsTellTrades(k) ==
  /\ \A f \in Reported : f.coin = "this" /\ f.tid # 0 =>
       \E n \in DOMAIN trades :
         f.tid = k[n] /\ f.time = trades[n].ts /\ (f.crossed => f.side = trades[n].side)
  /\ \A n \in DOMAIN trades : \E f \in Reported : OfTrade(f, k[n]) /\ f.crossed

\* x is the first fill of trade n in its hour, and no later trade has an
\* earlier one.
IsFirst(k, n, h, x) ==
  /\ OfTrade(x.fill, k[n])
  /\ \A m \in DOMAIN trades : \A y \in Fills(h) :
       OfTrade(y.fill, k[m]) =>
         (n = m => x.place <= y.place) /\ (n < m => x.place < y.place)

TradesInOrder(k) ==
  \A n \in DOMAIN trades : \E h \in Hours : \E x \in Fills(h) : IsFirst(k, n, h, x)

TradesInv ==
  \E k \in [DOMAIN trades -> 1..matches] :
    Numbers(k) /\ FillsTellTrades(k) /\ TradesInOrder(k)

\* The rows of the day: those of all its files.
RowSet == RowsOf(Files)
Rows   == Sorted(Files)

\* Raw objects are of hours that are over; what a build has put is what the
\* exchange tells once the day is over.
BuildInv ==
  /\ \A f \in recorded : HourOver(f[2])
  /\ data.found => DayOver
  /\ data = (IF data.found THEN [found |-> TRUE, rows |-> Rows] ELSE NoData)
  /\ record.found => data.found /\ record.count = Len(Rows)
  /\ \A b \in Builders :
       /\ pc[b] \in {"manifest", "record", "coverage"} => data.found /\ got[b] = Files
       /\ pc[b] = "coverage" => record.found

IInv == TypeOK /\ BlocksInv /\ ClockInv /\ TradesInv /\ ShotsInv /\ BuildInv

-----------------------------------------------------------------------------
(* What a step of the exchange writes.                                     *)

\* A fill has been written after all others of this hour.
Adds(f) ==
  \E p \in Nat :
    /\ \A h \in Hours :
         Fills(h)' = IF h = Hour THEN Fills(h) \cup {[fill |-> f, place |-> p]} ELSE Fills(h)
    /\ \A x \in Fills(Hour) : x.place < p

LEMMA FillsType ==
  ASSUME TypeOK, NEW h \in Hours, NEW x \in Fills(h)
  PROVE  x.fill \in FillType /\ x.place \in Nat
<1>1. fills[h] \in Seq(Seq(FillType))
  BY DEF TypeOK
<1>2. Fills(h) = Placed(fills[h])
  BY DEF Fills, Placed
<1>3. PICK l \in Nat, e \in Nat : Holds(fills[h], l, e) /\ x = At(fills[h], l, e)
  BY <1>1, <1>2, PlacedAt
<1>4. fills[h][l] \in Seq(FillType)
  BY <1>1, <1>3, ElementOfSeq DEF Holds
<1>5. fills[h][l][e] \in FillType
  BY <1>3, <1>4, ElementOfSeq DEF Holds
<1>6. l * LineStride + e \in Nat
  BY BoundsAssumption, PlaceType
<1> QED
  BY <1>3, <1>5, <1>6 DEF At

LEMMA ShortLines ==
  ASSUME TypeOK, BlocksInv, NEW h \in Hours, NEW l \in 1..Len(fills[h])
  PROVE  Len(fills[h][l]) < LineStride
<1>1. fills[h][l] \in Seq(FillType)
  <2>1. fills[h] \in Seq(Seq(FillType))
    BY DEF TypeOK
  <2> QED
    BY <2>1, ElementOfSeq
<1>2. Len(fills[h][l]) \in Nat /\ Cardinality(owed) \in Nat
  BY <1>1, LenProperties, FS_CardinalityType DEF BlocksInv
<1>3. matches \in Nat /\ matches <= MaxMatches /\ MaxMatches \in Nat
  BY BoundsAssumption DEF TypeOK
<1>4. Len(fills[h][l]) + Cardinality(owed) <= 2 * matches
  BY DEF BlocksInv
<1>5. 2 * MaxMatches < LineStride /\ LineStride \in Nat
  BY BoundsAssumption
<1> QED
  BY <1>2, <1>3, <1>4, <1>5

LEMMA WriteAdds ==
  ASSUME TypeOK, BlocksInv, ~DayOver, NEW f \in FillType, fills' = Written(f)
  PROVE  /\ Hour \in Hours /\ Within(Hour, now)
         /\ fills' \in [Hours -> Seq(Seq(FillType))]
         /\ \A h \in Hours : h # Hour => fills'[h] = fills[h]
         /\ \A l \in 1..Len(fills'[Hour]) :
              \/ Len(fills'[Hour][l]) = 1
              \/ l \in 1..Len(fills[Hour]) /\ Len(fills'[Hour][l]) <= Len(fills[Hour][l]) + 1
         /\ Adds(f)
<1>1. Hour \in Hours /\ Within(Hour, now)
  <2>1. HourCount * Ticks \in Nat
    BY BoundsAssumption, PlaceType
  <2>2. now \in 0..(HourCount * Ticks - 1)
    BY <2>1 DEF TypeOK, DayOver
  <2>3. (now \div Ticks) \in Hours /\ Within(now \div Ticks, now)
    BY <2>2, HourOfTime
  <2> QED
    BY <2>3 DEF Hour
<1> DEFINE lines == fills[Hour]
           more == fills'[Hour]
<1> HIDE DEF Hour
<1>2. lines \in Seq(Seq(FillType)) /\ fills \in [Hours -> Seq(Seq(FillType))]
  BY <1>1 DEF TypeOK
<1>3. /\ \/ more = Append(lines, <<f>>)
         \/ lines # <<>> /\ more = Append(Front(lines), Append(Last(lines), f))
      /\ \A h \in Hours : h # Hour => fills'[h] = fills[h]
      /\ fills' = [fills EXCEPT ![Hour] = more]
  BY <1>1, <1>2 DEF Written
<1>4. \A l \in 1..Len(lines) : Len(lines[l]) < LineStride
  BY <1>1, ShortLines
<1>5. /\ more \in Seq(Seq(FillType))
      /\ \E p \in Nat : /\ Placed(more) = Placed(lines) \cup {[fill |-> f, place |-> p]}
                        /\ \A x \in Placed(lines) : x.place < p
      /\ \A l \in 1..Len(more) :
           \/ Len(more[l]) = 1
           \/ l \in 1..Len(lines) /\ Len(more[l]) <= Len(lines[l]) + 1
  <2> HIDE DEF lines, more
  <2> QED
    BY <1>2, <1>3, <1>4, LinesGrow
<1>6. fills' \in [Hours -> Seq(Seq(FillType))]
  BY <1>1, <1>2, <1>3, <1>5
<1>7. Adds(f)
  <2>1. \A h \in Hours : Fills(h) = Placed(fills[h])
    BY DEF Fills, Placed
  <2>2. \A h \in Hours : Fills(h)' = Placed(fills'[h])
    BY DEF Fills, Placed
  <2>3. PICK p \in Nat : /\ Placed(more) = Placed(lines) \cup {[fill |-> f, place |-> p]}
                         /\ \A x \in Placed(lines) : x.place < p
    BY <1>5
  <2>4. ASSUME NEW h \in Hours
        PROVE  Fills(h)' = IF h = Hour THEN Fills(h) \cup {[fill |-> f, place |-> p]} ELSE Fills(h)
    BY <1>3, <2>1, <2>2, <2>3
  <2> QED
    BY <1>1, <2>1, <2>3, <2>4 DEF Adds
<1> QED
  BY <1>1, <1>3, <1>5, <1>6, <1>7

\* The fills a step reports: f in a file, and what is owed from then on.
LEMMA ReportedGrows ==
  ASSUME TypeOK, NEW f, Hour \in Hours, Adds(f)
  PROVE  /\ f \in Reported'
         /\ Reported \subseteq Reported' \cup owed
         /\ Reported' \subseteq Reported \cup {f} \cup owed'
         /\ owed' \subseteq Reported'
<1>1. PICK p \in Nat :
        \A h \in Hours :
          Fills(h)' = IF h = Hour THEN Fills(h) \cup {[fill |-> f, place |-> p]} ELSE Fills(h)
  BY DEF Adds
<1>2. \A g : g \in Reported <=> g \in owed \/ \E h \in Hours : \E x \in Fills(h) : g = x.fill
  BY DEF Reported
<1>3. \A g : g \in Reported' <=>
        g \in owed' \/ \E h \in Hours : \E x \in Fills(h)' : g = x.fill
  BY DEF Reported
<1>4. \A h \in Hours : \A x \in Fills(h) : x \in Fills(h)'
  BY <1>1
<1>5. \A h \in Hours : \A x \in Fills(h)' : x \in Fills(h) \/ x.fill = f
  BY <1>1
<1>6. f \in Reported'
  <2>1. PICK h \in Hours : h = Hour
    OBVIOUS
  <2>2. [fill |-> f, place |-> p] \in Fills(h)'
    BY <1>1, <2>1
  <2> QED
    BY <1>3, <2>2
<1>7. \A g : g \in Reported' => g \in Reported \/ g = f \/ g \in owed'
  BY <1>2, <1>3, <1>5
<1>8. \A g : g \in Reported => g \in Reported' \/ g \in owed
  BY <1>2, <1>3, <1>4
<1>9. \A g \in owed' : g \in Reported'
  BY <1>3
<1> QED
  BY <1>6, <1>7, <1>8, <1>9

\* The first fill of a trade stays the first.
LEMMA FirstStays ==
  ASSUME TypeOK, NEW k, NEW j, NEW f, Hour \in Hours, Adds(f),
         NEW n \in DOMAIN trades, NEW h \in Hours, NEW x \in Fills(h),
         IsFirst(k, n, h, x), j[n] = k[n], DOMAIN trades \subseteq Nat,
         \A m \in DOMAIN trades' : \A y \in Fills(h) :
           OfTrade(y.fill, j[m]) => m \in DOMAIN trades /\ j[m] = k[m]
  PROVE  x \in Fills(h)' /\ IsFirst(j, n, h, x)'
<1>1. PICK p \in Nat :
        /\ \A g \in Hours :
             Fills(g)' = IF g = Hour THEN Fills(g) \cup {[fill |-> f, place |-> p]} ELSE Fills(g)
        /\ \A y \in Fills(Hour) : y.place < p
  BY DEF Adds
<1>2. x \in Fills(h)'
  BY <1>1
<1>3. ASSUME NEW m \in DOMAIN trades', NEW y \in Fills(h)', OfTrade(y.fill, j[m])
      PROVE  (n = m => x.place <= y.place) /\ (n < m => x.place < y.place)
  <2>1. CASE y \in Fills(h)
    BY <1>3, <2>1 DEF IsFirst
  <2>2. CASE y \notin Fills(h)
    <3>1. h = Hour /\ y = [fill |-> f, place |-> p]
      BY <1>1, <1>3, <2>2
    <3>2. x.place < p /\ x.place \in Nat
      BY <1>1, <3>1, FillsType
    <3> QED
      BY <3>1, <3>2
  <2> QED
    BY <2>1, <2>2
<1>4. OfTrade(x.fill, j[n])
  BY DEF IsFirst
<1> QED
  BY <1>2, <1>3, <1>4 DEF IsFirst, OfTrade

LEMMA Slack ==
  ASSUME NEW new \in Nat, NEW old, NEW c \in Nat, NEW d \in Nat, NEW m \in Nat, NEW n \in Nat,
         d + 1 + 2 * m <= c + 2 * n, c <= 2 * m,
         new = 1 \/ (old \in Nat /\ old + c <= 2 * m /\ new <= old + 1)
  PROVE  new + d <= 2 * n
OBVIOUS

LEMMA BlocksKept ==
  ASSUME TypeOK, BlocksInv, ~DayOver, NEW f \in FillType, fills' = Written(f),
         matches' \in Nat, IsFiniteSet(owed'),
         Cardinality(owed') + 1 + 2 * matches <= Cardinality(owed) + 2 * matches'
  PROVE  BlocksInv'
<1>1. /\ Hour \in Hours
      /\ fills' \in [Hours -> Seq(Seq(FillType))]
      /\ \A h \in Hours : h # Hour => fills'[h] = fills[h]
      /\ \A l \in 1..Len(fills'[Hour]) :
           \/ Len(fills'[Hour][l]) = 1
           \/ l \in 1..Len(fills[Hour]) /\ Len(fills'[Hour][l]) <= Len(fills[Hour][l]) + 1
  BY WriteAdds
<1>2. /\ Cardinality(owed) \in Nat /\ Cardinality(owed') \in Nat /\ matches \in Nat
      /\ Cardinality(owed) <= 2 * matches
  BY FS_CardinalityType DEF BlocksInv, TypeOK
<1>3. ASSUME NEW h \in Hours, NEW l \in 1..Len(fills'[h])
      PROVE  Len(fills'[h][l]) + Cardinality(owed') <= 2 * matches'
  <2>1. Len(fills'[h][l]) \in Nat
    BY <1>1, ElementOfSeq, LenProperties
  <2>2. ASSUME l \in 1..Len(fills[h])
        PROVE  Len(fills[h][l]) \in Nat /\ Len(fills[h][l]) + Cardinality(owed) <= 2 * matches
    BY <2>2, ElementOfSeq, LenProperties DEF TypeOK, BlocksInv
  <2>3. \/ Len(fills'[h][l]) = 1
        \/ l \in 1..Len(fills[h]) /\ Len(fills'[h][l]) <= Len(fills[h][l]) + 1
    <3>1. CASE h = Hour
      BY <1>1, <3>1
    <3>2. CASE h # Hour
      <4>1. fills'[h] = fills[h]
        BY <1>1, <3>2
      <4> QED
        BY <4>1, <2>1
    <3> QED
      BY <3>1, <3>2
  <2> DEFINE new == Len(fills'[h][l])
             old == Len(fills[h][l])
  <2> HIDE DEF new, old
  <2>n. new \in Nat
    BY <2>1 DEF new
  <2>5. \/ new = 1
        \/ old \in Nat /\ old + Cardinality(owed) <= 2 * matches /\ new <= old + 1
    BY <2>2, <2>3 DEF new, old
  <2>6. new + Cardinality(owed') <= 2 * matches'
    BY <1>2, <2>n, <2>5, Slack
  <2> QED
    BY <2>6 DEF new
<1> QED
  BY <1>2, <1>3 DEF BlocksInv

LEMMA ClockKept ==
  ASSUME TypeOK, BlocksInv, ClockInv, ~DayOver, NEW f \in FillType, f.time = now,
         fills' = Written(f), now' = now, books' = books, \A g \in owed' : g.time = now,
         \/ trades' = trades
         \/ \E side \in Sides : trades' = Append(trades, [ts |-> now, side |-> side])
  PROVE  ClockInv'
<1>1. Hour \in Hours /\ Within(Hour, now) /\ Adds(f)
  BY WriteAdds
<1>2. now \in Nat
  BY DEF TypeOK
<1>3. \A h \in Hours : \A x \in Fills(h)' : Within(h, x.fill.time)
  <2>1. \A h \in Hours : \A x \in Fills(h)' : x \in Fills(h) \/ (h = Hour /\ x.fill = f)
    BY <1>1 DEF Adds
  <2> QED
    BY <1>1, <2>1 DEF ClockInv
<1>4. /\ \A n \in DOMAIN trades' : trades'[n].ts <= now
      /\ \A m, n \in DOMAIN trades' : m < n => trades'[m].ts <= trades'[n].ts
  <2>1. CASE trades' = trades
    BY <2>1 DEF ClockInv
  <2>2. ASSUME NEW side \in Sides, trades' = Append(trades, [ts |-> now, side |-> side])
        PROVE  <1>4!:
    <3> DEFINE T == [ts : Nat, side : Sides]
               N == Len(trades)
               t == [ts |-> now, side |-> side]
    <3>1. trades \in Seq(T) /\ t \in T /\ t.ts = now /\ \A e \in T : e.ts \in Nat
      BY <1>2, <2>2 DEF TypeOK
    <3> HIDE DEF t, T
    <3>n. N \in Nat /\ DOMAIN trades = 1..N
      BY <3>1, LenProperties
    <3>2. /\ trades' \in Seq(T) /\ Len(trades') = N + 1
          /\ \A n \in 1..N : trades'[n] = trades[n]
          /\ trades'[N + 1] = t
      BY <2>2, <3>1, AppendProperties DEF t
    <3>3. DOMAIN trades' = 1..(N + 1)
      BY <3>2, LenProperties
    <3>4. \A n \in 1..(N + 1) : n \in 1..N \/ n = N + 1
      BY <3>n
    <3>5. \A n \in 1..N : trades[n].ts <= now
      BY <3>n DEF ClockInv
    <3>6. \A m, n \in 1..N : m < n => trades[m].ts <= trades[n].ts
      BY <3>n DEF ClockInv
    <3>7. \A n \in 1..N : trades[n].ts \in Nat /\ n < N + 1
      BY <3>1, <3>n, ElementOfSeq
    <3>8. \A n \in 1..N : trades'[n].ts = trades[n].ts
      BY <3>2
    <3>9. trades'[N + 1].ts = now
      BY <3>1, <3>2
    <3> HIDE DEF N
    <3>10. \A n \in 1..(N + 1) : trades'[n].ts <= now
      BY <1>2, <3>4, <3>5, <3>8, <3>9
    <3>11. ASSUME NEW m \in 1..(N + 1), NEW n \in 1..(N + 1), m < n
           PROVE  trades'[m].ts <= trades'[n].ts
      <4>1. CASE n = N + 1
        BY <3>9, <3>10, <4>1
      <4>2. CASE n \in 1..N
        <5>1. m \in 1..N
          BY <3>n, <3>11, <4>2
        <5> QED
          BY <3>6, <3>8, <3>11, <4>2, <5>1
      <4> QED
        BY <3>4, <4>1, <4>2
    <3> QED
      BY <3>3, <3>10, <3>11
  <2> QED
    BY <2>1, <2>2
<1> QED
  BY <1>3, <1>4 DEF ClockInv, DayOver, Within

\* A step that reports nothing of the market keeps the numbers of its trades.
LEMMA TradesStay ==
  ASSUME TypeOK, TradesInv, NEW f, Hour \in Hours, Adds(f), trades' = trades,
         matches' \in Nat, matches <= matches', Reported \subseteq Reported',
         \A g \in Reported' : g \in Reported \/ g.coin # "this" \/ g.tid = 0
  PROVE  TradesInv'
<1>1. PICK k \in [DOMAIN trades -> 1..matches] :
        Numbers(k) /\ FillsTellTrades(k) /\ TradesInOrder(k)
  BY DEF TradesInv
<1>2. DOMAIN trades \subseteq Nat /\ matches \in Nat
  BY LenProperties DEF TypeOK
<1>3. k \in [DOMAIN trades' -> 1..matches'] /\ Numbers(k)'
  BY <1>1, <1>2 DEF Numbers
<1>4. FillsTellTrades(k)'
  BY <1>1 DEF FillsTellTrades
<1>5. ASSUME NEW n \in DOMAIN trades
      PROVE  \E h \in Hours : \E x \in Fills(h)' : IsFirst(k, n, h, x)'
  <2>1. PICK h \in Hours : \E x \in Fills(h) : IsFirst(k, n, h, x)
    BY <1>1 DEF TradesInOrder
  <2>2. PICK x \in Fills(h) : IsFirst(k, n, h, x)
    BY <2>1
  <2>3. x \in Fills(h)' /\ IsFirst(k, n, h, x)'
    BY <1>2, <2>2, FirstStays
  <2> QED
    BY <2>3
<1>6. TradesInOrder(k)'
  BY <1>5 DEF TradesInOrder
<1> QED
  BY <1>3, <1>4, <1>6 DEF TradesInv

\* A trade of the market gets the next number.
LEMMA TradeAppends ==
  ASSUME TypeOK, TradesInv, NEW side \in Sides, NEW f, NEW g, Hour \in Hours, Adds(f),
         owed' = owed \cup {g}, matches' = matches + 1,
         trades' = Append(trades, [ts |-> now, side |-> side]),
         \A z \in {f, g} : /\ OfTrade(z, matches + 1) /\ z.time = now
                           /\ z.crossed => z.side = side,
         f.crossed \/ g.crossed
  PROVE  TradesInv'
<1>1. PICK k \in [DOMAIN trades -> 1..matches] :
        Numbers(k) /\ FillsTellTrades(k) /\ TradesInOrder(k)
  BY DEF TradesInv
<1> DEFINE T == [ts : Nat, side : Sides]
           t == [ts |-> now, side |-> side]
<1>2. /\ trades \in Seq(T) /\ t \in T /\ t.ts = now /\ t.side = side
      /\ matches \in Nat
  BY DEF TypeOK
<1> HIDE DEF T, t
<1>3. PICK N \in Nat : N = Len(trades) /\ DOMAIN trades = 1..N
  BY <1>2, LenProperties
<1>4. /\ trades' \in Seq(T) /\ Len(trades') = N + 1
      /\ \A n \in 1..N : trades'[n] = trades[n]
      /\ trades'[N + 1] = t
  BY <1>2, <1>3, AppendProperties DEF t
<1>5. DOMAIN trades' = 1..(N + 1)
  BY <1>4, LenProperties
<1>6. \A n \in 1..(N + 1) : n \in 1..N \/ n = N + 1
  BY <1>3
<1>7. \A n \in 1..N : n \in 1..(N + 1) /\ n < N + 1 /\ n \in Nat
  BY <1>3
<1>8. \A n \in 1..N : k[n] \in 1..matches
  BY <1>1, <1>3
<1>9. PICK j \in [1..(N + 1) -> 1..(matches + 1)] :
        /\ \A n \in 1..N : j[n] = k[n]
        /\ N + 1 \in 1..(N + 1) /\ N + 1 \notin 1..N /\ j[N + 1] = matches + 1
  <2> DEFINE i == [n \in 1..(N + 1) |-> IF n \in 1..N THEN k[n] ELSE matches + 1]
  <2>1. N + 1 \in 1..(N + 1) /\ N + 1 \notin 1..N
    BY <1>3
  <2>2. \A n \in 1..N : k[n] \in 1..(matches + 1)
    BY <1>2, <1>8
  <2>3. matches + 1 \in 1..(matches + 1)
    BY <1>2
  <2>4. /\ i \in [1..(N + 1) -> 1..(matches + 1)]
        /\ \A n \in 1..N : i[n] = k[n]
        /\ i[N + 1] = matches + 1
    BY <1>7, <2>1, <2>2, <2>3
  <2> HIDE DEF i
  <2> QED
    BY <2>1, <2>4
<1>10. Numbers(j)'
  <2>1. ASSUME NEW m \in 1..(N + 1), NEW n \in 1..(N + 1), m < n
        PROVE  j[m] < j[n]
    <3>1. m \in 1..N
      BY <1>3, <2>1
    <3>2. CASE n \in 1..N
      BY <1>1, <1>3, <1>9, <2>1, <3>1, <3>2 DEF Numbers
    <3>3. CASE n = N + 1
      <4>1. k[m] < matches + 1
        BY <1>2, <1>8, <3>1
      <4> QED
        BY <1>9, <3>1, <3>3, <4>1
    <3> QED
      BY <1>6, <3>2, <3>3
  <2> QED
    BY <1>5, <1>9, <2>1 DEF Numbers
<1>11. Reported \subseteq Reported' /\ Reported' \subseteq Reported \cup {f, g} /\ {f, g} \subseteq Reported'
  <2>1. /\ f \in Reported' /\ Reported \subseteq Reported' \cup owed
        /\ Reported' \subseteq Reported \cup {f} \cup owed' /\ owed' \subseteq Reported'
    BY ReportedGrows
  <2>2. owed \subseteq Reported
    BY DEF Reported
  <2> QED
    BY <2>1, <2>2
\* No fill of an earlier trade has the new number.
<1>12. \A z \in Reported : z.coin = "this" /\ z.tid # 0 => z.tid \in 1..matches
  BY <1>1, <1>3, <1>8 DEF FillsTellTrades
<1>13. FillsTellTrades(j)'
  <2>1. ASSUME NEW z \in Reported', z.coin = "this", z.tid # 0
        PROVE  \E n \in DOMAIN trades' :
                 /\ z.tid = j[n] /\ z.time = trades'[n].ts
                 /\ z.crossed => z.side = trades'[n].side
    <3>1. CASE z \in Reported
      <4>1. PICK n \in 1..N : /\ z.tid = k[n] /\ z.time = trades[n].ts
                              /\ z.crossed => z.side = trades[n].side
        BY <1>1, <1>3, <2>1, <3>1 DEF FillsTellTrades
      <4> QED
        BY <1>4, <1>5, <1>7, <1>9, <4>1
    <3>2. CASE z \in {f, g}
      <4>1. N + 1 \in DOMAIN trades' /\ j[N + 1] = matches + 1
        BY <1>5, <1>9
      <4>2. trades'[N + 1].ts = now /\ trades'[N + 1].side = side
        BY <1>2, <1>4
      <4>3. z.tid = matches + 1 /\ z.time = now /\ (z.crossed => z.side = side)
        BY <3>2 DEF OfTrade
      <4> QED
        BY <4>1, <4>2, <4>3
    <3> QED
      BY <1>11, <3>1, <3>2
  <2>2. ASSUME NEW n \in 1..(N + 1)
        PROVE  \E z \in Reported' : OfTrade(z, j[n]) /\ z.crossed
    <3>1. CASE n \in 1..N
      BY <1>1, <1>3, <1>9, <1>11, <3>1 DEF FillsTellTrades
    <3>2. CASE n = N + 1
      BY <1>9, <1>11, <3>2
    <3> QED
      BY <1>6, <3>1, <3>2
  <2> QED
    BY <1>5, <2>1, <2>2 DEF FillsTellTrades, OfTrade
<1>14. \A h \in Hours : \A y \in Fills(h) : ~OfTrade(y.fill, matches + 1)
  <2> SUFFICES ASSUME NEW h \in Hours, NEW y \in Fills(h), OfTrade(y.fill, matches + 1)
               PROVE  FALSE
    OBVIOUS
  <2>1. y.fill \in Reported
    BY DEF Reported
  <2> QED
    BY <1>2, <1>12, <2>1 DEF OfTrade
<1>15. ASSUME NEW n \in 1..N
       PROVE  \E h \in Hours : \E x \in Fills(h)' : IsFirst(j, n, h, x)'
  <2>1. PICK h \in Hours : \E x \in Fills(h) : IsFirst(k, n, h, x)
    BY <1>1, <1>3 DEF TradesInOrder
  <2>2. PICK x \in Fills(h) : IsFirst(k, n, h, x)
    BY <2>1
  <2>3. \A m \in DOMAIN trades' : \A y \in Fills(h) :
          OfTrade(y.fill, j[m]) => m \in DOMAIN trades /\ j[m] = k[m]
    BY <1>3, <1>5, <1>6, <1>9, <1>14
  <2>4. n \in DOMAIN trades /\ DOMAIN trades \subseteq Nat /\ j[n] = k[n]
    BY <1>3, <1>9
  <2>5. x \in Fills(h)' /\ IsFirst(j, n, h, x)'
    BY <2>2, <2>3, <2>4, FirstStays
  <2> QED
    BY <2>5
<1>16. \E h \in Hours : \E x \in Fills(h)' : IsFirst(j, N + 1, h, x)'
  <2>1. PICK p \in Nat :
          \A h \in Hours :
            Fills(h)' = IF h = Hour THEN Fills(h) \cup {[fill |-> f, place |-> p]} ELSE Fills(h)
    BY DEF Adds
  <2> DEFINE x == [fill |-> f, place |-> p]
  <2>2. PICK h \in Hours : h = Hour
    OBVIOUS
  <2>3. Fills(h)' = Fills(h) \cup {x} /\ x \in Fills(h)'
    BY <2>1, <2>2
  <2>4. ASSUME NEW m \in 1..(N + 1), NEW y \in Fills(h)', OfTrade(y.fill, j[m])
        PROVE  (N + 1 = m => x.place <= y.place) /\ (N + 1 < m => x.place < y.place)
    <3>1. ~(N + 1 < m)
      BY <1>3
    <3>2. ASSUME N + 1 = m PROVE y = x
      BY <1>9, <1>14, <2>3, <2>4, <3>2
    <3> QED
      BY <3>1, <3>2
  <2>5. OfTrade(x.fill, j[N + 1])
    BY <1>9
  <2>6. IsFirst(j, N + 1, h, x)'
    <3> HIDE DEF x
    <3> QED
      BY <1>5, <2>4, <2>5 DEF IsFirst, OfTrade
  <2> QED
    BY <2>3, <2>6
<1>17. TradesInOrder(j)'
  <2>1. \A n \in 1..(N + 1) : \E h \in Hours : \E x \in Fills(h)' : IsFirst(j, n, h, x)'
    BY <1>6, <1>15, <1>16
  <2> QED
    BY <1>5, <2>1 DEF TradesInOrder
<1> QED
  BY <1>5, <1>9, <1>10, <1>13, <1>17 DEF TradesInv

-----------------------------------------------------------------------------
(* The actions.                                                            *)

ExchangeInv == BlocksInv /\ ClockInv /\ TradesInv

LEMMA MomentsOfTheDay ==
  ASSUME TypeOK, now \in Moments
  PROVE  ~DayOver
<1>1. HourCount * Ticks \in Nat
  BY BoundsAssumption, PlaceType
<1>2. now \in 0..(HourCount * Ticks - 1)
  BY BoundsAssumption
<1> QED
  BY <1>1, <1>2 DEF DayOver

LEMMA SidesType == \A side \in Sides : Opposite(side) \in Sides
BY DEF Opposite, Sides

LEMMA MatchKeeps ==
  ASSUME TypeOK, ExchangeInv, NEW coin \in Coins, NEW side \in Sides, NEW first \in BOOLEAN,
         Match(coin, side, first)
  PROVE  ExchangeInv'
<1> DEFINE taker == Fill(coin, matches + 1, side, TRUE)
           maker == Fill(coin, matches + 1, Opposite(side), FALSE)
           f == IF first THEN taker ELSE maker
           g == IF first THEN maker ELSE taker
<1>1. /\ fills' = Written(f) /\ owed' = owed \cup {g} /\ matches' = matches + 1
      /\ now' = now /\ books' = books /\ ~DayOver
      /\ trades' = IF coin = "this" THEN Append(trades, [ts |-> now, side |-> side]) ELSE trades
  BY MomentsOfTheDay DEF Match
<1>2. matches \in Nat /\ matches + 1 \in Nat /\ matches + 1 # 0
  BY DEF TypeOK
<1>3. /\ f \in FillType /\ g \in FillType
      /\ \A z \in {f, g} : /\ z.coin = coin /\ z.time = now /\ z.tid = matches + 1
                           /\ z.crossed => z.side = side
      /\ f.crossed \/ g.crossed
  <2>1. /\ taker \in FillType /\ taker.coin = coin /\ taker.time = now
        /\ taker.tid = matches + 1 /\ taker.side = side /\ taker.crossed
    BY <1>2 DEF TypeOK, Fill, FillType
  <2>2. /\ maker \in FillType /\ maker.coin = coin /\ maker.time = now
        /\ maker.tid = matches + 1 /\ ~maker.crossed
    BY <1>2, SidesType DEF TypeOK, Fill, FillType
  <2> HIDE DEF taker, maker
  <2> QED
    BY <2>1, <2>2
<1> HIDE DEF f, g
<1>4. BlocksInv'
  <2>1. IsFiniteSet(owed') /\ Cardinality(owed') <= Cardinality(owed) + 1
    <3>1. IsFiniteSet(owed) /\ Cardinality(owed) \in Nat
      BY FS_CardinalityType DEF ExchangeInv, BlocksInv
    <3>2. /\ IsFiniteSet(owed \cup {g})
          /\ Cardinality(owed \cup {g}) = IF g \in owed THEN Cardinality(owed)
                                         ELSE Cardinality(owed) + 1
      BY <3>1, FS_AddElement
    <3> QED
      BY <1>1, <3>1, <3>2
  <2>2. Cardinality(owed) \in Nat /\ Cardinality(owed') \in Nat
    BY <2>1, FS_CardinalityType DEF ExchangeInv, BlocksInv
  <2>3. Cardinality(owed') + 1 + 2 * matches <= Cardinality(owed) + 2 * matches'
    BY <1>1, <1>2, <2>1, <2>2
  <2> QED
    BY <1>1, <1>2, <1>3, <2>1, <2>3, BlocksKept DEF ExchangeInv
<1>5. ClockInv'
  <2>1. \A z \in owed' : z.time = now
    BY <1>1, <1>3 DEF ExchangeInv, ClockInv
  <2> QED
    BY <1>1, <1>3, <2>1, ClockKept DEF ExchangeInv
<1>6. TradesInv'
  <2>1. Hour \in Hours /\ Adds(f)
    BY <1>1, <1>3, WriteAdds DEF ExchangeInv
  <2>2. CASE coin = "this"
    <3>1. \A z \in {f, g} : /\ OfTrade(z, matches + 1) /\ z.time = now
                            /\ z.crossed => z.side = side
      BY <1>3, <2>2 DEF OfTrade
    <3>2. trades' = Append(trades, [ts |-> now, side |-> side])
      BY <1>1, <2>2
    <3> QED
      BY <1>1, <1>3, <2>1, <3>1, <3>2, TradeAppends DEF ExchangeInv
  <2>3. CASE coin # "this"
    <3>1. /\ Reported \subseteq Reported' \cup owed
          /\ Reported' \subseteq Reported \cup {f} \cup owed' /\ owed' \subseteq Reported'
      BY <2>1, ReportedGrows
    <3>2. Reported \subseteq Reported' /\ Reported' \subseteq Reported \cup {f, g}
      BY <1>1, <3>1 DEF Reported
    <3>3. \A z \in Reported' : z \in Reported \/ z.coin # "this" \/ z.tid = 0
      BY <1>3, <2>3, <3>2
    <3>4. trades' = trades /\ matches' \in Nat /\ matches <= matches'
      BY <1>1, <1>2, <2>3
    <3> QED
      BY <2>1, <3>2, <3>3, <3>4, TradesStay DEF ExchangeInv
  <2> QED
    BY <2>2, <2>3
<1> QED
  BY <1>4, <1>5, <1>6 DEF ExchangeInv

LEMMA CounterpartKeeps ==
  ASSUME TypeOK, ExchangeInv, NEW f \in owed, Counterpart(f)
  PROVE  ExchangeInv'
<1>1. /\ fills' = Written(f) /\ owed' = owed \ {f} /\ matches' = matches
      /\ now' = now /\ books' = books /\ trades' = trades
  BY DEF Counterpart
<1>2. f \in FillType /\ f.time = now /\ ~DayOver /\ matches \in Nat
  BY DEF TypeOK, ExchangeInv, ClockInv
<1>3. BlocksInv'
  <2>1. IsFiniteSet(owed') /\ Cardinality(owed') = Cardinality(owed) - 1
    BY <1>1, FS_RemoveElement DEF ExchangeInv, BlocksInv
  <2>2. Cardinality(owed) \in Nat
    BY FS_CardinalityType DEF ExchangeInv, BlocksInv
  <2>3. Cardinality(owed') + 1 + 2 * matches <= Cardinality(owed) + 2 * matches'
    BY <1>1, <1>2, <2>1, <2>2
  <2> QED
    BY <1>1, <1>2, <2>1, <2>3, BlocksKept DEF ExchangeInv
<1>4. ClockInv'
  <2>1. \A z \in owed' : z.time = now
    BY <1>1 DEF ExchangeInv, ClockInv
  <2> QED
    BY <1>1, <1>2, <2>1, ClockKept DEF ExchangeInv
<1>5. TradesInv'
  <2>1. Hour \in Hours /\ Adds(f)
    BY <1>1, <1>2, WriteAdds DEF ExchangeInv
  <2>2. /\ f \in Reported' /\ Reported \subseteq Reported' \cup owed
        /\ Reported' \subseteq Reported \cup {f} \cup owed' /\ owed' \subseteq Reported'
    BY <2>1, ReportedGrows
  <2>3. Reported \subseteq Reported' /\ Reported' \subseteq Reported
    BY <1>1, <2>2 DEF Reported
  <2>4. matches' \in Nat /\ matches <= matches'
    BY <1>1, <1>2
  <2> QED
    BY <1>1, <2>1, <2>3, <2>4, TradesStay DEF ExchangeInv
<1> QED
  BY <1>3, <1>4, <1>5 DEF ExchangeInv

LEMMA DustKeeps ==
  ASSUME TypeOK, ExchangeInv, Dust
  PROVE  ExchangeInv'
<1> DEFINE f == Fill("this", 0, "A", FALSE)
<1>1. /\ fills' = Written(f) /\ owed' = owed /\ matches' = matches + 1
      /\ now' = now /\ books' = books /\ trades' = trades /\ ~DayOver
  BY MomentsOfTheDay DEF Dust
<1>2. f \in FillType /\ f.time = now /\ f.tid = 0
  BY DEF TypeOK, Fill, FillType, Coins, Sides
<1> HIDE DEF f
<1>3. matches \in Nat /\ matches' \in Nat /\ matches <= matches'
  BY <1>1 DEF TypeOK
<1>4. BlocksInv'
  <2>1. IsFiniteSet(owed') /\ Cardinality(owed') = Cardinality(owed) /\ Cardinality(owed) \in Nat
    BY <1>1, FS_CardinalityType DEF ExchangeInv, BlocksInv
  <2>2. Cardinality(owed') + 1 + 2 * matches <= Cardinality(owed) + 2 * matches'
    BY <1>1, <1>3, <2>1
  <2> QED
    BY <1>1, <1>2, <1>3, <2>1, <2>2, BlocksKept DEF ExchangeInv
<1>5. ClockInv'
  <2>1. \A z \in owed' : z.time = now
    BY <1>1 DEF ExchangeInv, ClockInv
  <2> QED
    BY <1>1, <1>2, <2>1, ClockKept DEF ExchangeInv
<1>6. TradesInv'
  <2>1. Hour \in Hours /\ Adds(f)
    BY <1>1, <1>2, WriteAdds DEF ExchangeInv
  <2>2. /\ Reported \subseteq Reported' \cup owed
        /\ Reported' \subseteq Reported \cup {f} \cup owed' /\ owed' \subseteq Reported'
    BY <2>1, ReportedGrows
  <2>3. Reported \subseteq Reported' /\ Reported' \subseteq Reported \cup {f}
    BY <1>1, <2>2 DEF Reported
  <2> QED
    BY <1>1, <1>2, <1>3, <2>1, <2>3, TradesStay DEF ExchangeInv
<1> QED
  BY <1>4, <1>5, <1>6 DEF ExchangeInv

LEMMA TradeType ==
  ASSUME TypeOK, NEW n \in DOMAIN trades
  PROVE  trades[n].ts \in Nat /\ trades[n].side \in Sides /\ n \in Nat
<1> DEFINE T == [ts : Nat, side : Sides]
<1>1. trades \in Seq(T)
  BY DEF TypeOK
<1>2. \A t \in T : t.ts \in Nat /\ t.side \in Sides
  OBVIOUS
<1> HIDE DEF T
<1>3. n \in 1..Len(trades)
  BY <1>1, LenProperties
<1>4. trades[n] \in T
  BY <1>1, <1>3, ElementOfSeq
<1> QED
  BY <1>2, <1>3, <1>4

LEMMA FillsUnchanged ==
  ASSUME fills' = fills
  PROVE  \A h : Fills(h)' = Fills(h)
BY DEF Fills

LEMMA FiniteImage ==
  ASSUME NEW S, IsFiniteSet(S), NEW T, NEW f \in [S -> T]
  PROVE  IsFiniteSet({f[x] : x \in S})
<1>1. f \in Surjection(S, {f[x] : x \in S})
  BY DEF Surjection
<1> QED
  BY <1>1, FS_Surjection

LEMMA SnapshotsFinite ==
  ASSUME TypeOK
  PROVE  IsFiniteSet(Snapshots)
<1> DEFINE Lines(h) == {<<h, l>> : l \in DOMAIN books[h]}
           Places == {Lines(h) : h \in Hours}
<1>1. ASSUME NEW h \in Hours PROVE IsFiniteSet(Lines(h))
  <2> DEFINE line == [l \in DOMAIN books[h] |-> <<h, l>>]
  <2>1. DOMAIN books[h] = 1..Len(books[h]) /\ Len(books[h]) \in Nat
    BY LenProperties DEF TypeOK
  <2>2. IsFiniteSet(DOMAIN books[h])
    BY <2>1, FS_Interval
  <2>3. line \in [DOMAIN books[h] -> Lines(h)]
    OBVIOUS
  <2>4. Lines(h) = {line[l] : l \in DOMAIN books[h]}
    OBVIOUS
  <2> HIDE DEF line, Lines
  <2>5. IsFiniteSet({line[l] : l \in DOMAIN books[h]})
    BY <2>2, <2>3, FiniteImage
  <2> QED
    BY <2>4, <2>5
<1>2. IsFiniteSet(Hours)
  BY FS_Interval, BoundsAssumption DEF Hours
<1>3. IsFiniteSet(Places)
  <2> DEFINE f == [h \in Hours |-> Lines(h)]
  <2> HIDE DEF Lines
  <2>1. f \in [Hours -> Places] /\ Places = {f[h] : h \in Hours}
    OBVIOUS
  <2> HIDE DEF f, Places
  <2>2. IsFiniteSet({f[h] : h \in Hours})
    BY <1>2, <2>1, FiniteImage
  <2> QED
    BY <2>1, <2>2
<1>4. \A T \in Places : IsFiniteSet(T)
  BY <1>1
<1>5. IsFiniteSet(UNION Places)
  BY <1>3, <1>4, FS_UNION
<1> QED
  BY <1>5 DEF Snapshots

LineType == [time : Nat, book : Nat]

\* Taking a snapshot adds a line to the file of its hour.
LEMMA BookAdds ==
  ASSUME TypeOK, ExchangeInv, Book
  PROVE  /\ Hour \in Hours /\ Within(Hour, now) /\ now \in Nat
         /\ books' \in [Hours -> Seq(LineType)]
         /\ \A h \in Hours : h # Hour => books'[h] = books[h]
         /\ Len(books'[Hour]) = Len(books[Hour]) + 1 /\ Len(books[Hour]) \in Nat
         /\ \A l \in 1..Len(books[Hour]) : books'[Hour][l] = books[Hour][l]
         /\ books'[Hour][Len(books[Hour]) + 1]
              = [time |-> now, book |-> Cardinality(Snapshots) + 1]
<1>1. Hour \in Hours /\ Within(Hour, now)
  <2>1. now \in 0..(HourCount * Ticks - 1)
    BY BoundsAssumption DEF Book
  <2>2. (now \div Ticks) \in Hours /\ Within(now \div Ticks, now)
    BY <2>1, HourOfTime
  <2> QED
    BY <2>2 DEF Hour
<1> DEFINE line == [time |-> now, book |-> Cardinality(Snapshots) + 1]
<1>2. now \in Nat /\ books \in [Hours -> Seq(LineType)]
  BY DEF TypeOK, LineType
<1>3. line \in LineType
  <2>1. Cardinality(Snapshots) \in Nat
    BY SnapshotsFinite, FS_CardinalityType
  <2> QED
    BY <1>2, <2>1 DEF LineType
<1>4. books' = [books EXCEPT ![Hour] = Append(books[Hour], line)]
  BY DEF Book
<1> HIDE DEF Hour, line, LineType
<1>5. books[Hour] \in Seq(LineType)
  BY <1>1, <1>2
<1>6. /\ Append(books[Hour], line) \in Seq(LineType)
      /\ Len(Append(books[Hour], line)) = Len(books[Hour]) + 1
      /\ \A l \in 1..Len(books[Hour]) : Append(books[Hour], line)[l] = books[Hour][l]
      /\ Append(books[Hour], line)[Len(books[Hour]) + 1] = line
      /\ Len(books[Hour]) \in Nat
  BY <1>3, <1>5, AppendProperties, LenProperties
<1>7. books'[Hour] = Append(books[Hour], line)
  BY <1>1, <1>2, <1>4
<1>8. books' \in [Hours -> Seq(LineType)] /\ \A h \in Hours : h # Hour => books'[h] = books[h]
  BY <1>1, <1>2, <1>4, <1>6
<1> QED
  BY <1>1, <1>2, <1>6, <1>7, <1>8 DEF line

LEMMA BooksInHours ==
  ASSUME TypeOK, ExchangeInv, Book
  PROVE  /\ books' \in [Hours -> Seq(LineType)]
         /\ \A h \in Hours : \A l \in 1..Len(books'[h]) : Within(h, books'[h][l].time)
<1>1. ASSUME NEW h \in Hours, NEW l \in 1..Len(books'[h])
      PROVE  Within(h, books'[h][l].time)
  <2>1. \A i \in 1..Len(books[h]) : Within(h, books[h][i].time)
    BY DEF ExchangeInv, ClockInv
  <2> HIDE DEF Hour, Within
  <2>2. CASE h # Hour
    BY <2>1, <2>2, BookAdds
  <2>3. CASE h = Hour
    <3>1. l \in 1..Len(books[h]) \/ l = Len(books[h]) + 1
      BY <2>3, BookAdds
    <3> QED
      BY <2>1, <2>3, <3>1, BookAdds
  <2> QED
    BY <2>2, <2>3
<1> QED
  BY <1>1, BookAdds

LEMMA SnapshotPlace ==
  ASSUME NEW s
  PROVE  s \in Snapshots <=> \E h \in Hours : \E l \in DOMAIN books[h] : s = <<h, l>>
BY DEF Snapshots

LEMMA SnapshotsUnchanged ==
  ASSUME books' = books
  PROVE  Snapshots' = Snapshots
BY DEF Snapshots

\* The snapshot that is taken is numbered after all others.
LEMMA BookCounts ==
  ASSUME TypeOK, ExchangeInv, Book
  PROVE  Cardinality(Snapshots)' = Cardinality(Snapshots) + 1 /\ Cardinality(Snapshots) \in Nat
<1> DEFINE n == Len(books[Hour]) + 1
           new == <<Hour, n>>
<1>1. \A h \in Hours : DOMAIN books[h] = 1..Len(books[h]) /\ Len(books[h]) \in Nat
  BY LenProperties DEF TypeOK
<1>2. \A h \in Hours : DOMAIN books'[h] = 1..Len(books'[h])
  BY BookAdds, LenProperties
<1> HIDE DEF Hour
<1>3. new \notin Snapshots
  <2>1. n \notin DOMAIN books[Hour]
    BY <1>1, BookAdds
  <2> QED
    BY <2>1, SnapshotPlace
<1>4. ASSUME NEW s PROVE s \in Snapshots' <=> s \in Snapshots \/ s = new
  <2>1. s \in Snapshots' <=> \E h \in Hours : \E l \in 1..Len(books'[h]) : s = <<h, l>>
    BY <1>2 DEF Snapshots
  <2>2. s \in Snapshots <=> \E h \in Hours : \E l \in 1..Len(books[h]) : s = <<h, l>>
    BY <1>1, SnapshotPlace
  <2>3. \A h \in Hours : \A l :
          l \in 1..Len(books'[h]) <=> l \in 1..Len(books[h]) \/ (h = Hour /\ l = n)
    <3>1. \A h \in Hours : h # Hour => books'[h] = books[h]
      BY BookAdds
    <3>2. \A l : l \in 1..Len(books'[Hour]) <=> l \in 1..Len(books[Hour]) \/ l = n
      BY BookAdds
    <3> QED
      BY <3>1, <3>2
  <2>4. Hour \in Hours /\ n \in 1..Len(books'[Hour])
    BY BookAdds
  <2> HIDE DEF n
  <2> QED
    BY <2>1, <2>2, <2>3, <2>4
<1>5. Snapshots' = Snapshots \cup {new}
  BY <1>4
<1>6. IsFiniteSet(Snapshots) /\ Cardinality(Snapshots) \in Nat
  BY SnapshotsFinite, FS_CardinalityType
<1>7. Cardinality(Snapshots)' = Cardinality(Snapshots')
  OBVIOUS
<1> HIDE DEF new
<1>8. Cardinality(Snapshots \cup {new}) = Cardinality(Snapshots) + 1
  BY <1>3, <1>6, FS_AddElement
<1> QED
  BY <1>5, <1>6, <1>7, <1>8

LEMMA BookType ==
  ASSUME TypeOK, NEW h \in Hours, NEW l \in 1..Len(books[h])
  PROVE  books[h][l].time \in Nat /\ books[h][l].book \in Nat
<1>1. books[h] \in Seq(LineType)
  BY DEF TypeOK, LineType
<1> HIDE DEF LineType
<1>2. books[h][l] \in LineType
  BY <1>1, ElementOfSeq
<1> QED
  BY <1>2 DEF LineType

\* A new snapshot comes after all others.
LEMMA BookKeepsShots ==
  ASSUME TypeOK, ExchangeInv, ShotsInv, Book
  PROVE  ShotsInv'
<1> DEFINE n == Len(books[Hour]) + 1
           count == Cardinality(Snapshots)
           Old(h, l) == l \in 1..Len(books[h])
<1>1. /\ now' = now /\ now \in Nat /\ Cardinality(Snapshots)' = count + 1 /\ count \in Nat
      /\ Hour \in Hours /\ Within(Hour, now) /\ Len(books[Hour]) \in Nat
  BY BookAdds, BookCounts DEF Book
<1> HIDE DEF Hour, count
<1>2. ASSUME NEW h \in Hours, NEW l \in 1..Len(books'[h])
      PROVE  \/ l \in 1..Len(books[h]) /\ books'[h][l] = books[h][l]
             \/ h = Hour /\ l = n /\ books'[h][l].time = now /\ books'[h][l].book = count + 1
  <2>1. CASE h # Hour
    BY <2>1, BookAdds
  <2>2. CASE h = Hour
    <3>1. l \in 1..Len(books[h]) \/ l = n
      BY <1>1, <2>2, BookAdds
    <3> QED
      BY <2>2, <3>1, BookAdds DEF count
  <2> QED
    BY <2>1, <2>2
<1>3. ASSUME NEW h \in Hours, NEW l \in 1..Len(books[h])
      PROVE  /\ books[h][l].time <= now /\ books[h][l].book <= count /\ h <= Hour
             /\ books[h][l].time \in Nat /\ books[h][l].book \in Nat
  <2>1. books[h][l].time \in Nat /\ books[h][l].book \in Nat
    BY BookType
  <2>2. books[h][l].time <= now /\ books[h][l].book <= count /\ Within(h, books[h][l].time)
    BY DEF ShotsInv, ExchangeInv, ClockInv, count
  <2>3. h \in Int /\ Hour \in Int /\ Ticks \in Nat /\ Ticks # 0
    BY <1>1, BoundsAssumption DEF Hours
  <2>4. h <= Hour
    <3> SUFFICES ASSUME Hour + 1 <= h PROVE FALSE
      BY <2>3
    <3>1. (Hour + 1) * Ticks <= h * Ticks
      BY <2>3, MulMonotonic
    <3>2. (Hour + 1) * Ticks \in Int /\ h * Ticks \in Int
      BY <2>3
    <3>3. now < (Hour + 1) * Ticks /\ h * Ticks <= books[h][l].time
      BY <1>1, <2>2 DEF Within
    <3> QED
      BY <1>1, <2>1, <2>2, <3>1, <3>2, <3>3
  <2> QED
    BY <2>1, <2>2, <2>4
<1>4. ASSUME NEW h \in Hours, NEW l \in 1..Len(books'[h])
      PROVE  books'[h][l].time <= now /\ books'[h][l].book <= count + 1
  <2>1. CASE l \in 1..Len(books[h]) /\ books'[h][l] = books[h][l]
    BY <1>1, <1>3, <2>1
  <2>2. CASE books'[h][l].time = now /\ books'[h][l].book = count + 1
    BY <1>1, <2>2
  <2> QED
    BY <1>2, <2>1, <2>2
<1>5. ASSUME NEW g \in Hours, NEW h \in Hours, NEW i \in 1..Len(books'[g]),
             NEW l \in 1..Len(books'[h]), Earlier(g, i, h, l)
      PROVE  books'[g][i].time <= books'[h][l].time /\ books'[g][i].book < books'[h][l].book
  <2>1. CASE i \in 1..Len(books[g]) /\ books'[g][i] = books[g][i]
    <3>1. CASE l \in 1..Len(books[h]) /\ books'[h][l] = books[h][l]
      BY <1>5, <2>1, <3>1 DEF ShotsInv
    <3>2. CASE books'[h][l].time = now /\ books'[h][l].book = count + 1
      BY <1>1, <1>3, <2>1, <3>2
    <3> QED
      BY <1>2, <3>1, <3>2
  <2>2. CASE g = Hour /\ i = n
    <3>1. g \in Int /\ h \in Int /\ Hour \in Int
      BY <1>1, BoundsAssumption DEF Hours
    <3>2. CASE l \in 1..Len(books[h])
      <4>1. h <= Hour
        BY <1>3, <3>2
      <4>2. h = Hour /\ n < l
        BY <1>5, <2>2, <3>1, <4>1 DEF Earlier
      <4> QED
        BY <1>1, <3>2, <4>2
    <3>3. CASE h = Hour /\ l = n
      BY <1>1, <1>5, <2>2, <3>1, <3>3 DEF Earlier
    <3> QED
      BY <1>2, <3>2, <3>3
  <2> QED
    BY <1>2, <2>1, <2>2
<1> QED
  BY <1>1, <1>4, <1>5 DEF ShotsInv, Earlier

LEMMA ShotsKept ==
  ASSUME TypeOK, ExchangeInv, ShotsInv, [Next]_vars
  PROVE  ShotsInv'
<1>1. ASSUME books' = books, now' \in Nat, now <= now' PROVE ShotsInv'
  <2>1. Cardinality(Snapshots)' = Cardinality(Snapshots)
    BY <1>1, SnapshotsUnchanged
  <2>2. \A h \in Hours : \A l \in 1..Len(books[h]) : books[h][l].time <= now'
    <3>1. now \in Nat
      BY DEF TypeOK
    <3> QED
      BY <1>1, <3>1, BookType DEF ShotsInv
  <2> QED
    BY <1>1, <2>1, <2>2 DEF ShotsInv, Earlier
<1>2. now \in Nat
  BY DEF TypeOK
<1>3. CASE UNCHANGED <<now, books>>
  BY <1>1, <1>2, <1>3
<1>4. CASE Tick
  BY <1>1, <1>2, <1>4 DEF Tick
<1>5. CASE Book
  BY <1>5, BookKeepsShots
<1> QED
  BY <1>3, <1>4, <1>5 DEF Next, Exchange, Match, Counterpart, Dust, Bucket, Mirror, Lose,
          Build, Begin, Fetch, PutData, PutManifest, PutRecord, PutCoverage, Fail, vars, exchange

LEMMA ExchangeKept ==
  ASSUME TypeOK, ExchangeInv, [Next]_vars
  PROVE  ExchangeInv'
<1>1. ASSUME UNCHANGED <<fills, owed, trades, matches>>
      PROVE  BlocksInv' /\ TradesInv'
  <2>1. BlocksInv'
    BY <1>1 DEF ExchangeInv, BlocksInv
  <2>2. TradesInv'
    <3>1. \A h : Fills(h)' = Fills(h)
      BY <1>1, FillsUnchanged
    <3>2. Reported' = Reported
      BY <1>1, <3>1 DEF Reported
    <3>3. PICK k \in [DOMAIN trades -> 1..matches] :
            Numbers(k) /\ FillsTellTrades(k) /\ TradesInOrder(k)
      BY DEF ExchangeInv, TradesInv
    <3>4. Numbers(k)'
      BY <1>1, <3>3 DEF Numbers
    <3>5. FillsTellTrades(k)'
      BY <1>1, <3>2, <3>3 DEF FillsTellTrades
    <3>6. TradesInOrder(k)'
      <4>1. ASSUME NEW n \in DOMAIN trades', NEW h \in Hours, NEW x \in Fills(h), IsFirst(k, n, h, x)
            PROVE  IsFirst(k, n, h, x)'
        <5>1. trades' = trades
          BY <1>1
        <5>2. Fills(h)' = Fills(h)
          BY <3>1
        <5> QED
          BY <4>1, <5>1, <5>2 DEF IsFirst
      <4>2. DOMAIN trades' = DOMAIN trades
        BY <1>1
      <4>3. ASSUME NEW n \in DOMAIN trades'
            PROVE  \E h \in Hours : \E x \in Fills(h)' : IsFirst(k, n, h, x)'
        <5>1. PICK h \in Hours : \E x \in Fills(h) : IsFirst(k, n, h, x)
          BY <3>3, <4>2 DEF TradesInOrder
        <5>2. PICK x \in Fills(h) : IsFirst(k, n, h, x)
          BY <5>1
        <5>3. x \in Fills(h)' /\ IsFirst(k, n, h, x)'
          BY <3>1, <4>1, <5>2
        <5> QED
          BY <5>3
      <4> QED
        BY <4>3 DEF TradesInOrder
    <3> QED
      BY <1>1, <3>3, <3>4, <3>5, <3>6 DEF TradesInv
  <2> QED
    BY <2>1, <2>2
<1>2. ASSUME UNCHANGED <<fills, owed, trades, matches>>,
             now' \in Nat, now <= now', now' = now \/ owed = {},
             \A h \in Hours : \A l \in 1..Len(books'[h]) : Within(h, books'[h][l].time)
      PROVE  ClockInv'
  <2>1. \A h : Fills(h)' = Fills(h)
    BY <1>2, FillsUnchanged
  <2>2. \A h \in Hours : \A x \in Fills(h)' : Within(h, x.fill.time)
    BY <2>1 DEF ExchangeInv, ClockInv
  <2>3. \A f \in owed' : f.time = now' /\ ~DayOver'
    BY <1>2 DEF ExchangeInv, ClockInv, DayOver
  <2>4. \A n \in DOMAIN trades : trades[n].ts \in Nat /\ trades[n].ts <= now'
    <3>2. \A n \in DOMAIN trades : trades[n].ts \in Nat
      BY TradeType
    <3>3. now \in Nat
      BY DEF TypeOK
    <3> QED
      BY <1>2, <3>2, <3>3 DEF ExchangeInv, ClockInv
  <2> QED
    BY <1>2, <2>2, <2>3, <2>4 DEF ExchangeInv, ClockInv, Within
<1>3. now \in Nat
  BY DEF TypeOK
<1>4. ASSUME UNCHANGED exchange PROVE ExchangeInv'
  <2>1. \A h \in Hours : \A l \in 1..Len(books'[h]) : Within(h, books'[h][l].time)
    BY <1>4 DEF exchange, ExchangeInv, ClockInv
  <2>2. UNCHANGED <<fills, owed, trades, matches>> /\ now' = now
    BY <1>4 DEF exchange
  <2> QED
    BY <1>1, <1>2, <1>3, <2>1, <2>2 DEF ExchangeInv
<1>5. CASE Exchange
  <2>1. ASSUME Book PROVE ExchangeInv'
    <3>1. UNCHANGED <<fills, owed, trades, matches>> /\ now' = now
      BY <2>1 DEF Book
    <3> QED
      BY <1>1, <1>2, <1>3, <2>1, <3>1, BooksInHours DEF ExchangeInv
  <2>2. ASSUME Tick PROVE ExchangeInv'
    <3>1. /\ UNCHANGED <<fills, owed, trades, matches, books>>
          /\ now' = now + 1 /\ owed = {}
      BY <2>2 DEF Tick
    <3>2. \A h \in Hours : \A l \in 1..Len(books'[h]) : Within(h, books'[h][l].time)
      BY <3>1 DEF ExchangeInv, ClockInv
    <3>3. now' \in Nat /\ now <= now'
      BY <1>3, <3>1
    <3> QED
      BY <1>1, <1>2, <3>1, <3>2, <3>3 DEF ExchangeInv
  <2> QED
    BY <1>5, <2>1, <2>2, MatchKeeps, CounterpartKeeps, DustKeeps DEF Exchange
<1>6. CASE Bucket
  BY <1>4, <1>6 DEF Bucket, Mirror, Lose
<1>7. ASSUME NEW b \in Builders, Build(b) PROVE ExchangeInv'
  BY <1>4, <1>7 DEF Build, Begin, Fetch, PutData, PutManifest, PutRecord, PutCoverage, Fail
<1>8. CASE UNCHANGED vars
  BY <1>4, <1>8 DEF vars
<1> QED
  BY <1>5, <1>6, <1>7, <1>8 DEF Next

\* When the day is over the exchange is still.
LEMMA DayIsStill ==
  ASSUME TypeOK, ExchangeInv, [Next]_vars, DayOver
  PROVE  UNCHANGED exchange
<1>1. owed = {}
  BY DEF ExchangeInv, ClockInv
<1>2. now \notin Moments
  BY MomentsOfTheDay
<1>3. ~Exchange
  BY <1>1, <1>2 DEF Exchange, Match, Dust, Book, Tick
<1>4. CASE Bucket
  BY <1>4 DEF Bucket, Mirror, Lose
<1>5. ASSUME NEW b \in Builders, Build(b) PROVE UNCHANGED exchange
  BY <1>5 DEF Build, Begin, Fetch, PutData, PutManifest, PutRecord, PutCoverage, Fail
<1>6. CASE UNCHANGED vars
  BY <1>6 DEF vars
<1> QED
  BY <1>3, <1>4, <1>5, <1>6 DEF Next

-----------------------------------------------------------------------------
(* The build.                                                              *)

LEMMA RowsUnchanged ==
  ASSUME fills' = fills, books' = books
  PROVE  Rows' = Rows
<1>1. \A h : Fills(h)' = Fills(h)
  BY FillsUnchanged
<1>2. \A h : Kept(h)' = Kept(h)
  BY <1>1 DEF Kept
<1>3. \A h : Groups(h)' = Groups(h)
  BY <1>2 DEF Groups
<1>4. \A h, l : SnapshotRow(h, l)' = SnapshotRow(h, l)
  BY DEF SnapshotRow
<1> DEFINE Shots(h) == {SnapshotRow(h, l) : l \in DOMAIN books[h]}
           Trades(h) == {TradeRow(h, g) : g \in Groups(h)}
           A == {h \in Hours : <<"l2", h>> \in Files}
           B == {h \in Hours : <<"fills", h>> \in Files}
<1>5. \A h : Shots(h)' = Shots(h)
  BY <1>4
<1>6. \A h : Trades(h)' = Trades(h)
  BY <1>3
<1>7. /\ RowsOf(Files) = UNION ({Shots(h) : h \in A} \cup {Trades(h) : h \in B})
      /\ RowsOf(Files)' = UNION ({Shots(h)' : h \in A} \cup {Trades(h)' : h \in B})
  BY DEF RowsOf
<1> HIDE DEF Shots, Trades, A, B
<1>8. {Shots(h)' : h \in A} = {Shots(h) : h \in A} /\ {Trades(h)' : h \in B} = {Trades(h) : h \in B}
  BY <1>5, <1>6
<1>9. RowsOf(Files)' = RowsOf(Files)
  BY <1>7, <1>8
<1> QED
  BY <1>9 DEF Rows, Sorted

\* All raw objects are there when the day is over only.
LEMMA FilesOfTheDay ==
  ASSUME TypeOK, BuildInv, Files \subseteq recorded
  PROVE  DayOver
<1>1. HourCount \in Nat \ {0} /\ Ticks \in Nat \ {0}
  BY BoundsAssumption
<1>2. HourCount - 1 \in Hours
  BY <1>1 DEF Hours
<1>3. <<"l2", HourCount - 1>> \in Files
  BY <1>2 DEF Files, Kinds
<1>4. HourOver(HourCount - 1)
  BY <1>3 DEF BuildInv
<1>5. now >= HourCount * Ticks
  BY <1>1, <1>4 DEF HourOver
<1>6. HourCount * Ticks \in Nat
  BY <1>1, PlaceType
<1> QED
  BY <1>5, <1>6 DEF TypeOK, DayOver

LEMMA TypeKept ==
  ASSUME IInv, [Next]_vars
  PROVE  TypeOK'
<1>1. TypeOK /\ BlocksInv /\ ClockInv /\ BuildInv /\ ExchangeInv
  BY DEF IInv, ExchangeInv
<1>2. DayOver => DayOver'
  BY <1>1, DayIsStill DEF exchange, DayOver
<1>3. CASE Exchange
  <2>1. UNCHANGED <<mirror, pc, got, shard>>
    BY <1>3 DEF Exchange, Match, Counterpart, Dust, Book, Tick
  <2>2. /\ stored' \subseteq recorded' /\ recorded' \subseteq Files
        /\ losses' \in 0..MaxLosses
        /\ pc' \in [Builders -> {"idle", "fetch", "manifest", "record", "coverage"}]
        /\ got' \in [Builders -> SUBSET Files]
        /\ \A b \in Builders : pc'[b] # "idle" => DayOver'
        /\ data'.found \in BOOLEAN /\ manifest'.found \in BOOLEAN /\ record'.found \in BOOLEAN
        /\ covered' \in BOOLEAN /\ (covered' => record'.found)
    BY <1>1, <1>2, <2>1 DEF TypeOK, mirror, shard
  <2>3. ASSUME NEW coin \in Coins, NEW side \in Sides, NEW first \in BOOLEAN,
               Match(coin, side, first)
        PROVE  TypeOK'
    <3> DEFINE taker == Fill(coin, matches + 1, side, TRUE)
               maker == Fill(coin, matches + 1, Opposite(side), FALSE)
               f == IF first THEN taker ELSE maker
               g == IF first THEN maker ELSE taker
    <3>1. taker \in FillType /\ maker \in FillType
      BY <1>1, SidesType DEF TypeOK, Fill, FillType
    <3> HIDE DEF taker, maker
    <3>2. f \in FillType /\ g \in FillType
      BY <3>1
    <3>3. /\ fills' = Written(f) /\ owed' = owed \cup {g} /\ ~DayOver
          /\ matches < MaxMatches /\ matches' = matches + 1 /\ now' = now /\ books' = books
          /\ trades' = IF coin = "this" THEN Append(trades, [ts |-> now, side |-> side])
                       ELSE trades
      BY <1>1, <2>3, MomentsOfTheDay DEF Match, taker, maker
    <3>4. fills' \in [Hours -> Seq(Seq(FillType))]
      BY <1>1, <3>2, <3>3, WriteAdds
    <3>5. owed' \subseteq FillType
      BY <1>1, <3>2, <3>3 DEF TypeOK
    <3>6. trades' \in Seq([ts : Nat, side : Sides])
      <4>1. [ts |-> now, side |-> side] \in [ts : Nat, side : Sides]
        BY <1>1 DEF TypeOK
      <4>2. trades \in Seq([ts : Nat, side : Sides])
        BY <1>1 DEF TypeOK
      <4> QED
        BY <3>3, <4>1, <4>2, AppendProperties
    <3>7. matches' \in 0..MaxMatches
      BY <1>1, <3>3, BoundsAssumption DEF TypeOK
    <3> QED
      BY <1>1, <2>2, <3>3, <3>4, <3>5, <3>6, <3>7 DEF TypeOK
  <2>4. ASSUME NEW f \in owed, Counterpart(f) PROVE TypeOK'
    <3>1. /\ fills' = Written(f) /\ owed' = owed \ {f} /\ f \in FillType /\ ~DayOver
          /\ UNCHANGED <<now, books, trades, matches>>
      BY <1>1, <2>4 DEF Counterpart, ClockInv, TypeOK
    <3>2. fills' \in [Hours -> Seq(Seq(FillType))]
      BY <1>1, <3>1, WriteAdds
    <3> QED
      BY <1>1, <2>2, <3>1, <3>2 DEF TypeOK
  <2>5. ASSUME Dust PROVE TypeOK'
    <3> DEFINE f == Fill("this", 0, "A", FALSE)
    <3>1. f \in FillType
      BY <1>1 DEF TypeOK, Fill, FillType, Coins, Sides
    <3>2. /\ fills' = Written(f) /\ matches < MaxMatches /\ matches' = matches + 1 /\ ~DayOver
          /\ UNCHANGED <<now, books, trades, owed>>
      BY <1>1, <2>5, MomentsOfTheDay DEF Dust
    <3> HIDE DEF f
    <3>3. fills' \in [Hours -> Seq(Seq(FillType))]
      BY <1>1, <3>1, <3>2, WriteAdds
    <3>4. matches' \in 0..MaxMatches
      BY <1>1, <3>2, BoundsAssumption DEF TypeOK
    <3> QED
      BY <1>1, <2>2, <3>2, <3>3, <3>4 DEF TypeOK
  <2>6. ASSUME Book PROVE TypeOK'
    <3>1. books' \in [Hours -> Seq(LineType)] /\ UNCHANGED <<now, fills, owed, trades, matches>>
      BY <1>1, <2>6, BooksInHours DEF Book
    <3> QED
      BY <1>1, <2>2, <3>1 DEF TypeOK, LineType
  <2>7. ASSUME Tick PROVE TypeOK'
    <3>1. HourCount * Ticks \in Nat
      BY BoundsAssumption, PlaceType
    <3>2. now' \in 0..(HourCount * Ticks) /\ UNCHANGED <<fills, books, owed, trades, matches>>
      BY <1>1, <2>7, <3>1 DEF Tick, TypeOK, DayOver
    <3> QED
      BY <1>1, <2>2, <3>2 DEF TypeOK
  <2> QED
    BY <1>3, <2>3, <2>4, <2>5, <2>6, <2>7 DEF Exchange
<1>4. ASSUME NEW f \in Files, Mirror(f) \/ Lose(f) PROVE TypeOK'
  <2>1. UNCHANGED <<exchange, pc, got, shard>>
    BY <1>4 DEF Mirror, Lose
  <2>2. stored' \subseteq recorded' /\ recorded' \subseteq Files /\ losses' \in 0..MaxLosses
    BY <1>1, <1>4, BoundsAssumption DEF TypeOK, Mirror, Lose
  <2> QED
    BY <1>1, <2>1, <2>2 DEF TypeOK, exchange, shard, DayOver
<1>5. ASSUME NEW b \in Builders, Build(b) PROVE TypeOK'
  <2>1. UNCHANGED <<exchange, mirror>>
    BY <1>5 DEF Build, Begin, Fetch, PutData, PutManifest, PutRecord, PutCoverage, Fail
  <2>2. /\ pc' \in [Builders -> {"idle", "fetch", "manifest", "record", "coverage"}]
        /\ \A a \in Builders : pc'[a] # "idle" => DayOver
        /\ got' \in [Builders -> SUBSET Files]
    <3>1. ASSUME NEW force \in BOOLEAN, Begin(b, force) PROVE <2>2!:
      <4>1. DayOver
        BY <1>1, <3>1, FilesOfTheDay DEF Begin
      <4> QED
        BY <1>1, <3>1, <4>1 DEF Begin, Step, TypeOK
    <3>2. ASSUME NEW f \in Files, Fetch(b, f) PROVE <2>2!:
      BY <1>1, <3>2 DEF Fetch, TypeOK
    <3>3. CASE PutData(b)
      BY <1>1, <3>3 DEF PutData, Step, TypeOK
    <3>4. CASE PutManifest(b)
      BY <1>1, <3>4 DEF PutManifest, Step, TypeOK
    <3>5. CASE PutRecord(b)
      BY <1>1, <3>5 DEF PutRecord, Step, TypeOK
    <3>6. CASE PutCoverage(b) \/ Fail(b)
      BY <1>1, <3>6 DEF PutCoverage, Fail, Step, TypeOK
    <3> QED
      BY <1>5, <3>1, <3>2, <3>3, <3>4, <3>5, <3>6 DEF Build
  <2>3. /\ data'.found \in BOOLEAN /\ manifest'.found \in BOOLEAN /\ record'.found \in BOOLEAN
        /\ covered' \in BOOLEAN /\ (covered' => record'.found)
    <3>1. CASE UNCHANGED shard
      BY <1>1, <3>1 DEF TypeOK, shard
    <3>2. CASE PutData(b)
      BY <1>1, <3>2 DEF TypeOK, PutData
    <3>3. CASE PutManifest(b)
      BY <1>1, <3>3 DEF TypeOK, PutManifest, Summary
    <3>4. CASE PutRecord(b)
      BY <1>1, <3>4 DEF TypeOK, PutRecord, Summary
    <3>5. CASE PutCoverage(b)
      BY <1>1, <3>5 DEF TypeOK, PutCoverage, BuildInv
    <3> QED
      BY <1>5, <3>1, <3>2, <3>3, <3>4, <3>5 DEF Build, Begin, Fetch, Fail
  <2> QED
    BY <1>1, <2>1, <2>2, <2>3 DEF TypeOK, exchange, mirror, DayOver
<1>6. CASE UNCHANGED vars
  BY <1>1, <1>6 DEF TypeOK, vars, exchange, mirror, shard, DayOver
<1> QED
  BY <1>3, <1>4, <1>5, <1>6 DEF Next, Bucket

LEMMA BuildKept ==
  ASSUME IInv, [Next]_vars
  PROVE  BuildInv'
<1>1. TypeOK /\ BuildInv /\ ExchangeInv
  BY DEF IInv, ExchangeInv
<1>2. DayOver => UNCHANGED exchange /\ Rows' = Rows /\ DayOver'
  BY <1>1, DayIsStill, RowsUnchanged DEF exchange, DayOver
<1>3. now' \in Nat /\ now' >= now /\ now \in Nat
  <2>1. now \in Nat
    BY <1>1 DEF TypeOK
  <2>2. now' = now \/ now' = now + 1
    <3>1. CASE Exchange
      BY <3>1 DEF Exchange, Match, Counterpart, Dust, Book, Tick
    <3>2. CASE UNCHANGED exchange
      BY <3>2 DEF exchange
    <3> QED
      BY <3>1, <3>2 DEF Next, Bucket, Mirror, Lose, Build, Begin, Fetch, PutData, PutManifest,
                        PutRecord, PutCoverage, Fail, vars
  <2> QED
    BY <2>1, <2>2
<1>4. \A f \in recorded' : HourOver(f[2])'
  <2>1. \A f \in recorded' : HourOver(f[2])
    <3>1. CASE Bucket
      BY <1>1, <3>1 DEF BuildInv, Bucket, Mirror, Lose
    <3>2. CASE recorded' = recorded
      BY <1>1, <3>2 DEF BuildInv
    <3> QED
      BY <3>1, <3>2 DEF Next, Exchange, Match, Counterpart, Dust, Book, Tick, mirror,
              Build, Begin, Fetch, PutData, PutManifest, PutRecord, PutCoverage, Fail, vars
  <2>2. ASSUME NEW f \in recorded', HourOver(f[2]) PROVE HourOver(f[2])'
    <3>1. f[2] \in Int
      <4>1. f \in Files
        BY TypeKept DEF TypeOK
      <4> QED
        BY <4>1, BoundsAssumption DEF Files, Hours
    <3>2. (f[2] + 1) * Ticks \in Int
      BY <3>1, BoundsAssumption
    <3> QED
      BY <1>3, <2>2, <3>2 DEF HourOver
  <2> QED
    BY <2>1, <2>2
<1>5. CASE UNCHANGED <<pc, got, data, record>>
  <2>1. data.found => Rows' = Rows /\ DayOver'
    BY <1>1, <1>2 DEF BuildInv
  <2> QED
    BY <1>1, <1>4, <1>5, <2>1 DEF BuildInv
<1>6. ASSUME NEW b \in Builders, Build(b) PROVE BuildInv'
  <2>1. pc[b] # "idle" => DayOver
    BY <1>1 DEF TypeOK
  <2>2. data.found => Rows' = Rows /\ DayOver'
    BY <1>1, <1>2 DEF BuildInv
  <2>3. pc \in [Builders -> {"idle", "fetch", "manifest", "record", "coverage"}]
    BY <1>1 DEF TypeOK
  <2>4. ASSUME NEW force \in BOOLEAN, Begin(b, force) PROVE BuildInv'
    BY <1>1, <1>4, <2>2, <2>3, <2>4 DEF BuildInv, Begin, Step, shard
  <2>5. ASSUME NEW f \in Files, Fetch(b, f) PROVE BuildInv'
    BY <1>1, <1>4, <2>2, <2>3, <2>5 DEF BuildInv, Fetch, shard
  <2>6. CASE PutData(b)
    <3>1. Rows' = Rows /\ DayOver'
      BY <1>2, <2>1, <2>6 DEF PutData
    <3>2. data' = [found |-> TRUE, rows |-> Rows] /\ record' = record /\ got' = got /\ got[b] = Files
      BY <2>6 DEF PutData, Rows
    <3>3. record.found => record.count = Len(Rows)
      BY <1>1 DEF BuildInv
    <3>4. pc' = [pc EXCEPT ![b] = "manifest"]
      BY <2>6 DEF PutData, Step
    <3>5. \A a \in Builders : pc'[a] = "coverage" => pc[a] = "coverage"
      BY <2>3, <3>4
    <3> QED
      BY <1>1, <1>4, <2>3, <3>1, <3>2, <3>3, <3>4, <3>5 DEF BuildInv
  <2>7. CASE PutManifest(b)
    BY <1>1, <1>4, <2>2, <2>3, <2>7 DEF BuildInv, PutManifest, Step
  <2>8. CASE PutRecord(b)
    <3>1. Rows' = Rows /\ DayOver' /\ data.found /\ got[b] = Files
      BY <1>1, <2>2, <2>8 DEF PutRecord, BuildInv
    <3>2. /\ data' = data /\ got' = got /\ record'.found /\ record'.count = Len(Rows)
          /\ pc' = [pc EXCEPT ![b] = "coverage"]
      BY <2>8, <3>1 DEF PutRecord, Summary, Step, Rows
    <3>3. \A a \in Builders : pc'[a] \in {"manifest", "record", "coverage"} => got[a] = Files
      BY <1>1, <2>3, <3>1, <3>2 DEF BuildInv
    <3> QED
      BY <1>1, <1>4, <3>1, <3>2, <3>3 DEF BuildInv
  <2>9. CASE PutCoverage(b) \/ Fail(b)
    <3>1. /\ UNCHANGED <<data, record>> /\ pc' = [pc EXCEPT ![b] = "idle"]
          /\ got' = [got EXCEPT ![b] = {}]
      BY <2>9 DEF PutCoverage, Fail, Step, shard
    <3>2. got \in [Builders -> SUBSET Files]
      BY <1>1 DEF TypeOK
    <3>3. \A a \in Builders : pc'[a] # "idle" => pc'[a] = pc[a] /\ got'[a] = got[a]
      BY <2>3, <3>1, <3>2
    <3> QED
      BY <1>1, <1>4, <2>2, <3>1, <3>3 DEF BuildInv
  <2> QED
    BY <1>6, <2>4, <2>5, <2>6, <2>7, <2>8, <2>9 DEF Build
<1> QED
  BY <1>5, <1>6 DEF Next, Exchange, Match, Counterpart, Dust, Book, Tick, Bucket, Mirror, Lose,
                    vars, shard

\* Whatever is checked of a shard rests on this invariant.
LEMMA Invariance == Spec => []IInv
<1>1. Init => IInv
  <2> SUFFICES ASSUME Init PROVE IInv
    OBVIOUS
  <2>1. TypeOK
    <3>1. HourCount * Ticks \in Nat
      BY BoundsAssumption, PlaceType
    <3>2. /\ now \in 0..(HourCount * Ticks) /\ matches \in 0..MaxMatches
          /\ losses \in 0..MaxLosses
      BY <3>1, BoundsAssumption DEF Init
    <3>3. fills \in [Hours -> Seq(Seq(FillType))]
      <4>1. <<>> \in Seq(Seq(FillType))
        BY EmptySeq
      <4> QED
        BY <4>1 DEF Init
    <3>4. books \in [Hours -> Seq([time : Nat, book : Nat])] /\ trades \in Seq([ts : Nat, side : Sides])
      BY EmptySeq DEF Init
    <3>5. /\ owed \subseteq FillType /\ stored \subseteq recorded /\ recorded \subseteq Files
          /\ got \in [Builders -> SUBSET Files]
      BY DEF Init
    <3>6. /\ pc \in [Builders -> {"idle", "fetch", "manifest", "record", "coverage"}]
          /\ \A b \in Builders : pc[b] # "idle" => DayOver
      BY DEF Init
    <3>7. /\ data.found \in BOOLEAN /\ manifest.found \in BOOLEAN /\ record.found \in BOOLEAN
          /\ covered \in BOOLEAN /\ (covered => record.found)
      BY DEF Init, NoData, NoRecord
    <3> QED
      BY <3>2, <3>3, <3>4, <3>5, <3>6, <3>7 DEF TypeOK
  <2>2. \A h \in Hours : Fills(h) = {}
    BY DEF Init, Fills
  <2>3. BlocksInv
    BY FS_EmptySet DEF Init, BlocksInv
  <2>4. ClockInv
    BY <2>2 DEF Init, ClockInv
  <2>5. TradesInv
    <3>1. trades = <<>> /\ DOMAIN trades = {} /\ Reported = {}
      BY <2>2 DEF Init, Reported
    <3>2. PICK k : k = [n \in {} |-> 1]
      OBVIOUS
    <3>3. k \in [DOMAIN trades -> 1..matches]
      BY <3>1, <3>2
    <3> QED
      BY <3>1, <3>3 DEF TradesInv, Numbers, FillsTellTrades, TradesInOrder
  <2>6. BuildInv
    BY DEF Init, BuildInv, NoData, NoRecord
  <2>7. ShotsInv
    BY DEF Init, ShotsInv
  <2> QED
    BY <2>1, <2>3, <2>4, <2>5, <2>6, <2>7 DEF IInv
<1>2. IInv /\ [Next]_vars => IInv'
  <2> SUFFICES ASSUME IInv, [Next]_vars PROVE IInv'
    OBVIOUS
  <2>1. TypeOK' /\ BuildInv'
    BY TypeKept, BuildKept
  <2>2. ExchangeInv' /\ ShotsInv'
    BY ExchangeKept, ShotsKept DEF IInv, ExchangeInv
  <2> QED
    BY <2>1, <2>2 DEF IInv, ExchangeInv
<1> QED
  BY <1>1, <1>2, PTL DEF Spec

\* The state keeps its type; in particular a build that has passed the check
\* of the raw objects is of a day that is over (_assert_raw_hl_ready), and a
\* shard gets its coverage after its record (_write_hl_shard).
THEOREM TypeCorrect == Spec => []TypeOK
<1>1. IInv => TypeOK
  BY DEF IInv
<1> QED
  BY <1>1, Invariance, PTL

-----------------------------------------------------------------------------
(* The rows, sorted.                                                       *)

Sortable(S) ==
  /\ IsFiniteSet(S)
  /\ \A a \in S : a.ts \in Int /\ a.order \in Int
  /\ \A a, b \in S : a # b => Before(a, b) \/ Before(b, a)

\* The sort key is a strict order.
LEMMA BeforeOrder ==
  ASSUME NEW S, Sortable(S), NEW a \in S, NEW b \in S, NEW c \in S
  PROVE  ~Before(a, a) /\ (Before(a, b) /\ Before(b, c) => Before(a, c))
<1>1. /\ a.ts \in Int /\ a.order \in Int /\ b.ts \in Int /\ b.order \in Int
      /\ c.ts \in Int /\ c.order \in Int
  BY DEF Sortable
<1>2. Priority(a) \in Int /\ Priority(b) \in Int /\ Priority(c) \in Int
  BY DEF Priority
<1> QED
  BY <1>1, <1>2 DEF Before

\* Rows that differ in the sort key can be sorted: an element's place is the
\* number of those before it.
LEMMA SortExists ==
  ASSUME NEW S, Sortable(S)
  PROVE  \E rows \in SetToSeqs(S) :
           \A i, j \in DOMAIN rows : i < j => ~Before(rows[j], rows[i])
<1> DEFINE Below(a) == {b \in S : Before(b, a)}
           n == Cardinality(S)
           rank == [a \in S |-> Cardinality(Below(a)) + 1]
<1>1. IsFiniteSet(S) /\ n \in Nat
  BY FS_CardinalityType DEF Sortable
<1>2. ASSUME NEW a \in S
      PROVE  IsFiniteSet(Below(a)) /\ Cardinality(Below(a)) \in Nat /\ Cardinality(Below(a)) < n
  <2>1. Below(a) \in SUBSET S /\ a \notin Below(a)
    BY BeforeOrder
  <2> HIDE DEF Below
  <2>2. /\ IsFiniteSet(Below(a)) /\ Cardinality(Below(a)) <= n
        /\ (n = Cardinality(Below(a)) => S = Below(a))
    BY <1>1, <2>1, FS_Subset
  <2>3. Cardinality(Below(a)) \in Nat
    BY <2>2, FS_CardinalityType
  <2> QED
    BY <1>1, <2>1, <2>2, <2>3
<1>3. ASSUME NEW a \in S, NEW b \in S, Before(a, b)
      PROVE  Cardinality(Below(a)) < Cardinality(Below(b))
  <2>1. Below(a) \in SUBSET Below(b) /\ a \in Below(b) /\ a \notin Below(a)
    BY <1>3, BeforeOrder
  <2>2. IsFiniteSet(Below(b)) /\ Cardinality(Below(a)) \in Nat /\ Cardinality(Below(b)) \in Nat
    BY <1>2
  <2> HIDE DEF Below
  <2>3. /\ Cardinality(Below(a)) <= Cardinality(Below(b))
        /\ (Cardinality(Below(b)) = Cardinality(Below(a)) => Below(b) = Below(a))
    BY <2>1, <2>2, FS_Subset
  <2> QED
    BY <2>1, <2>2, <2>3
<1>4. rank \in [S -> 1..n] /\ \A a \in S : rank[a] = Cardinality(Below(a)) + 1
  <2> HIDE DEF Below
  <2>1. \A a \in S : Cardinality(Below(a)) + 1 \in 1..n
    BY <1>1, <1>2
  <2> QED
    BY <2>1
<1>5. \A a, b \in S : Before(a, b) => rank[a] < rank[b]
  <2> HIDE DEF Below, rank
  <2> QED
    BY <1>2, <1>3, <1>4
<1> HIDE DEF Below, rank, n
<1>6. \A a, b \in S : a # b => rank[a] # rank[b]
  BY <1>1, <1>4, <1>5 DEF Sortable
<1>7. rank \in Surjection(S, 1..n)
  <2>1. rank \in Injection(S, 1..n)
    BY <1>4, <1>6 DEF Injection, IsInjective
  <2>2. IsFiniteSet(1..n) /\ Cardinality(1..n) = n
    BY <1>1, FS_Interval
  <2> QED
    BY <1>1, <2>1, <2>2, FS_Injection DEF n
<1> DEFINE rows == [i \in 1..n |-> CHOOSE a \in S : rank[a] = i]
<1>8. \A i \in 1..n : rows[i] \in S /\ rank[rows[i]] = i
  <2>1. \A i \in 1..n : \E a \in S : rank[a] = i
    BY <1>7 DEF Surjection
  <2> QED
    BY <2>1
<1>9. DOMAIN rows = 1..n /\ rows \in [1..n -> S]
  BY <1>8
<1> HIDE DEF rows
<1>10. rows \in SetToSeqs(S)
  BY <1>8, <1>9 DEF SetToSeqs, n
<1>11. \A i, j \in 1..n : i < j => ~Before(rows[j], rows[i])
  BY <1>1, <1>5, <1>8
<1> QED
  BY <1>9, <1>10, <1>11

\* What sorting gives: every row once, in order.
LEMMA RowsSorted ==
  ASSUME Sortable(RowSet)
  PROVE  /\ DOMAIN Rows = 1..Cardinality(RowSet) /\ Cardinality(RowSet) \in Nat
         /\ DOMAIN Rows \subseteq Int
         /\ \A i \in DOMAIN Rows : Rows[i] \in RowSet
         /\ \A r \in RowSet : \E i \in DOMAIN Rows : Rows[i] = r
         /\ \A i, j \in DOMAIN Rows : i < j => Before(Rows[i], Rows[j])
         /\ \A i, j \in DOMAIN Rows : Rows[i] = Rows[j] => i = j
<1> DEFINE n == Cardinality(RowSet)
<1>1. /\ Rows \in SetToSeqs(RowSet)
      /\ \A i, j \in DOMAIN Rows : i < j => ~Before(Rows[j], Rows[i])
  BY SortExists DEF Rows, Sorted, RowSet
<1>2. /\ Rows \in [1..n -> RowSet]
      /\ \A i, j \in 1..n : i # j => Rows[i] # Rows[j]
  BY <1>1 DEF SetToSeqs
<1>3. DOMAIN Rows = 1..n
  BY <1>2
<1>4. IsFiniteSet(RowSet) /\ n \in Nat
  BY FS_CardinalityType DEF Sortable
<1>5. Rows \in Surjection(1..n, RowSet)
  <2>1. Rows \in Injection(1..n, RowSet)
    BY <1>2 DEF Injection, IsInjective
  <2>2. IsFiniteSet(1..n) /\ Cardinality(1..n) = n
    BY <1>4, FS_Interval
  <2> QED
    BY <1>4, <2>1, <2>2, FS_Injection
<1>6. \A r \in RowSet : \E i \in 1..n : Rows[i] = r
  BY <1>5 DEF Surjection
<1>7. ASSUME NEW i \in 1..n, NEW j \in 1..n, i < j
      PROVE  Before(Rows[i], Rows[j])
  <2>1. Rows[i] \in RowSet /\ Rows[j] \in RowSet /\ Rows[i] # Rows[j]
    BY <1>2, <1>7
  <2> QED
    BY <1>1, <1>3, <1>7, <2>1 DEF Sortable
<1>8. DOMAIN Rows = 1..Cardinality(RowSet) /\ Cardinality(RowSet) \in Nat
  BY <1>3, <1>4
<1> HIDE DEF n
<1> QED
  BY <1>2, <1>3, <1>6, <1>7, <1>8

-----------------------------------------------------------------------------
(* The rows of a day that has been told completely.                        *)

\* The row of trade n, whose first fill is x, in hour h.
FirstRow(n, h, x) ==
  [kind |-> "trade", ts |-> trades[n].ts, side |-> trades[n].side, book |-> 0,
   order |-> x.place + h * HourStride]

\* Collapsing the group of any fill of a trade gives the row of the trade.
LEMMA GroupRow ==
  ASSUME TypeOK, ClockInv, owed = {}, NEW k, Numbers(k), FillsTellTrades(k),
         NEW n \in DOMAIN trades, NEW h \in Hours, NEW x \in Fills(h), IsFirst(k, n, h, x),
         NEW g \in Hours, NEW z \in Kept(g), z.fill.tid = k[n]
  PROVE  g = h /\ TradeRow(g, {y \in Kept(g) : SameTrade(z, y)}) = FirstRow(n, h, x)
<1> DEFINE group == {y \in Kept(g) : SameTrade(z, y)}
<1>1. \A m \in DOMAIN trades : k[m] \in Nat /\ k[m] # 0 /\ m \in Nat
  <2>1. \A m \in DOMAIN trades : k[m] \in 1..matches /\ m \in Nat
    BY TradeType DEF Numbers
  <2> QED
    BY <2>1
<1>2. ASSUME NEW f \in Hours, NEW y \in Fills(f), OfTrade(y.fill, k[n])
      PROVE  /\ y.fill.time = trades[n].ts
             /\ y.fill.crossed => y.fill.side = trades[n].side
  <2>1. y.fill \in Reported
    BY DEF Reported
  <2>2. PICK m \in DOMAIN trades :
             /\ y.fill.tid = k[m] /\ y.fill.time = trades[m].ts
             /\ y.fill.crossed => y.fill.side = trades[m].side
    BY <1>1, <1>2, <2>1 DEF FillsTellTrades, OfTrade
  <2>3. k[m] = k[n] /\ m \in Nat /\ n \in Nat
    BY <1>1, <1>2, <2>2 DEF OfTrade
  <2>4. m = n
    BY <1>1, <2>3 DEF Numbers
  <2> QED
    BY <2>2, <2>4
<1>3. ASSUME NEW f \in Hours, NEW y \in Fills(f), OfTrade(y.fill, k[n])
      PROVE  f = h
  <2>1. y.fill.time = trades[n].ts /\ x.fill.time = trades[n].ts
    BY <1>2, <1>3 DEF IsFirst
  <2>2. Within(f, trades[n].ts) /\ Within(h, trades[n].ts)
    BY <2>1 DEF ClockInv
  <2>3. f \in Int /\ h \in Int /\ trades[n].ts \in Int
    BY TradeType, BoundsAssumption DEF Hours
  <2> QED
    BY <2>2, <2>3, OneHour
<1>4. z \in Fills(g) /\ OfTrade(z.fill, k[n]) /\ OfTrade(x.fill, k[n])
  BY DEF Kept, OfTrade, IsFirst
<1>5. g = h
  BY <1>3, <1>4
<1>6. \A y : y \in group <=> y \in Fills(h) /\ OfTrade(y.fill, k[n])
  <2>1. ASSUME NEW y \in group PROVE y \in Fills(h) /\ OfTrade(y.fill, k[n])
    BY <1>5 DEF Kept, SameTrade, OfTrade
  <2>2. ASSUME NEW y \in Fills(h), OfTrade(y.fill, k[n]) PROVE y \in group
    <3>1. y.fill.time = z.fill.time
      BY <1>2, <1>4, <2>2
    <3> QED
      BY <1>1, <1>5, <2>2, <3>1 DEF Kept, SameTrade, OfTrade
  <2> QED
    BY <2>1, <2>2
<1>7. Crossed(group) # {} /\ Crossed(group) \subseteq group
      /\ \A y \in Crossed(group) : y.fill.crossed
  <2>1. PICK f \in Reported : OfTrade(f, k[n]) /\ f.crossed
    BY DEF FillsTellTrades
  <2>2. PICK e \in Hours : \E y \in Fills(e) : f = y.fill
    BY <2>1 DEF Reported
  <2>3. PICK y \in Fills(e) : f = y.fill
    BY <2>2
  <2>4. y \in Fills(h)
    BY <1>3, <2>1, <2>3
  <2>5. y \in group
    BY <1>6, <2>1, <2>3, <2>4
  <2> HIDE DEF group
  <2> QED
    BY <2>1, <2>3, <2>5 DEF Crossed
<1>8. Canonical(group) \in Crossed(group)
  <2> HIDE DEF group
  <2> QED
    BY <1>7 DEF Canonical
<1>9. Canonical(group).fill.time = trades[n].ts /\ Canonical(group).fill.side = trades[n].side
  <2> DEFINE c == Canonical(group)
  <2>1. c \in Fills(h) /\ OfTrade(c.fill, k[n]) /\ c.fill.crossed
    BY <1>6, <1>7, <1>8
  <2> HIDE DEF c
  <2>2. c.fill.time = trades[n].ts /\ c.fill.side = trades[n].side
    BY <1>2, <2>1
  <2> QED
    BY <2>2 DEF c
<1>10. Place(group) = x.place
  <2>1. x \in group /\ \A y \in group : x.place <= y.place
    BY <1>4, <1>6 DEF IsFirst
  <2>2. \A y \in group : y.place \in Nat
    BY <1>6, FillsType
  <2> HIDE DEF group
  <2>3. x.place \in {y.place : y \in group}
    BY <2>1
  <2>4. ASSUME NEW q \in {y.place : y \in group}, \A y \in group : q <= y.place
        PROVE  q = x.place
    <3>1. PICK y \in group : q = y.place
      OBVIOUS
    <3>2. q <= x.place /\ x.place <= q
      BY <2>1, <2>4, <3>1
    <3> QED
      BY <2>1, <2>2, <3>1, <3>2
  <2>5. Place(group) \in {y.place : y \in group} /\ \A y \in group : Place(group) <= y.place
    BY <2>1, <2>3 DEF Place
  <2> QED
    BY <2>4, <2>5
<1> HIDE DEF group
<1>11. TradeRow(g, group) = FirstRow(n, h, x)
  BY <1>5, <1>9, <1>10 DEF TradeRow, FirstRow
<1> QED
  BY <1>5, <1>11 DEF group

\* The rows of the day, one by one.
LEMMA RowPlace ==
  ASSUME NEW r
  PROVE  r \in RowSet <=> \/ \E h \in Hours : \E l \in DOMAIN books[h] : r = SnapshotRow(h, l)
                          \/ \E h \in Hours : \E g \in Groups(h) : r = TradeRow(h, g)
<1>1. \A h \in Hours : <<"l2", h>> \in Files /\ <<"fills", h>> \in Files
  BY DEF Files, Kinds
<1> DEFINE Shots(h) == {SnapshotRow(h, l) : l \in DOMAIN books[h]}
           Trades(h) == {TradeRow(h, g) : g \in Groups(h)}
<1>2. RowSet = UNION ({Shots(h) : h \in {h \in Hours : <<"l2", h>> \in Files}}
                        \cup {Trades(h) : h \in {h \in Hours : <<"fills", h>> \in Files}})
  BY DEF RowSet, RowsOf
<1> HIDE DEF Shots, Trades
<1>3. r \in RowSet <=> (\E h \in Hours : r \in Shots(h)) \/ (\E h \in Hours : r \in Trades(h))
  BY <1>1, <1>2
<1> QED
  BY <1>3 DEF Shots, Trades

\* The rows are those of the trades, in their order, and of the snapshots.
TellsRows(R) ==
  /\ R \in [DOMAIN trades -> RowSet]
  /\ \A n \in DOMAIN trades :
       /\ R[n].kind = "trade" /\ R[n].ts = trades[n].ts /\ R[n].side = trades[n].side
       /\ R[n].order \in Int
  /\ \A m, n \in DOMAIN trades : m < n => Before(R[m], R[n])
  /\ \A r \in RowSet :
       \/ \E n \in DOMAIN trades : r = R[n]
       \/ \E h \in Hours : \E l \in DOMAIN books[h] : r = SnapshotRow(h, l)

LEMMA DayRows ==
  ASSUME TypeOK, ExchangeInv, owed = {}
  PROVE  \E R : TellsRows(R)
<1>1. PICK k \in [DOMAIN trades -> 1..matches] :
        Numbers(k) /\ FillsTellTrades(k) /\ TradesInOrder(k)
  BY DEF ExchangeInv, TradesInv
<1> DEFINE H(n) == CHOOSE h \in Hours : \E x \in Fills(h) : IsFirst(k, n, h, x)
           X(n) == CHOOSE x \in Fills(H(n)) : IsFirst(k, n, H(n), x)
           R == [n \in DOMAIN trades |-> FirstRow(n, H(n), X(n))]
<1>2. ASSUME NEW n \in DOMAIN trades
      PROVE  H(n) \in Hours /\ X(n) \in Fills(H(n)) /\ IsFirst(k, n, H(n), X(n))
  <2>1. \E h \in Hours : \E x \in Fills(h) : IsFirst(k, n, h, x)
    BY <1>1 DEF TradesInOrder
  <2>2. H(n) \in Hours /\ \E x \in Fills(H(n)) : IsFirst(k, n, H(n), x)
    BY <2>1
  <2> QED
    BY <2>2
<1>3. ClockInv
  BY DEF ExchangeInv
<1>4. ASSUME NEW n \in DOMAIN trades, NEW g \in Hours, NEW z \in Kept(g), z.fill.tid = k[n]
      PROVE  TradeRow(g, {y \in Kept(g) : SameTrade(z, y)}) = R[n]
  <2> HIDE DEF H, X
  <2> QED
    BY <1>1, <1>2, <1>3, <1>4, GroupRow
<1>5. ASSUME NEW n \in DOMAIN trades
      PROVE  R[n] \in RowSet
  <2> HIDE DEF H, X, R
  <2>1. k[n] # 0
    BY <1>1
  <2>2. X(n) \in Kept(H(n)) /\ X(n).fill.tid = k[n]
    BY <1>2, <2>1 DEF IsFirst, OfTrade, Kept
  <2>3. R[n] = TradeRow(H(n), {y \in Kept(H(n)) : SameTrade(X(n), y)})
    BY <1>2, <1>4, <2>2
  <2>4. {y \in Kept(H(n)) : SameTrade(X(n), y)} \in Groups(H(n))
    BY <2>2 DEF Groups
  <2> QED
    BY <1>2, <2>3, <2>4, RowPlace
<1>6. ASSUME NEW n \in DOMAIN trades
      PROVE  /\ R[n].kind = "trade" /\ R[n].ts = trades[n].ts /\ R[n].side = trades[n].side
             /\ R[n].order = X(n).place + H(n) * HourStride
             /\ R[n].order \in Int /\ X(n).place \in Nat /\ H(n) \in Nat
             /\ Within(H(n), trades[n].ts)
  <2>1. R[n] = FirstRow(n, H(n), X(n))
    OBVIOUS
  <2> HIDE DEF H, X, R
  <2>2. X(n).place \in Nat /\ H(n) \in Nat
    BY <1>2, FillsType, BoundsAssumption DEF Hours
  <2>3. X(n).place + H(n) * HourStride \in Int
    BY <2>2, BoundsAssumption
  <2>4. PICK m \in DOMAIN trades : X(n).fill.tid = k[m] /\ X(n).fill.time = trades[m].ts
    <3>1. X(n).fill \in Reported
      BY <1>2 DEF Reported
    <3>2. X(n).fill.coin = "this" /\ X(n).fill.tid # 0
      BY <1>1, <1>2 DEF IsFirst, OfTrade
    <3> QED
      BY <1>1, <3>1, <3>2 DEF FillsTellTrades
  <2>5. m = n
    <3>1. k[m] = k[n] /\ k[m] \in Int
      BY <1>1, <1>2, <2>4 DEF IsFirst, OfTrade
    <3>2. m \in Nat /\ n \in Nat
      BY TradeType
    <3> QED
      BY <1>1, <3>1, <3>2 DEF Numbers
  <2>6. Within(H(n), trades[n].ts)
    BY <1>2, <1>3, <2>4, <2>5 DEF ClockInv
  <2> QED
    BY <2>1, <2>2, <2>3, <2>6 DEF FirstRow
<1>7. ASSUME NEW m \in DOMAIN trades, NEW n \in DOMAIN trades, m < n
      PROVE  Before(R[m], R[n])
  <2> HIDE DEF H, X, R
  <2>1. trades[m].ts <= trades[n].ts /\ trades[m].ts \in Nat /\ trades[n].ts \in Nat
    BY <1>3, <1>7, TradeType DEF ClockInv
  <2>2. ASSUME trades[m].ts = trades[n].ts PROVE R[m].order < R[n].order
    <3>1. H(m) = H(n)
      BY <1>6, <2>1, <2>2, OneHour
    <3>2. X(m).place < X(n).place
      BY <1>2, <1>7, <3>1 DEF IsFirst
    <3>3. H(n) * HourStride \in Int
      BY <1>6, BoundsAssumption
    <3> QED
      BY <1>6, <3>1, <3>2, <3>3
  <2>3. Priority(R[m]) = Priority(R[n])
    BY <1>6 DEF Priority
  <2> QED
    BY <1>6, <2>1, <2>2, <2>3 DEF Before
<1>8. ASSUME NEW r \in RowSet
      PROVE  \/ \E n \in DOMAIN trades : r = R[n]
             \/ \E h \in Hours : \E l \in DOMAIN books[h] : r = SnapshotRow(h, l)
  <2> HIDE DEF H, X, R
  <2>1. ASSUME NEW h \in Hours, NEW g \in Groups(h), r = TradeRow(h, g)
        PROVE  \E n \in DOMAIN trades : r = R[n]
    <3>1. PICK z \in Kept(h) : g = {y \in Kept(h) : SameTrade(z, y)}
      BY DEF Groups
    <3>2. z.fill \in Reported /\ z.fill.coin = "this" /\ z.fill.tid # 0
      BY DEF Kept, Reported
    <3>3. PICK n \in DOMAIN trades : z.fill.tid = k[n]
      BY <1>1, <3>2 DEF FillsTellTrades
    <3> QED
      BY <1>4, <2>1, <3>1, <3>3
  <2> QED
    BY <2>1, RowPlace
<1>9. R \in [DOMAIN trades -> RowSet]
  BY <1>5
<1> HIDE DEF R
<1> QED
  BY <1>6, <1>7, <1>8, <1>9 DEF TellsRows

\* A snapshot's row tells its place.
LEMMA SnapshotRows ==
  ASSUME TypeOK, ClockInv,
         NEW g \in Hours, NEW h \in Hours, NEW i \in DOMAIN books[g], NEW l \in DOMAIN books[h]
  PROVE  /\ SnapshotRow(h, l) \in RowSet
         /\ SnapshotRow(h, l).ts = books[h][l].time /\ SnapshotRow(h, l).kind = "l2_snapshot"
         /\ SnapshotRow(h, l).book = books[h][l].book
         /\ SnapshotRow(h, l).ts \in Int /\ SnapshotRow(h, l).order \in Int
         /\ SnapshotRow(g, i).ts = SnapshotRow(h, l).ts => g = h
         /\ SnapshotRow(g, i) = SnapshotRow(h, l) => <<g, i>> = <<h, l>>
         /\ \/ Before(SnapshotRow(g, i), SnapshotRow(h, l))
            \/ Before(SnapshotRow(h, l), SnapshotRow(g, i))
            \/ <<g, i>> = <<h, l>>
<1>1. /\ i \in 1..Len(books[g]) /\ l \in 1..Len(books[h])
      /\ books[g][i].time \in Nat /\ books[h][l].time \in Nat
  <2>1. DOMAIN books[g] = 1..Len(books[g]) /\ DOMAIN books[h] = 1..Len(books[h])
    BY LenProperties DEF TypeOK
  <2> QED
    BY <2>1, BookType
<1>2. g \in Nat /\ h \in Nat /\ i \in Nat /\ l \in Nat /\ HourStride \in Nat
  <2>1. HourCount \in Nat /\ HourStride \in Nat
    BY BoundsAssumption
  <2>2. g \in Nat /\ h \in Nat
    BY <2>1 DEF Hours
  <2>3. i \in Nat /\ l \in Nat
    BY <1>1
  <2> QED
    BY <2>1, <2>2, <2>3
<1>3. h * HourStride \in Int /\ g * HourStride \in Int
  BY <1>2
<1>4. /\ SnapshotRow(h, l).ts = books[h][l].time /\ SnapshotRow(h, l).kind = "l2_snapshot"
      /\ SnapshotRow(h, l).book = books[h][l].book
      /\ SnapshotRow(h, l).order = l + h * HourStride
      /\ SnapshotRow(g, i).ts = books[g][i].time /\ SnapshotRow(g, i).kind = "l2_snapshot"
      /\ SnapshotRow(g, i).order = i + g * HourStride
  BY DEF SnapshotRow
<1>5. books[g][i].time = books[h][l].time => g = h
  <2>1. Within(g, books[g][i].time) /\ Within(h, books[h][l].time)
    BY <1>1 DEF ClockInv
  <2> QED
    BY <1>1, <1>2, <2>1, OneHour
<1>6. SnapshotRow(h, l) \in RowSet
  <2> HIDE DEF SnapshotRow
  <2> QED
    BY RowPlace
<1>7. g = h /\ i < l => SnapshotRow(g, i).order < SnapshotRow(h, l).order
  BY <1>2, <1>3, <1>4
<1>8. g = h /\ l < i => SnapshotRow(h, l).order < SnapshotRow(g, i).order
  BY <1>2, <1>3, <1>4
<1>9. SnapshotRow(g, i) = SnapshotRow(h, l) => <<g, i>> = <<h, l>>
  <2> SUFFICES ASSUME SnapshotRow(g, i) = SnapshotRow(h, l) PROVE g = h /\ i = l
    OBVIOUS
  <2>1. g = h
    BY <1>4, <1>5
  <2> QED
    BY <1>2, <1>3, <1>4, <2>1
<1>10. \/ Before(SnapshotRow(g, i), SnapshotRow(h, l))
       \/ Before(SnapshotRow(h, l), SnapshotRow(g, i))
       \/ <<g, i>> = <<h, l>>
  <2>1. Priority(SnapshotRow(g, i)) = Priority(SnapshotRow(h, l))
    BY <1>4 DEF Priority
  <2>2. CASE books[g][i].time = books[h][l].time
    <3>1. g = h /\ (i < l \/ l < i \/ i = l)
      BY <1>2, <1>5, <2>2
    <3> QED
      BY <1>4, <1>7, <1>8, <2>1, <2>2, <3>1 DEF Before
  <2>3. CASE books[g][i].time # books[h][l].time
    BY <1>1, <1>4, <2>3 DEF Before
  <2> QED
    BY <2>2, <2>3
<1>11. SnapshotRow(h, l).order \in Int
  BY <1>2, <1>3, <1>4
<1> QED
  BY <1>1, <1>4, <1>5, <1>6, <1>9, <1>10, <1>11

\* The rows of such a day can be sorted.
LEMMA DaySortable ==
  ASSUME TypeOK, ExchangeInv, owed = {}
  PROVE  Sortable(RowSet)
<1>1. PICK R : TellsRows(R)
  BY DayRows
<1>2. ClockInv
  BY DEF ExchangeInv
<1> DEFINE Tells(r) ==
             /\ r.ts \in Int /\ r.order \in Int
             /\ \/ r.kind = "trade" /\ \E n \in DOMAIN trades : r = R[n]
                \/ /\ r.kind = "l2_snapshot"
                   /\ \E h \in Hours : \E l \in DOMAIN books[h] : r = SnapshotRow(h, l)
<1>3. ASSUME NEW r \in RowSet PROVE Tells(r)
  <2>1. ASSUME NEW n \in DOMAIN trades, r = R[n] PROVE Tells(r)
    BY <1>1, <2>1, TradeType DEF TellsRows
  <2>2. ASSUME NEW h \in Hours, NEW l \in DOMAIN books[h], r = SnapshotRow(h, l) PROVE Tells(r)
    BY <1>2, <2>2, SnapshotRows
  <2> QED
    BY <1>1, <2>1, <2>2 DEF TellsRows
<1>4. ASSUME NEW a \in RowSet, NEW b \in RowSet, a # b
      PROVE  Before(a, b) \/ Before(b, a)
  <2>1. CASE a.kind = "trade" /\ b.kind = "trade"
    <3>1. PICK m \in DOMAIN trades : a = R[m]
      BY <1>3, <2>1
    <3>2. PICK n \in DOMAIN trades : b = R[n]
      BY <1>3, <2>1
    <3>3. m < n \/ n < m
      BY <1>4, <3>1, <3>2, TradeType
    <3> QED
      BY <1>1, <3>1, <3>2, <3>3 DEF TellsRows
  <2>2. CASE a.kind # "trade" /\ b.kind # "trade"
    <3>g. PICK g \in Hours : \E i \in DOMAIN books[g] : a = SnapshotRow(g, i)
      BY <1>3, <2>2
    <3>1. PICK i \in DOMAIN books[g] : a = SnapshotRow(g, i)
      BY <3>g
    <3>h. PICK h \in Hours : \E l \in DOMAIN books[h] : b = SnapshotRow(h, l)
      BY <1>3, <2>2
    <3>2. PICK l \in DOMAIN books[h] : b = SnapshotRow(h, l)
      BY <3>h
    <3>3. <<g, i>> # <<h, l>>
      BY <1>4, <3>1, <3>2
    <3> QED
      BY <1>2, <3>1, <3>2, <3>3, SnapshotRows
  <2>3. CASE ~(a.kind = "trade" <=> b.kind = "trade")
    <3>1. Priority(a) < Priority(b) \/ Priority(b) < Priority(a)
      BY <2>3 DEF Priority
    <3> QED
      BY <1>3, <3>1 DEF Before
  <2> QED
    BY <2>1, <2>2, <2>3
<1>5. IsFiniteSet(RowSet)
  <2> DEFINE shots == [s \in Snapshots |-> SnapshotRow(s[1], s[2])]
             Trades == {R[n] : n \in DOMAIN trades}
             Shots == {shots[s] : s \in Snapshots}
  <2>1. IsFiniteSet(Trades)
    <3>1. DOMAIN trades = 1..Len(trades) /\ Len(trades) \in Nat
      BY LenProperties DEF TypeOK
    <3>2. IsFiniteSet(DOMAIN trades)
      BY <3>1, FS_Interval
    <3>3. R \in [DOMAIN trades -> RowSet]
      BY <1>1 DEF TellsRows
    <3> QED
      BY <3>2, <3>3, FiniteImage
  <2>2. IsFiniteSet(Shots)
    <3> DEFINE T == {SnapshotRow(s[1], s[2]) : s \in Snapshots}
    <3>1. shots \in [Snapshots -> T]
      OBVIOUS
    <3>2. IsFiniteSet(Snapshots)
      BY SnapshotsFinite
    <3> HIDE DEF shots, T
    <3> QED
      BY <3>1, <3>2, FiniteImage
  <2>3. RowSet \subseteq Trades \cup Shots
    <3>1. ASSUME NEW h \in Hours, NEW l \in DOMAIN books[h]
          PROVE  SnapshotRow(h, l) \in Shots
      <4>1. <<h, l>> \in Snapshots
        BY DEF Snapshots
      <4> QED
        BY <4>1
    <3> HIDE DEF Shots
    <3> QED
      BY <1>1, <3>1 DEF TellsRows
  <2> HIDE DEF Shots, Trades
  <2>4. IsFiniteSet(Trades \cup Shots)
    BY <2>1, <2>2, FS_Union
  <2> QED
    BY <2>3, <2>4, FS_Subset
<1> QED
  BY <1>3, <1>4, <1>5 DEF Sortable

-----------------------------------------------------------------------------
(* Theorems about the shard.                                               *)

LEMMA RowsOfTheDay ==
  ASSUME IInv, data.found
  PROVE  /\ TypeOK /\ ClockInv /\ ShotsInv /\ data.rows = Rows /\ Sortable(RowSet)
         /\ \E R : TellsRows(R)
<1>1. TypeOK /\ ClockInv /\ ShotsInv /\ ExchangeInv /\ BuildInv
  BY DEF IInv, ExchangeInv
<1>2. owed = {}
  BY <1>1 DEF ClockInv, BuildInv
<1>3. data.rows = Rows
  <2>1. data = [found |-> TRUE, rows |-> Rows]
    BY <1>1 DEF BuildInv
  <2> QED
    BY <2>1
<1> QED
  BY <1>1, <1>2, <1>3, DayRows, DaySortable

\* The trade rows of the day are its trades, one each, in their order.
LEMMA TellsTrades ==
  ASSUME TypeOK, Sortable(RowSet), NEW R, TellsRows(R)
  PROVE  TradesTold(Rows)
<1> DEFINE told == {i \in DOMAIN Rows : IsTrade(Rows[i])}
           at == [n \in DOMAIN trades |-> CHOOSE i \in DOMAIN Rows : Rows[i] = R[n]]
<1>1. \A n \in DOMAIN trades : at[n] \in DOMAIN Rows /\ Rows[at[n]] = R[n]
  <2>1. \A n \in DOMAIN trades : \E i \in DOMAIN Rows : Rows[i] = R[n]
    BY RowsSorted DEF TellsRows
  <2> QED
    BY <2>1
<1>2. at \in [DOMAIN trades -> told]
  <2>1. \A n \in DOMAIN trades : at[n] \in told
    BY <1>1 DEF TellsRows, IsTrade
  <2> QED
    BY <2>1
<1> HIDE DEF at
<1>3. \A n \in DOMAIN trades : Rows[at[n]].ts = trades[n].ts /\ Rows[at[n]].side = trades[n].side
  BY <1>1 DEF TellsRows
<1>4. ASSUME NEW m \in DOMAIN trades, NEW n \in DOMAIN trades, m < n
      PROVE  at[m] < at[n]
  <2>1. at[m] \in Int /\ at[n] \in Int
    BY <1>1, RowsSorted
  <2>2. /\ Before(R[m], R[n]) /\ ~Before(R[m], R[m])
        /\ R[m] \in RowSet /\ R[n] \in RowSet
    BY <1>4, BeforeOrder DEF TellsRows
  <2>3. ~Before(R[n], R[m])
    BY <2>2, BeforeOrder
  <2>4. at[n] < at[m] => Before(R[n], R[m])
    BY <1>1, RowsSorted
  <2>5. at[m] # at[n]
    BY <1>1, <2>2
  <2> QED
    BY <2>1, <2>3, <2>4, <2>5
<1>5. ASSUME NEW i \in told PROVE \E n \in DOMAIN trades : at[n] = i
  <2>1. Rows[i] \in RowSet /\ Rows[i].kind = "trade" /\ i \in DOMAIN Rows
    BY RowsSorted DEF IsTrade
  <2>2. \A h \in Hours : \A l \in DOMAIN books[h] : SnapshotRow(h, l).kind = "l2_snapshot"
    BY DEF SnapshotRow
  <2>3. PICK n \in DOMAIN trades : Rows[i] = R[n]
    BY <2>1, <2>2 DEF TellsRows
  <2>4. at[n] = i
    BY <1>1, <2>1, <2>3, RowsSorted
  <2> QED
    BY <2>4
<1> QED
  BY <1>2, <1>3, <1>4, <1>5 DEF TradesTold

\* Its other rows are the snapshots, one each.
LEMMA TellsSnapshots ==
  ASSUME TypeOK, ClockInv, Sortable(RowSet), NEW R, TellsRows(R)
  PROVE  SnapshotsTold(Rows)
<1> DEFINE told == {i \in DOMAIN Rows : IsSnapshot(Rows[i])}
           Shot(s) == SnapshotRow(s[1], s[2])
           at == [s \in Snapshots |-> CHOOSE i \in DOMAIN Rows : Rows[i] = Shot(s)]
<1>1. ASSUME NEW s \in Snapshots
      PROVE  s[1] \in Hours /\ s[2] \in DOMAIN books[s[1]] /\ s = <<s[1], s[2]>>
  BY DEF Snapshots
<1>2. ASSUME NEW s \in Snapshots
      PROVE  /\ Shot(s) \in RowSet /\ Shot(s).kind = "l2_snapshot"
             /\ Shot(s).ts = books[s[1]][s[2]].time /\ Shot(s).book = books[s[1]][s[2]].book
  BY <1>1, SnapshotRows
<1>3. ASSUME NEW r \in Snapshots, NEW s \in Snapshots, Shot(r) = Shot(s)
      PROVE  r = s
  <2>1. <<r[1], r[2]>> = <<s[1], s[2]>>
    BY <1>1, <1>3, SnapshotRows
  <2> QED
    BY <1>1, <2>1
<1>4. ASSUME NEW r \in RowSet, r.kind = "l2_snapshot"
      PROVE  \E s \in Snapshots : r = Shot(s)
  <2>1. ASSUME NEW n \in DOMAIN trades, r = R[n] PROVE FALSE
    BY <1>4, <2>1 DEF TellsRows
  <2>2. PICK h \in Hours : \E l \in DOMAIN books[h] : r = SnapshotRow(h, l)
    BY <2>1 DEF TellsRows
  <2>3. PICK l \in DOMAIN books[h] : r = SnapshotRow(h, l)
    BY <2>2
  <2>4. <<h, l>> \in Snapshots
    BY DEF Snapshots
  <2>5. r = Shot(<<h, l>>)
    BY <2>3
  <2> QED
    BY <2>4, <2>5
<1> HIDE DEF Shot
<1>5. \A s \in Snapshots : at[s] \in DOMAIN Rows /\ Rows[at[s]] = Shot(s)
  <2>1. \A s \in Snapshots : \E i \in DOMAIN Rows : Rows[i] = Shot(s)
    BY <1>2, RowsSorted
  <2> QED
    BY <2>1
<1>6. at \in [Snapshots -> told]
  <2>1. \A s \in Snapshots : at[s] \in told
    BY <1>2, <1>5 DEF IsSnapshot
  <2> QED
    BY <2>1
<1> HIDE DEF at
<1>7. \A s \in Snapshots : LET line == books[s[1]][s[2]] IN
        Rows[at[s]].ts = line.time /\ Rows[at[s]].book = line.book
  BY <1>2, <1>5
<1>8. \A r, s \in Snapshots : at[r] = at[s] => r = s
  BY <1>3, <1>5
<1>9. ASSUME NEW i \in told PROVE \E s \in Snapshots : at[s] = i
  <2>1. Rows[i] \in RowSet /\ Rows[i].kind = "l2_snapshot" /\ i \in DOMAIN Rows
    BY RowsSorted DEF IsSnapshot
  <2>2. PICK s \in Snapshots : Rows[i] = Shot(s)
    BY <1>4, <2>1
  <2>3. at[s] = i
    BY <1>5, <2>1, <2>2, RowsSorted
  <2> QED
    BY <2>3
<1> QED
  BY <1>6, <1>7, <1>8, <1>9 DEF SnapshotsTold

\* A shard in the catalog tells what happened at the exchange (build_hl_slice,
\* collapse_fill_trades): whatever was lost or fetched in which order, however
\* often a build died or was forced, and though places overlap across hours.
THEOREM CatalogTellsTheDay == Spec => []ShardTellsTheDay
<1>1. ASSUME IInv PROVE ShardTellsTheDay
  <2> SUFFICES ASSUME record.found
               PROVE  /\ data.found /\ record.count = Len(data.rows)
                      /\ TradesTold(data.rows) /\ SnapshotsTold(data.rows)
    BY DEF ShardTellsTheDay
  <2>1. data.found /\ record.count = Len(Rows)
    BY <1>1 DEF IInv, BuildInv
  <2>2. TypeOK /\ ClockInv /\ data.rows = Rows /\ Sortable(RowSet)
    BY <1>1, <2>1, RowsOfTheDay
  <2>3. PICK R : TellsRows(R)
    BY <1>1, <2>1, RowsOfTheDay
  <2>4. TradesTold(Rows) /\ SnapshotsTold(Rows)
    BY <2>2, <2>3, TellsTrades, TellsSnapshots
  <2> QED
    BY <2>1, <2>2, <2>4
<1> QED
  BY <1>1, Invariance, PTL

\* Rows of snapshots are sorted as the snapshots were taken.
LEMMA SnapshotOrder ==
  ASSUME TypeOK, ClockInv, ShotsInv,
         NEW g \in Hours, NEW h \in Hours, NEW i \in DOMAIN books[g], NEW l \in DOMAIN books[h]
  PROVE  Before(SnapshotRow(g, i), SnapshotRow(h, l)) <=> books[g][i].book < books[h][l].book
<1> DEFINE a == SnapshotRow(g, i)
           b == SnapshotRow(h, l)
<1>1. i \in 1..Len(books[g]) /\ l \in 1..Len(books[h])
  BY LenProperties DEF TypeOK
<1>2. /\ a.ts = books[g][i].time /\ b.ts = books[h][l].time
      /\ books[g][i].time \in Nat /\ books[g][i].book \in Nat
      /\ books[h][l].time \in Nat /\ books[h][l].book \in Nat
  BY <1>1, BookType, SnapshotRows
<1>3. /\ a.order = i + g * HourStride /\ b.order = l + h * HourStride
      /\ a.order \in Int /\ b.order \in Int
  BY SnapshotRows DEF SnapshotRow
<1>4. Priority(a) = 1 /\ Priority(b) = 1
  BY SnapshotRows DEF Priority
<1>5. a.ts = b.ts => g = h
  BY SnapshotRows
<1>6. g \in Nat /\ h \in Nat /\ i \in Nat /\ l \in Nat /\ HourStride \in Nat
  <2>1. g \in Nat /\ h \in Nat /\ HourStride \in Nat
    BY BoundsAssumption DEF Hours
  <2> QED
    BY <1>1, <2>1
<1> HIDE DEF a, b
<1>7. g * HourStride \in Int /\ h * HourStride \in Int
  BY <1>6
<1>8. CASE Earlier(g, i, h, l)
  <2>1. books[g][i].time <= books[h][l].time /\ books[g][i].book < books[h][l].book
    BY <1>1, <1>8 DEF ShotsInv
  <2>2. a.ts = b.ts => a.order < b.order
    BY <1>3, <1>5, <1>6, <1>7, <1>8 DEF Earlier
  <2>3. Before(a, b)
    BY <1>2, <1>4, <2>1, <2>2 DEF Before
  <2> QED
    BY <2>1, <2>3 DEF a, b
<1>9. CASE Earlier(h, l, g, i)
  <2>1. books[h][l].time <= books[g][i].time /\ books[h][l].book < books[g][i].book
    BY <1>1, <1>9 DEF ShotsInv
  <2>2. a.ts = b.ts => b.order < a.order
    BY <1>3, <1>5, <1>6, <1>7, <1>9 DEF Earlier
  <2>3. ~Before(a, b)
    BY <1>2, <1>3, <1>4, <2>1, <2>2 DEF Before
  <2> QED
    BY <1>2, <2>1, <2>3 DEF a, b
<1>10. CASE g = h /\ i = l
  <2>1. a = b
    BY <1>10 DEF a, b
  <2>2. ~Before(a, b)
    BY <1>2, <1>3, <1>4, <2>1 DEF Before
  <2> QED
    BY <1>2, <1>10, <2>2 DEF a, b
<1> QED
  BY <1>6, <1>8, <1>9, <1>10 DEF Earlier

\* Of two rows of the day, the first in the order of the sort stands first.
LEMMA PlaceOfRow ==
  ASSUME Sortable(RowSet), NEW i \in DOMAIN Rows, NEW j \in DOMAIN Rows
  PROVE  j < i <=> Before(Rows[j], Rows[i])
<1>1. i \in Int /\ j \in Int /\ Rows[i] \in RowSet /\ Rows[j] \in RowSet
  BY RowsSorted
<1>2. j < i => Before(Rows[j], Rows[i])
  BY RowsSorted
<1>3. i < j => Before(Rows[i], Rows[j])
  BY RowsSorted
<1>4. ~Before(Rows[i], Rows[i]) /\ (Before(Rows[i], Rows[j]) => ~Before(Rows[j], Rows[i]))
  BY <1>1, BeforeOrder
<1> QED
  BY <1>1, <1>2, <1>3, <1>4

\* As many trades stand before a snapshot as had been made.
LEMMA TradesCounted ==
  ASSUME TypeOK, Sortable(RowSet), TradesTold(Rows), NEW i \in DOMAIN Rows, IsSnapshot(Rows[i])
  PROVE  Cardinality({j \in 1..(i - 1) : IsTrade(Rows[j])}) = Cardinality(TradesBy(Rows[i].ts))
<1> DEFINE told == {j \in DOMAIN Rows : IsTrade(Rows[j])}
           S == TradesBy(Rows[i].ts)
           T == {j \in 1..(i - 1) : IsTrade(Rows[j])}
<1>1. PICK at \in [DOMAIN trades -> told] :
        /\ \A n \in DOMAIN trades : Rows[at[n]].ts = trades[n].ts
        /\ \A m, n \in DOMAIN trades : m < n => at[m] < at[n]
        /\ \A j \in told : \E n \in DOMAIN trades : at[n] = j
  BY DEF TradesTold
<1>2. /\ DOMAIN Rows = 1..Cardinality(RowSet) /\ Cardinality(RowSet) \in Nat
      /\ \A j \in DOMAIN Rows : Rows[j] \in RowSet
  BY RowsSorted
<1>3. ASSUME NEW j \in told PROVE j < i <=> Rows[j].ts <= Rows[i].ts
  <2>1. Priority(Rows[j]) = 0 /\ Priority(Rows[i]) = 1
    BY <1>3 DEF IsTrade, IsSnapshot, Priority
  <2>2. Rows[j].ts \in Int /\ Rows[i].ts \in Int
    BY <1>2, <1>3 DEF Sortable
  <2>3. Before(Rows[j], Rows[i]) <=> Rows[j].ts <= Rows[i].ts
    BY <2>1, <2>2 DEF Before
  <2> QED
    BY <1>3, <2>3, PlaceOfRow
<1>4. \A j : j \in T <=> j \in told /\ j < i
  BY <1>2
<1>5. S \subseteq DOMAIN trades /\ \A n \in DOMAIN trades : n \in S <=> trades[n].ts <= Rows[i].ts
  BY DEF TradesBy
<1> DEFINE f == [n \in S |-> at[n]]
<1> HIDE DEF S, T, told
<1>6. \A n \in DOMAIN trades : n \in S <=> at[n] \in T
  BY <1>1, <1>3, <1>4, <1>5
<1>7. f \in [S -> T] /\ \A n \in S : f[n] = at[n]
  BY <1>5, <1>6
<1> HIDE DEF f
<1>8. ASSUME NEW m \in S, NEW n \in S, f[m] = f[n] PROVE m = n
  <2>1. m \in Nat /\ n \in Nat
    BY <1>5, TradeType
  <2>2. at[m] \in Int /\ at[m] = at[n]
    BY <1>1, <1>2, <1>5, <1>7, <1>8 DEF told
  <2> QED
    BY <1>1, <1>5, <2>1, <2>2
<1>9. \A j \in T : \E n \in S : f[n] = j
  BY <1>1, <1>4, <1>6, <1>7
<1>10. f \in Bijection(S, T)
  BY <1>7, <1>8, <1>9 DEF Bijection, Injection, IsInjective, Surjection
<1>11. IsFiniteSet(S)
  <2>1. IsFiniteSet(DOMAIN trades)
    <3>1. DOMAIN trades = 1..Len(trades) /\ Len(trades) \in Nat
      BY LenProperties DEF TypeOK
    <3> QED
      BY <3>1, FS_Interval
  <2> QED
    BY <1>5, <2>1, FS_Subset
<1>12. ExistsBijection(S, T)
  BY <1>10 DEF ExistsBijection
<1>13. Cardinality(T) = Cardinality(S)
  BY <1>11, <1>12, FS_Bijection
<1> QED
  BY <1>13 DEF S, T

\* A reader of a shard in the catalog is in step with the exchange at each
\* snapshot, whatever the places of an hour reach into (_translate_hl_payloads):
\* it has read the trades of the time up to it, and the snapshots before it.
THEOREM SnapshotsInStep == Spec => []BooksInStep
<1>1. ASSUME IInv PROVE BooksInStep
  <2> SUFFICES ASSUME record.found, NEW i \in DOMAIN data.rows, IsSnapshot(data.rows[i])
               PROVE  /\ Cardinality(TradesRead(i)) = Cardinality(TradesBy(data.rows[i].ts))
                      /\ \A j \in DOMAIN data.rows : IsSnapshot(data.rows[j]) =>
                           (j < i <=> data.rows[j].book < data.rows[i].book)
    BY DEF BooksInStep
  <2>1. data.found
    BY <1>1 DEF IInv, BuildInv
  <2>2. TypeOK /\ ClockInv /\ ShotsInv /\ data.rows = Rows /\ Sortable(RowSet)
    BY <1>1, <2>1, RowsOfTheDay
  <2>3. PICK R : TellsRows(R)
    BY <1>1, <2>1, RowsOfTheDay
  <2>4. TradesTold(Rows)
    BY <2>2, <2>3, TellsTrades
  <2>5. Cardinality(TradesRead(i)) = Cardinality(TradesBy(data.rows[i].ts))
    BY <2>2, <2>4, TradesCounted DEF TradesRead
  <2>6. ASSUME NEW j \in DOMAIN Rows, IsSnapshot(Rows[j])
        PROVE  \E h \in Hours : \E l \in DOMAIN books[h] : Rows[j] = SnapshotRow(h, l)
    <3>1. Rows[j] \in RowSet /\ Rows[j].kind = "l2_snapshot"
      BY <2>2, <2>6, RowsSorted DEF IsSnapshot
    <3> QED
      BY <2>3, <3>1 DEF TellsRows
  <2>7. ASSUME NEW j \in DOMAIN Rows, IsSnapshot(Rows[j])
        PROVE  j < i <=> Rows[j].book < Rows[i].book
    <3>g. PICK g \in Hours : \E l \in DOMAIN books[g] : Rows[j] = SnapshotRow(g, l)
      BY <2>6, <2>7
    <3>1. PICK m \in DOMAIN books[g] : Rows[j] = SnapshotRow(g, m)
      BY <3>g
    <3>h. PICK h \in Hours : \E l \in DOMAIN books[h] : Rows[i] = SnapshotRow(h, l)
      BY <2>2, <2>6
    <3>2. PICK l \in DOMAIN books[h] : Rows[i] = SnapshotRow(h, l)
      BY <3>h
    <3>3. Rows[j].book = books[g][m].book /\ Rows[i].book = books[h][l].book
      BY <2>2, <3>1, <3>2, SnapshotRows
    <3>4. Before(Rows[j], Rows[i]) <=> books[g][m].book < books[h][l].book
      BY <2>2, <3>1, <3>2, SnapshotOrder
    <3> QED
      BY <2>2, <2>7, <3>3, <3>4, PlaceOfRow
  <2> QED
    BY <2>2, <2>5, <2>7
<1> QED
  BY <1>1, Invariance, PTL

=============================================================================
