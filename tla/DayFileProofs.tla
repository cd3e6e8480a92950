--------------------------- MODULE DayFileProofs ----------------------------
(***************************************************************************)
(* Theorems about the day file: how DayMerge writes it and how             *)
(* GoldenCompare reads it.  For every number of hours, whatever sorted     *)
(* files they translate to and whatever the sizes of batches and blocks,   *)
(* the merge implements the order of the day.  For every slice and capture *)
(* and any size of batches, the report of a comparison is that of a replay *)
(* of both files.  The two components share no state.                      *)
(***************************************************************************)
EXTENDS DayMerge, GoldenCompare, FiniteSetTheorems, SequenceTheorems, WellFoundedInduction,
        TLAPS

-----------------------------------------------------------------------------
(* The merge.                                                              *)

\* The row at index i of an hour's file, by its place in the day.
RowAt(h, i) == <<file[h][i][1], h, file[h][i][2]>>

\* A cursor has a current row.
Standing(c) == c.index <= c.loaded

\* The translated hours that have rows, in order, each once.
PathsInv ==
  /\ \A m, n \in DOMAIN paths : m < n => paths[m] < paths[n]
  /\ \A n \in DOMAIN paths : n <= paths[n] /\ paths[n] <= hour /\ file[paths[n]] # <<>>
  /\ \A h \in 1..hour : file[h] # <<>> => \E n \in DOMAIN paths : paths[n] = h
  /\ opened > 0 => hour = Hours

\* Each opened path has its cursor at its own place, which is past its batch
\* only at the end of its file.
CursorsInv ==
  /\ Len(cursors) = opened
  /\ \A n \in DOMAIN cursors :
       /\ cursors[n].hour = paths[n]
       /\ ~Standing(cursors[n]) => cursors[n].loaded = Len(file[paths[n]])

\* The heap holds a key for each cursor that has a current row, no other.
HeapInv ==
  /\ \A n \in DOMAIN cursors : Standing(cursors[n]) => Key(cursors[n], n) \in heap
  /\ \A k \in heap : \E n \in DOMAIN cursors :
       Standing(cursors[n]) /\ k = Key(cursors[n], n)

\* The rows emitted are those the cursors have passed.
EmittedSet == {Emitted[j] : j \in DOMAIN Emitted}
EmittedInv ==
  /\ \A n \in DOMAIN cursors : \A i \in 1..(cursors[n].index - 1) :
       RowAt(cursors[n].hour, i) \in EmittedSet
  /\ \A r \in EmittedSet : \E n \in DOMAIN cursors : \E i \in 1..(cursors[n].index - 1) :
       r = RowAt(cursors[n].hour, i)

\* Nothing is left when the file is closed.
ClosedInv == closed => hour = Hours /\ opened = Len(paths) /\ heap = {}

IInv == TypeOK /\ PathsInv /\ CursorsInv /\ HeapInv /\ EmittedInv /\ ClosedInv

Place3 == Nat \X (1..Hours) \X Nat

-----------------------------------------------------------------------------
(* Sequences, files and cursors.                                           *)

\* A row appended to the block is appended to the day file.
LEMMA AppendAfterConcat ==
  ASSUME NEW S, NEW s \in Seq(S), NEW t \in Seq(S), NEW x \in S
  PROVE  s \o Append(t, x) = Append(s \o t, x)
<1>1. <<x>> \in Seq(S)
  OBVIOUS
<1>2. Append(t, x) = t \o <<x>>
  BY AppendIsConcat
<1>3. s \o t \in Seq(S)
  BY ConcatProperties
<1>4. Append(s \o t, x) = (s \o t) \o <<x>>
  BY <1>3, AppendIsConcat
<1> QED
  BY <1>1, <1>2, <1>4, ConcatAssociative

\* ... and joins its rows.
LEMMA AppendedRows ==
  ASSUME NEW S, NEW s \in Seq(S), NEW x \in S
  PROVE  {Append(s, x)[j] : j \in DOMAIN Append(s, x)} = {s[j] : j \in DOMAIN s} \cup {x}
<1>1. /\ Append(s, x) \in Seq(S)
      /\ Len(Append(s, x)) = Len(s) + 1
      /\ \A i \in 1..Len(s) : Append(s, x)[i] = s[i]
      /\ Append(s, x)[Len(s) + 1] = x
  BY AppendProperties
<1>2. DOMAIN Append(s, x) = 1..(Len(s) + 1) /\ DOMAIN s = 1..Len(s) /\ Len(s) \in Nat
  BY <1>1, LenProperties
<1> QED
  BY <1>1, <1>2

\* A row of an hour's file has a place, and a later row a later one.
LEMMA FileRows ==
  ASSUME TypeOK, NEW h \in 1..Hours
  PROVE  /\ Len(file[h]) \in Nat
         /\ DOMAIN file[h] = 1..Len(file[h])
         /\ \A i \in 1..Len(file[h]) : RowAt(h, i) \in Place3
         /\ \A i, j \in 1..Len(file[h]) : i < j => Order!Before(RowAt(h, i), RowAt(h, j))
         /\ file[h] # <<>> => Len(file[h]) > 0
<1> DEFINE f == file[h]
<1>1. f \in Seq(Nat \X Nat) /\ SortedFile(f)
  BY FilesAssumption DEF TypeOK
<1>2. Len(f) \in Nat /\ DOMAIN f = 1..Len(f)
  BY <1>1, LenProperties
<1>3. \A i \in 1..Len(f) : f[i][1] \in Nat /\ f[i][2] \in Nat
  BY <1>1, <1>2, ElementOfSeq
<1>4. \A i \in 1..Len(f) : RowAt(h, i) \in Place3
  BY <1>3 DEF RowAt, Place3
<1>5. ASSUME NEW i \in 1..Len(f), NEW j \in 1..Len(f), i < j
      PROVE  Order!Before(RowAt(h, i), RowAt(h, j))
  <2>1. f[i][1] < f[j][1] \/ (f[i][1] = f[j][1] /\ f[i][2] < f[j][2])
    BY <1>1, <1>2, <1>5 DEF SortedFile
  <2> QED
    BY <2>1 DEF RowAt, Order!Before
<1>6. f # <<>> => Len(f) > 0
  BY <1>1, EmptySeq
<1> QED
  BY <1>2, <1>4, <1>5, <1>6

\* Before is an order of places.
LEMMA BeforeOrders ==
  ASSUME NEW p \in Place3, NEW q \in Place3, NEW r \in Place3
  PROVE  /\ ~Order!Before(p, p)
         /\ Order!Before(p, q) /\ Order!Before(q, r) => Order!Before(p, r)
BY DEF Order!Before, Place3

\* What the type of a cursor is in detail.
LEMMA CursorRows ==
  ASSUME TypeOK, PathsInv, CursorsInv, NEW n \in DOMAIN cursors
  PROVE  /\ cursors[n] \in CursorType
         /\ cursors[n].hour \in 1..Hours
         /\ cursors[n].hour = paths[n]
         /\ cursors[n].index \in Nat \ {0}
         /\ cursors[n].loaded \in Nat
         /\ cursors[n].index <= cursors[n].loaded + 1
         /\ cursors[n].loaded <= Len(file[cursors[n].hour])
         /\ n \in 1..Len(cursors)
         /\ Len(cursors) \in Nat
         /\ DOMAIN paths = 1..Len(paths)
         /\ Len(paths) \in Nat
         /\ n \in 1..Len(paths)
<1>1. DOMAIN cursors = 1..Len(cursors) /\ Len(cursors) \in Nat
  BY LenProperties DEF TypeOK
<1>2. DOMAIN paths = 1..Len(paths) /\ Len(paths) \in Nat
  BY LenProperties DEF TypeOK
<1>3. cursors[n] \in CursorType
  BY <1>1, ElementOfSeq DEF TypeOK
<1> QED
  BY <1>1, <1>2, <1>3 DEF TypeOK, CursorsInv, CursorType

\* A key of a standing cursor names its current row.
LEMMA KeyNamesRow ==
  ASSUME TypeOK, PathsInv, CursorsInv, NEW n \in DOMAIN cursors, Standing(cursors[n])
  PROVE  /\ Place(cursors[n]) = RowAt(cursors[n].hour, cursors[n].index)
         /\ Place(cursors[n]) \in Place3
         /\ cursors[n].index \in 1..Len(file[cursors[n].hour])
         /\ LET k == Key(cursors[n], n) IN
            /\ k[4] = n
            /\ <<k[1], k[2], k[3]>> = Place(cursors[n])
            /\ k \in Nat \X (1..Hours) \X Nat \X (1..Hours)
<1> DEFINE c == cursors[n]
<1>1. c.index \in 1..Len(file[c.hour]) /\ c.hour \in 1..Hours
  BY CursorRows, FileRows DEF Standing
<1>2. Place(c) = RowAt(c.hour, c.index)
  BY DEF Place, RowAt
<1>3. Place(c) \in Place3
  BY <1>1, <1>2, FileRows
<1>4. n \in 1..Hours
  <2>1. n \in DOMAIN paths /\ n \in Nat \ {0} /\ paths[n] \in 1..Hours
    BY CursorRows
  <2> QED
    BY <2>1, HoursAssumption DEF PathsInv
<1> QED
  BY <1>1, <1>2, <1>3, <1>4 DEF Key, Place, Place3

-----------------------------------------------------------------------------
(* The invariant.                                                          *)

LEMMA Initially == Init => IInv
<1> SUFFICES ASSUME Init PROVE IInv
  OBVIOUS
<1>1. TypeOK
  <2>1. DOMAIN cursors = {} /\ Len(paths) = 0 /\ Len(out) = 0
    BY DEF Init
  <2>2. /\ paths \in Seq(1..Hours) /\ cursors \in Seq(CursorType)
        /\ out \in Seq(Nat \X (1..Hours) \X Nat) /\ written \in Seq(Nat \X (1..Hours) \X Nat)
    BY EmptySeq DEF Init
  <2>3. file \in [1..Hours -> Files] /\ hour = 0 /\ opened = 0
    BY DEF Init
  <2>4. heap = {} /\ closed \in BOOLEAN
    BY DEF Init
  <2>5. Len(out) < BlockSize
    BY <2>1, BlockSizeAssumption
  <2> QED
    BY <2>1, <2>2, <2>3, <2>4, <2>5, HoursAssumption DEF TypeOK
<1>2. PathsInv
  BY DEF Init, PathsInv
<1>3. CursorsInv /\ HeapInv
  BY DEF Init, CursorsInv, HeapInv
<1>4. EmittedInv
  BY DEF Init, EmittedInv, EmittedSet, Emitted
<1>5. ClosedInv
  BY DEF Init, ClosedInv
<1> QED
  BY <1>1, <1>2, <1>3, <1>4, <1>5 DEF IInv

\* A step that leaves the files, the cursors and the rows alone.
LEMMA EmittedUnchanged ==
  ASSUME EmittedInv, UNCHANGED <<file, cursors, out, written>>
  PROVE  EmittedInv'
<1>1. EmittedSet' = EmittedSet /\ (\A h, i : RowAt(h, i)' = RowAt(h, i))
  BY DEF EmittedSet, Emitted, RowAt
<1> QED
  BY <1>1 DEF EmittedInv, RowAt

LEMMA TranslateKeeps ==
  ASSUME IInv, Translate PROVE IInv'
<1> USE DEF IInv
<1>1. hour' = hour + 1 /\ hour \in 0..Hours /\ hour' \in 1..Hours /\ opened = 0
  BY HoursAssumption DEF Translate, TypeOK, PathsInv
<1>2. paths \in Seq(1..Hours) /\ Len(paths) \in Nat /\ DOMAIN paths = 1..Len(paths)
  BY LenProperties DEF TypeOK
<1>3. Len(paths) <= hour
  <2>1. CASE Len(paths) = 0
    BY <2>1, <1>1
  <2>2. CASE Len(paths) # 0
    <3>0. Len(paths) \in 1..Len(paths)
      BY <2>2, <1>2
    <3>1. Len(paths) \in DOMAIN paths /\ paths[Len(paths)] \in 1..Hours
      BY <3>0, <1>2, ElementOfSeq
    <3> QED
      BY <3>1, <1>1, <1>2 DEF PathsInv
  <2> QED
    BY <2>1, <2>2
<1>4. CASE file[hour + 1] = <<>>
  <2>1. UNCHANGED <<file, paths, opened, cursors, heap, out, written, closed>>
    BY <1>4 DEF Translate
  <2>2. TypeOK'
    BY <2>1, <1>1 DEF TypeOK
  <2>3. PathsInv'
    <3>1. \A n \in DOMAIN paths : paths[n] \in 1..Hours
      BY <1>2, ElementOfSeq
    <3> QED
      BY <2>1, <1>1, <1>2, <1>4, <3>1, HoursAssumption DEF PathsInv
  <2>4. CursorsInv' /\ HeapInv' /\ ClosedInv'
    BY <2>1, <1>1, HoursAssumption DEF CursorsInv, HeapInv, ClosedInv, Key, Translate, Standing
  <2>5. EmittedInv'
    BY <2>1, EmittedUnchanged
  <2> QED
    BY <2>2, <2>3, <2>4, <2>5
<1>5. CASE file[hour + 1] # <<>>
  <2>1. /\ UNCHANGED <<file, opened, cursors, heap, out, written, closed>>
        /\ paths' = Append(paths, hour + 1)
    BY <1>5 DEF Translate
  <2>2. /\ paths' \in Seq(1..Hours)
        /\ Len(paths') = Len(paths) + 1
        /\ \A i \in 1..Len(paths) : paths'[i] = paths[i]
        /\ paths'[Len(paths) + 1] = hour + 1
        /\ DOMAIN paths' = 1..(Len(paths) + 1)
    BY <2>1, <1>1, <1>2, AppendProperties, LenProperties
  <2>3. TypeOK'
    BY <2>1, <2>2, <1>1, <1>2 DEF TypeOK
  <2>4. PathsInv'
    <3>1. \A n \in 1..Len(paths) : paths[n] \in 1..Hours /\ paths[n] <= hour
      BY <1>2, ElementOfSeq DEF PathsInv
    <3>2. \A m, n \in DOMAIN paths' : m < n => paths'[m] < paths'[n]
      BY <2>2, <3>1, <1>1, <1>2 DEF PathsInv
    <3>3. \A n \in DOMAIN paths' : n <= paths'[n] /\ paths'[n] <= hour' /\ file'[paths'[n]] # <<>>
      BY <2>1, <2>2, <3>1, <1>1, <1>2, <1>3, <1>5 DEF PathsInv
    <3>4. ASSUME NEW h \in 1..hour', file'[h] # <<>>
          PROVE  \E n \in DOMAIN paths' : paths'[n] = h
      <4>1. CASE h = hour + 1
        BY <4>1, <2>2, <1>2
      <4>2. CASE h # hour + 1
        <5>1. h \in 1..hour
          BY <4>2, <1>1
        <5>2. PICK n \in DOMAIN paths : paths[n] = h
          BY <5>1, <3>4, <2>1 DEF PathsInv
        <5> QED
          BY <5>2, <2>2, <1>2
      <4> QED
        BY <4>1, <4>2
    <3>5. opened' > 0 => hour' = Hours
      BY <2>1, <1>1
    <3> QED
      BY <3>2, <3>3, <3>4, <3>5 DEF PathsInv
  <2>5. CursorsInv' /\ HeapInv' /\ ClosedInv'
    <3>1. DOMAIN cursors = {} /\ Len(cursors) = 0
      BY <1>1, LenProperties DEF TypeOK, CursorsInv
    <3> QED
      BY <3>1, <2>1, <1>1, HoursAssumption
         DEF CursorsInv, HeapInv, ClosedInv, Key, Translate, Standing
  <2>6. EmittedInv'
    BY <2>1, EmittedUnchanged
  <2> QED
    BY <2>3, <2>4, <2>5, <2>6
<1> QED
  BY <1>4, <1>5

\* Opening a path gives it a cursor that stands on its first row.
LEMMA OpenKeeps ==
  ASSUME IInv, Open PROVE IInv'
<1> USE DEF IInv
<1> DEFINE h == paths[opened + 1]
           c == WithNextBatch(Cursor(h))
           k == Key(c, opened + 1)
<1>1. /\ hour = Hours /\ opened \in Nat /\ opened < Len(paths) /\ Len(paths) \in Nat
      /\ opened' = opened + 1
      /\ UNCHANGED <<file, hour, paths, out, written, closed>>
      /\ opened + 1 \in DOMAIN paths /\ DOMAIN paths = 1..Len(paths)
      /\ h \in 1..Hours /\ file[h] # <<>> /\ opened + 1 <= h
  <2>1. paths \in Seq(1..Hours) /\ Len(paths) \in Nat /\ DOMAIN paths = 1..Len(paths)
    BY LenProperties DEF TypeOK
  <2>2. opened + 1 \in DOMAIN paths /\ opened \in Nat
    BY <2>1 DEF Open, TypeOK
  <2>3. h \in 1..Hours
    BY <2>1, <2>2, ElementOfSeq
  <2> QED
    BY <2>1, <2>2, <2>3 DEF Open, PathsInv
<1>2. Len(file[h]) \in Nat /\ Len(file[h]) > 0 /\ RowAt(h, 1) \in Place3
  BY <1>1, FileRows
<1>3. HasNextBatch(Cursor(h))
  BY <1>2 DEF HasNextBatch, Cursor
<1>4. cursors' = Append(cursors, c) /\ heap' = heap \cup {k}
  BY <1>3 DEF Open
<1>5. /\ c \in CursorType /\ c.hour = h /\ c.index = 1
      /\ c.loaded \in 1..Len(file[h])
  BY <1>1, <1>2, BatchSizeAssumption DEF WithNextBatch, Cursor, CursorType
<1>6. /\ cursors \in Seq(CursorType) /\ Len(cursors) = opened
      /\ DOMAIN cursors = 1..opened
      /\ cursors' \in Seq(CursorType) /\ Len(cursors') = opened + 1
      /\ DOMAIN cursors' = 1..(opened + 1)
      /\ \A n \in 1..opened : cursors'[n] = cursors[n]
      /\ cursors'[opened + 1] = c
  <2>1. cursors \in Seq(CursorType) /\ Len(cursors) = opened
    BY DEF TypeOK, CursorsInv
  <2> QED
    BY <2>1, <1>4, <1>5, AppendProperties, LenProperties
<1>7. k \in Nat \X (1..Hours) \X Nat \X (1..Hours)
  <2>1. opened + 1 \in 1..Hours
    BY <1>1, HoursAssumption
  <2> QED
    BY <1>1, <1>2, <1>5, <2>1 DEF Key, RowAt, Place3
<1>8. TypeOK'
  <2>1. ASSUME NEW n \in DOMAIN cursors'
        PROVE  /\ cursors'[n].index <= cursors'[n].loaded + 1
               /\ cursors'[n].loaded <= Len(file'[cursors'[n].hour])
    <3>1. CASE n \in 1..opened
      BY <3>1, <1>1, <1>6 DEF TypeOK
    <3>2. CASE n = opened + 1
      BY <3>2, <1>1, <1>2, <1>5, <1>6
    <3> QED
      BY <3>1, <3>2, <1>1, <1>6
  <2>2. opened' \in 0..Len(paths')
    BY <1>1
  <2> QED
    BY <1>1, <1>4, <1>6, <1>7, <2>1, <2>2 DEF TypeOK
<1>9. PathsInv'
  BY <1>1 DEF PathsInv
<1>10. CursorsInv'
  <2>1. \A n \in DOMAIN cursors' : cursors'[n].hour = paths[n]
    BY <1>1, <1>5, <1>6 DEF CursorsInv
  <2>2. \A n \in DOMAIN cursors' :
          ~Standing(cursors'[n]) => cursors'[n].loaded = Len(file[paths[n]])
    BY <1>1, <1>5, <1>6 DEF CursorsInv, Standing
  <2> QED
    BY <2>1, <2>2, <1>1, <1>6 DEF CursorsInv, Standing
<1>11. HeapInv'
  <2>0. PICK new : new = opened + 1
    OBVIOUS
  <2>1. \A n \in 1..opened : Key(cursors[n], n)' = Key(cursors[n], n)
    BY <1>1, <1>6 DEF Key
  <2>2. Key(cursors[new], new)' = k
    BY <2>0, <1>1, <1>6 DEF Key
  <2>3. Standing(c)
    BY <1>5 DEF Standing
  <2>4. \A n \in 1..opened : Standing(cursors[n])' <=> Standing(cursors[n])
    BY <1>6 DEF Standing
  <2>5. Standing(cursors[new])'
    BY <2>0, <1>6, <2>3 DEF Standing
  <2>6. \A n \in DOMAIN cursors' : n \in 1..opened \/ n = new
    BY <2>0, <1>1, <1>6
  <2>7. ASSUME NEW n \in DOMAIN cursors', Standing(cursors[n])'
        PROVE  Key(cursors[n], n)' \in heap'
    <3>1. CASE n \in 1..opened
      BY <3>1, <2>1, <2>4, <2>7, <1>4, <1>6 DEF HeapInv
    <3>2. CASE n = new
      BY <3>2, <2>2, <1>4
    <3> QED
      BY <3>1, <3>2, <2>6
  <2>8. ASSUME NEW l \in heap'
        PROVE  \E n \in DOMAIN cursors' : Standing(cursors[n])' /\ l = Key(cursors[n], n)'
    <3>1. CASE l \in heap
      <4>1. PICK n \in 1..opened : Standing(cursors[n]) /\ l = Key(cursors[n], n)
        BY <3>1, <1>6 DEF HeapInv
      <4> QED
        BY <4>1, <2>1, <2>4, <1>1, <1>6
    <3>2. CASE l = k
      BY <3>2, <2>0, <2>2, <2>5, <1>1, <1>6
    <3> QED
      BY <3>1, <3>2, <1>4
  <2> QED
    BY <2>7, <2>8 DEF HeapInv
<1>12. EmittedInv'
  <2>1. EmittedSet' = EmittedSet /\ (\A g, i : RowAt(g, i)' = RowAt(g, i))
    BY <1>1 DEF EmittedSet, Emitted, RowAt
  <2>2. ASSUME NEW n \in DOMAIN cursors', NEW i \in 1..(cursors'[n].index - 1)
        PROVE  n \in 1..opened
    BY <1>1, <1>5, <1>6
  <2>3. \A n \in DOMAIN cursors' : \A i \in 1..(cursors'[n].index - 1) :
          RowAt(cursors'[n].hour, i) \in EmittedSet
    BY <2>2, <1>6 DEF EmittedInv
  <2>4. \A r \in EmittedSet : \E n \in DOMAIN cursors' : \E i \in 1..(cursors'[n].index - 1) :
          r = RowAt(cursors'[n].hour, i)
    <3> SUFFICES ASSUME NEW r \in EmittedSet
                 PROVE  \E n \in DOMAIN cursors' : \E i \in 1..(cursors'[n].index - 1) :
                          r = RowAt(cursors'[n].hour, i)
      OBVIOUS
    <3>1. PICK n \in DOMAIN cursors : \E i \in 1..(cursors[n].index - 1) :
            r = RowAt(cursors[n].hour, i)
      BY DEF EmittedInv
    <3>2. n \in DOMAIN cursors' /\ cursors'[n] = cursors[n]
      BY <3>1, <1>1, <1>6
    <3> QED
      BY <3>1, <3>2
  <2> QED
    BY <2>1, <2>3, <2>4, <1>1 DEF EmittedInv, RowAt
<1>13. ClosedInv'
  BY <1>1 DEF ClosedInv
<1> QED
  BY <1>8, <1>9, <1>10, <1>11, <1>12, <1>13

\* What advancing a cursor does: it stands on the next row if there is one.
LEMMA AdvancedCursor ==
  ASSUME NEW c \in CursorType, Standing(c), c.loaded <= Len(file[c.hour]),
         Len(file[c.hour]) \in Nat
  PROVE  /\ Advanced(c) \in CursorType
         /\ Advanced(c).hour = c.hour
         /\ Advanced(c).index = c.index + 1
         /\ Advanced(c).index <= Advanced(c).loaded + 1
         /\ Advanced(c).loaded <= Len(file[c.hour])
         /\ Standing(Advanced(c)) <=> Advances(c)
         /\ ~Standing(Advanced(c)) => Advanced(c).loaded = Len(file[c.hour])
<1>1. c.index \in Nat \ {0} /\ c.loaded \in Nat /\ c.hour \in 1..Hours /\ c.index <= c.loaded
  BY DEF CursorType, Standing
<1>2. Stepped(c) \in CursorType /\ Stepped(c).hour = c.hour /\ Stepped(c).loaded = c.loaded
      /\ Stepped(c).index = c.index + 1
  BY <1>1 DEF Stepped, CursorType
<1>3. CASE c.index < c.loaded
  BY <1>1, <1>2, <1>3 DEF Advanced, Advances, Standing
<1>4. CASE ~(c.index < c.loaded)
  <2>1. Advanced(c) = WithNextBatch(Stepped(c))
    BY <1>4 DEF Advanced
  <2> DEFINE s == Stepped(c)
             l == IF s.loaded + BatchSize <= Len(file[s.hour]) THEN s.loaded + BatchSize
                  ELSE Len(file[s.hour])
  <2>2. l \in Nat /\ l <= Len(file[c.hour]) /\ c.loaded <= l
        /\ (c.loaded < Len(file[c.hour]) => c.loaded + 1 <= l)
        /\ (~(c.loaded < Len(file[c.hour])) => l = c.loaded /\ l = Len(file[c.hour]))
    BY <1>1, <1>2, BatchSizeAssumption
  <2>3. WithNextBatch(s) = [s EXCEPT !.loaded = l]
    BY DEF WithNextBatch
  <2> HIDE DEF s, l
  <2>4. /\ Advanced(c) \in CursorType /\ Advanced(c).hour = c.hour
        /\ Advanced(c).index = c.index + 1 /\ Advanced(c).loaded = l
    <3>1. s \in CursorType /\ s.hour = c.hour /\ s.index = c.index + 1
      BY <1>2 DEF s
    <3> QED
      BY <3>1, <2>1, <2>2, <2>3 DEF CursorType, s
  <2> QED
    BY <1>1, <1>4, <2>2, <2>4 DEF Standing, Advances, HasNextBatch
<1> QED
  BY <1>3, <1>4

\* A popped key names the row that is first among those not yet emitted.
LEMMA PopFindsFirst ==
  ASSUME IInv, NEW k \in heap, Pop(k)
  PROVE  /\ k[4] \in DOMAIN cursors
         /\ Standing(cursors[k[4]])
         /\ k = Key(cursors[k[4]], k[4])
         /\ Place(cursors[k[4]]) \in Rows \ EmittedSet
         /\ \A q \in (Rows \ EmittedSet) \ {Place(cursors[k[4]])} :
              Order!Before(Place(cursors[k[4]]), q)
<1> USE DEF IInv
<1>1. PICK m \in DOMAIN cursors : Standing(cursors[m]) /\ k = Key(cursors[m], m)
  BY DEF HeapInv
<1>2. k[4] = m
  BY <1>1, KeyNamesRow
<1> DEFINE c == cursors[m]
           r == Place(c)
<1>3. /\ r = RowAt(c.hour, c.index) /\ r \in Place3 /\ c.index \in 1..Len(file[c.hour])
      /\ <<k[1], k[2], k[3]>> = r
      /\ c.hour \in 1..Hours /\ c.hour = paths[m]
  BY <1>1, KeyNamesRow, CursorRows
<1>4. r \in Rows
  <2>1. DOMAIN file[c.hour] = 1..Len(file[c.hour])
    BY <1>3, FileRows
  <2> QED
    BY <2>1, <1>3 DEF Rows, RowsOf, RowAt
<1>5. ASSUME NEW n \in DOMAIN cursors, cursors[n].hour = c.hour PROVE n = m
  <2>1. n \in DOMAIN paths /\ m \in DOMAIN paths /\ paths[n] = paths[m] /\ n \in Nat /\ m \in Nat
        /\ paths[n] \in Nat
    BY <1>3, <1>5, CursorRows
  <2> QED
    BY <2>1 DEF PathsInv
<1>6. r \notin EmittedSet
  <2> SUFFICES ASSUME r \in EmittedSet PROVE FALSE
    OBVIOUS
  <2>1. PICK n \in DOMAIN cursors : \E i \in 1..(cursors[n].index - 1) :
          r = RowAt(cursors[n].hour, i)
    BY DEF EmittedInv
  <2>2. PICK i \in 1..(cursors[n].index - 1) : r = RowAt(cursors[n].hour, i)
    BY <2>1
  <2>3. cursors[n].hour = c.hour
    BY <2>2, <1>3 DEF RowAt
  <2>4. n = m
    BY <2>3, <1>5
  <2>5. i \in 1..Len(file[c.hour]) /\ i < c.index
    BY <2>4, <1>3, FileRows
  <2>6. Order!Before(r, r)
    BY <2>2, <2>4, <2>5, <1>3, FileRows
  <2> QED
    BY <2>6, <1>3, BeforeOrders
<1>7. ASSUME NEW q \in (Rows \ EmittedSet) \ {r} PROVE Order!Before(r, q)
  <2>1. PICK h \in 1..Hours : q \in RowsOf(h)
    BY <1>7 DEF Rows
  <2>2. DOMAIN file[h] = 1..Len(file[h]) /\ Len(file[h]) \in Nat
    BY FileRows
  <2>3. PICK i \in 1..Len(file[h]) : q = RowAt(h, i)
    BY <2>1, <2>2 DEF RowsOf, RowAt
  <2>4. hour = Hours /\ opened = Len(paths)
    BY DEF Pop
  <2>5. file[h] # <<>>
    BY <2>2, <2>3
  <2>6. PICK n \in DOMAIN paths : paths[n] = h
    BY <2>4, <2>5 DEF PathsInv
  <2>7. n \in DOMAIN cursors
    BY <2>4, LenProperties DEF TypeOK, CursorsInv
  <2> DEFINE d == cursors[n]
  <2>8. d.hour = h /\ d.index \in Nat \ {0} /\ d.loaded \in Nat
        /\ d.index <= d.loaded + 1
        /\ (~Standing(d) => d.loaded = Len(file[h]))
    BY <2>6, <2>7, CursorRows DEF CursorsInv
  <2>9. i >= d.index
    <3> SUFFICES ASSUME i < d.index PROVE FALSE
      BY <2>8
    <3>1. i \in 1..(d.index - 1)
      BY <2>8
    <3> QED
      BY <3>1, <2>3, <2>7, <2>8, <1>7 DEF EmittedInv
  <2>10. Standing(d)
    BY <2>2, <2>8, <2>9 DEF Standing
  <2>11. Place(d) = RowAt(h, d.index) /\ Place(d) \in Place3 /\ d.index \in 1..Len(file[h])
    BY <2>7, <2>8, <2>10, KeyNamesRow
  <2>12. q \in Place3
    BY <2>3, FileRows
  <2>13. q = Place(d) \/ Order!Before(Place(d), q)
    <3>1. CASE i = d.index
      BY <3>1, <2>3, <2>11
    <3>2. CASE i # d.index
      BY <3>2, <2>3, <2>8, <2>9, <2>11, FileRows
    <3> QED
      BY <3>1, <3>2
  <2>14. CASE n = m
    BY <2>13, <2>14, <1>7
  <2>15. CASE n # m
    <3>1. Key(d, n) \in heap /\ Key(d, n)[4] = n
          /\ <<Key(d, n)[1], Key(d, n)[2], Key(d, n)[3]>> = Place(d)
      BY <2>7, <2>10, KeyNamesRow DEF HeapInv
    <3>2. KeyBefore(k, Key(d, n))
      BY <3>1, <2>15, <1>2 DEF Pop
    <3>3. k[2] # Key(d, n)[2]
      <4>1. k[2] = c.hour /\ Key(d, n)[2] = d.hour
        BY <1>1 DEF Key
      <4> QED
        BY <4>1, <1>5, <2>7, <2>15
    <3>4. r[1] = k[1] /\ r[2] = k[2] /\ r[3] = k[3]
          /\ Place(d)[1] = Key(d, n)[1] /\ Place(d)[2] = Key(d, n)[2] /\ Place(d)[3] = Key(d, n)[3]
      BY <1>3, <3>1
    <3>5. k[1] < Key(d, n)[1] \/ (k[1] = Key(d, n)[1] /\ k[2] < Key(d, n)[2])
      BY <3>2, <3>3 DEF KeyBefore
    <3>6. Order!Before(r, Place(d))
      BY <3>4, <3>5 DEF Order!Before
    <3> QED
      BY <3>6, <2>11, <2>12, <2>13, <1>3, BeforeOrders
  <2> QED
    BY <2>14, <2>15
<1> QED
  BY <1>1, <1>2, <1>4, <1>6, <1>7

\* A popped row is appended to the day file, whether or not a block is full.
LEMMA PopEmits ==
  ASSUME IInv, NEW k \in heap, Pop(k)
  PROVE  /\ Emitted' = Append(Emitted, Place(cursors[k[4]]))
         /\ EmittedSet' = EmittedSet \cup {Place(cursors[k[4]])}
         /\ out' \in Seq(Place3) /\ written' \in Seq(Place3) /\ Len(out') < BlockSize
<1> USE DEF IInv
<1> DEFINE r == Place(cursors[k[4]])
<1>1. r \in Place3 /\ out \in Seq(Place3) /\ written \in Seq(Place3)
      /\ Len(out) \in Nat /\ BlockSize \in Nat \ {0}
  <2>1. r \in Place3
    BY PopFindsFirst, KeyNamesRow
  <2>2. out \in Seq(Place3) /\ written \in Seq(Place3)
    BY DEF TypeOK, Place3
  <2> QED
    BY <2>1, <2>2, LenProperties, BlockSizeAssumption
<1> DEFINE block == Append(out, r)
<1>2. block \in Seq(Place3) /\ Len(block) \in Nat
  BY <1>1, AppendProperties
<1>3. Write(block)
  BY DEF Pop
<1>4. written \o block = Append(Emitted, r) /\ Emitted \in Seq(Place3)
  BY <1>1, AppendAfterConcat, ConcatProperties DEF Emitted
<1>5. /\ Emitted' = written \o block
      /\ out' \in Seq(Place3) /\ written' \in Seq(Place3) /\ Len(out') < BlockSize
  <2> HIDE DEF block
  <2>1. CASE Len(block) >= BlockSize
    <3>1. out' = <<>> /\ written' = written \o block
      BY <1>3, <2>1 DEF Write
    <3>2. written' \in Seq(Place3)
      BY <3>1, <1>1, <1>2, ConcatProperties
    <3>3. written' \o <<>> = written'
      BY <3>2, ConcatEmptySeq
    <3>4. out' \in Seq(Place3) /\ Len(out') = 0
      BY <3>1, EmptySeq
    <3> QED
      BY <3>1, <3>2, <3>3, <3>4, <1>1 DEF Emitted
  <2>2. CASE ~(Len(block) >= BlockSize)
    <3>1. out' = block /\ written' = written
      BY <1>3, <2>2 DEF Write
    <3> QED
      BY <3>1, <2>2, <1>1, <1>2 DEF Emitted
  <2> QED
    BY <2>1, <2>2
<1>6. Emitted' = Append(Emitted, r)
  BY <1>4, <1>5
<1>7. EmittedSet' = EmittedSet \cup {r}
  <2>1. EmittedSet' = {Append(Emitted, r)[j] : j \in DOMAIN Append(Emitted, r)}
    BY <1>6 DEF EmittedSet
  <2>2. {Append(Emitted, r)[j] : j \in DOMAIN Append(Emitted, r)} =
          {Emitted[j] : j \in DOMAIN Emitted} \cup {r}
    <3> HIDE DEF r
    <3> QED
      BY <1>1, <1>4, AppendedRows
  <2> QED
    BY <2>1, <2>2 DEF EmittedSet
<1> QED
  BY <1>5, <1>6, <1>7

LEMMA PopKeeps ==
  ASSUME IInv, NEW k \in heap, Pop(k) PROVE IInv'
<1> USE DEF IInv
<1>0. PICK m \in DOMAIN cursors : m = k[4]
  BY PopFindsFirst
<1> DEFINE c == cursors[m]
           d == Advanced(c)
           r == Place(c)
<1>1. /\ Standing(c) /\ k = Key(c, m) /\ k[4] = m
      /\ UNCHANGED <<file, hour, paths, opened, closed>>
      /\ hour = Hours /\ opened = Len(paths)
      /\ cursors' = [cursors EXCEPT ![m] = d]
      /\ heap' = (heap \ {k}) \cup (IF Advances(c) THEN {Key(d, m)} ELSE {})
  BY <1>0, PopFindsFirst DEF Pop
<1>2. /\ c \in CursorType /\ c.hour \in 1..Hours /\ c.hour = paths[m]
      /\ c.index \in Nat \ {0} /\ c.loaded \in Nat /\ c.loaded <= Len(file[c.hour])
      /\ Len(file[c.hour]) \in Nat /\ m \in 1..Len(cursors) /\ Len(cursors) \in Nat
      /\ cursors \in Seq(CursorType) /\ DOMAIN cursors = 1..Len(cursors)
  BY CursorRows, FileRows, LenProperties DEF TypeOK
<1>3. /\ d \in CursorType /\ d.hour = c.hour /\ d.index = c.index + 1
      /\ d.index <= d.loaded + 1 /\ d.loaded <= Len(file[c.hour])
      /\ (Standing(d) <=> Advances(c))
      /\ (~Standing(d) => d.loaded = Len(file[c.hour]))
  BY <1>1, <1>2, AdvancedCursor
<1> HIDE DEF d
<1>4. /\ cursors' \in Seq(CursorType) /\ Len(cursors') = Len(cursors)
      /\ DOMAIN cursors' = DOMAIN cursors
      /\ cursors'[m] = d
      /\ \A n \in DOMAIN cursors : n # m => cursors'[n] = cursors[n]
  BY <1>1, <1>2, <1>3, ExceptSeq, LenProperties
<1>5. /\ EmittedSet' = EmittedSet \cup {r}
      /\ out' \in Seq(Place3) /\ written' \in Seq(Place3) /\ Len(out') < BlockSize
  BY <1>1, PopEmits
<1>6. ASSUME NEW n \in DOMAIN cursors PROVE n = m \/ cursors'[n] = cursors[n]
  BY <1>4
<1>7. TypeOK'
  <2>1. ASSUME NEW n \in DOMAIN cursors'
        PROVE  /\ cursors'[n].index <= cursors'[n].loaded + 1
               /\ cursors'[n].loaded <= Len(file'[cursors'[n].hour])
    <3>1. CASE n = m
      BY <3>1, <1>1, <1>3, <1>4
    <3>2. CASE n # m
      BY <3>2, <1>1, <1>4 DEF TypeOK
    <3> QED
      BY <3>1, <3>2
  <2>2. heap' \subseteq Nat \X (1..Hours) \X Nat \X (1..Hours)
    <3>1. heap \subseteq Nat \X (1..Hours) \X Nat \X (1..Hours)
      BY DEF TypeOK
    <3>2. m \in 1..Hours
      <4>1. k \in Nat \X (1..Hours) \X Nat \X (1..Hours)
        BY <3>1
      <4> QED
        BY <4>1, <1>1
    <3>3. ASSUME Advances(c) PROVE Key(d, m) \in Nat \X (1..Hours) \X Nat \X (1..Hours)
      <4>1. d.index \in 1..Len(file[c.hour])
        <5>1. d.index \in Nat \ {0} /\ d.loaded \in Nat
          BY <1>3 DEF CursorType
        <5>2. d.index <= d.loaded /\ d.loaded <= Len(file[c.hour])
          BY <3>3, <1>3 DEF Standing
        <5>3. Len(file[c.hour]) \in Nat
          BY <1>2, FileRows
        <5> QED
          BY <5>1, <5>2, <5>3
      <4>2. RowAt(c.hour, d.index) \in Place3
        BY <4>1, <1>2, FileRows
      <4> QED
        BY <4>2, <3>2, <1>3 DEF Key, RowAt, Place3
    <3> QED
      BY <3>1, <3>3, <1>1
  <2>3. /\ out' \in Seq(Nat \X (1..Hours) \X Nat) /\ Len(out') < BlockSize
        /\ written' \in Seq(Nat \X (1..Hours) \X Nat)
    BY <1>5 DEF Place3
  <2> QED
    BY <2>1, <2>2, <2>3, <1>1, <1>4 DEF TypeOK
<1>8. PathsInv'
  BY <1>1 DEF PathsInv
<1>9. CursorsInv'
  <2>1. ASSUME NEW n \in DOMAIN cursors'
        PROVE  /\ cursors'[n].hour = paths[n]
               /\ ~Standing(cursors'[n]) => cursors'[n].loaded = Len(file[paths[n]])
    <3>1. CASE n = m
      BY <3>1, <1>2, <1>3, <1>4
    <3>2. CASE n # m
      BY <3>2, <1>4 DEF CursorsInv
    <3> QED
      BY <3>1, <3>2
  <2> QED
    BY <2>1, <1>1, <1>4 DEF CursorsInv, Standing
<1>10. HeapInv'
  <2>1. \A n \in DOMAIN cursors : n # m => /\ Key(cursors[n], n)' = Key(cursors[n], n)
                                          /\ Standing(cursors[n])' <=> Standing(cursors[n])
    BY <1>1, <1>4 DEF Key, Standing
  <2>2. Key(cursors[m], m)' = Key(d, m)
    BY <1>1, <1>4 DEF Key
  <2>3. Standing(cursors[m])' <=> Advances(c)
    BY <1>3, <1>4 DEF Standing
  <2>4. \A n \in DOMAIN cursors : Key(cursors[n], n)[4] = n
    BY DEF Key
  <2>5. ASSUME NEW n \in DOMAIN cursors', Standing(cursors[n])'
        PROVE  Key(cursors[n], n)' \in heap'
    <3>1. CASE n # m
      BY <3>1, <2>1, <2>4, <2>5, <1>1, <1>4 DEF HeapInv
    <3>2. CASE n = m
      BY <3>2, <2>2, <2>3, <2>5, <1>1
    <3> QED
      BY <3>1, <3>2
  <2>6. ASSUME NEW l \in heap'
        PROVE  \E n \in DOMAIN cursors' : Standing(cursors[n])' /\ l = Key(cursors[n], n)'
    <3>1. CASE l \in heap \ {k}
      <4>1. PICK n \in DOMAIN cursors : Standing(cursors[n]) /\ l = Key(cursors[n], n)
        BY <3>1 DEF HeapInv
      <4>2. n # m
        BY <4>1, <3>1, <1>1
      <4> QED
        BY <4>1, <4>2, <2>1, <1>4
    <3>2. CASE l = Key(d, m) /\ Advances(c)
      BY <3>2, <2>2, <2>3, <1>4
    <3> QED
      BY <3>1, <3>2, <1>1
  <2> QED
    BY <2>5, <2>6 DEF HeapInv
<1>11. EmittedInv'
  <2>1. \A g, i : RowAt(g, i)' = RowAt(g, i)
    BY <1>1 DEF RowAt
  <2>2. r = RowAt(c.hour, c.index)
    BY <1>1, KeyNamesRow
  <2>3. ASSUME NEW n \in DOMAIN cursors', NEW i \in 1..(cursors'[n].index - 1)
        PROVE  RowAt(cursors'[n].hour, i) \in EmittedSet'
    <3>1. CASE n # m
      BY <3>1, <2>3, <1>4, <1>5 DEF EmittedInv
    <3>2. CASE n = m /\ i = c.index
      BY <3>2, <2>2, <1>3, <1>4, <1>5
    <3>3. CASE n = m /\ i # c.index
      <4>1. i \in 1..(c.index - 1)
        BY <3>3, <2>3, <1>2, <1>3, <1>4
      <4> QED
        BY <4>1, <3>3, <1>3, <1>4, <1>5 DEF EmittedInv
    <3> QED
      BY <3>1, <3>2, <3>3
  <2>4. ASSUME NEW q \in EmittedSet'
        PROVE  \E n \in DOMAIN cursors' : \E i \in 1..(cursors'[n].index - 1) :
                 q = RowAt(cursors'[n].hour, i)
    <3>1. CASE q = r
      <4>1. c.index \in 1..(cursors'[m].index - 1)
        BY <1>2, <1>3, <1>4
      <4> QED
        BY <4>1, <3>1, <2>2, <1>3, <1>4
    <3>2. CASE q \in EmittedSet
      <4>1. PICK n \in DOMAIN cursors : \E i \in 1..(cursors[n].index - 1) :
              q = RowAt(cursors[n].hour, i)
        BY <3>2 DEF EmittedInv
      <4>2. PICK i \in 1..(cursors[n].index - 1) : q = RowAt(cursors[n].hour, i)
        BY <4>1
      <4>3. CASE n # m
        BY <4>2, <4>3, <1>4
      <4>4. CASE n = m
        <5>1. i \in 1..(cursors'[n].index - 1)
          BY <4>2, <4>4, <1>2, <1>3, <1>4
        <5> QED
          BY <5>1, <4>2, <4>4, <1>3, <1>4
      <4> QED
        BY <4>3, <4>4
    <3> QED
      BY <3>1, <3>2, <1>5
  <2> QED
    BY <2>1, <2>3, <2>4 DEF EmittedInv
<1>12. ClosedInv'
  BY <1>1 DEF ClosedInv
<1> QED
  BY <1>7, <1>8, <1>9, <1>10, <1>11, <1>12

LEMMA CloseKeeps ==
  ASSUME IInv, Close PROVE IInv'
<1> USE DEF IInv
<1>1. /\ hour = Hours /\ opened = Len(paths) /\ heap = {} /\ closed' = TRUE
      /\ out' = <<>> /\ written' = written \o out
      /\ UNCHANGED <<file, hour, paths, opened, cursors, heap>>
  BY DEF Close
<1>2. out \in Seq(Place3) /\ written \in Seq(Place3)
  BY DEF TypeOK, Place3
<1>3. written' \in Seq(Place3) /\ out' \in Seq(Place3) /\ Len(out') = 0 /\ Emitted' = Emitted
  <2>1. written' \in Seq(Place3)
    BY <1>1, <1>2, ConcatProperties
  <2>2. written' \o <<>> = written'
    BY <2>1, ConcatEmptySeq
  <2> QED
    BY <2>1, <2>2, <1>1, EmptySeq DEF Emitted
<1>4. TypeOK'
  BY <1>1, <1>3, BlockSizeAssumption DEF TypeOK, Place3
<1>5. PathsInv' /\ CursorsInv' /\ HeapInv' /\ ClosedInv'
  BY <1>1 DEF PathsInv, CursorsInv, HeapInv, ClosedInv, Key, Standing
<1>6. EmittedInv'
  <2>1. EmittedSet' = EmittedSet /\ (\A h, i : RowAt(h, i)' = RowAt(h, i))
    BY <1>1, <1>3 DEF EmittedSet, RowAt
  <2>2. EmittedInv /\ cursors' = cursors
    BY <1>1
  <2> HIDE DEF IInv
  <2> QED
    BY <2>1, <2>2 DEF EmittedInv
<1> QED
  BY <1>4, <1>5, <1>6

LEMMA StutterKeeps ==
  ASSUME IInv, UNCHANGED vars PROVE IInv'
<1> USE DEF IInv
<1>1. UNCHANGED <<file, hour, paths, opened, cursors, heap, out, written, closed>>
  BY DEF vars
<1>2. TypeOK' /\ PathsInv' /\ ClosedInv'
  BY <1>1 DEF TypeOK, PathsInv, ClosedInv
<1>3. CursorsInv' /\ HeapInv'
  BY <1>1 DEF CursorsInv, HeapInv, Key, Standing
<1>4. EmittedInv'
  BY <1>1, EmittedUnchanged
<1> QED
  BY <1>2, <1>3, <1>4

LEMMA Inductive == Spec => []IInv
<1>1. ASSUME IInv, [Next \/ Done]_vars PROVE IInv'
  <2>1. CASE Translate
    BY <2>1, <1>1, TranslateKeeps
  <2>2. CASE Open
    BY <2>2, <1>1, OpenKeeps
  <2>3. CASE \E k \in heap : Pop(k)
    BY <2>3, <1>1, PopKeeps
  <2>4. CASE Close
    BY <2>4, <1>1, CloseKeeps
  <2>5. CASE Done \/ UNCHANGED vars
    BY <2>5, <1>1, StutterKeeps DEF Done
  <2> QED
    BY <2>1, <2>2, <2>3, <2>4, <2>5, <1>1 DEF Next
<1> QED
  BY <1>1, Initially, PTL DEF Spec

-----------------------------------------------------------------------------
(* The theorems.                                                           *)

\* Every variable keeps its type, for any hours, files, batches and blocks.
THEOREM TypeCorrect == Spec => []TypeOK
<1>1. IInv => TypeOK
  BY DEF IInv
<1> QED
  BY <1>1, Inductive, PTL

\* A key popped from the heap leads to the cursor it was taken from: the
\* source index and the cursor's place in the list never part.
THEOREM KeysNameCursors == Spec => []HeapNamesCursors
<1>1. ASSUME IInv PROVE HeapNamesCursors
  <2> SUFFICES ASSUME NEW k \in heap
               PROVE  /\ k[4] \in DOMAIN cursors
                      /\ cursors[k[4]].index <= cursors[k[4]].loaded
                      /\ Place(cursors[k[4]]) = <<k[1], k[2], k[3]>>
    BY DEF HeapNamesCursors
  <2>1. PICK n \in DOMAIN cursors : Standing(cursors[n]) /\ k = Key(cursors[n], n)
    BY <1>1 DEF IInv, HeapInv
  <2>2. k[4] = n /\ <<k[1], k[2], k[3]>> = Place(cursors[n])
    BY <1>1, <2>1, KeyNamesRow DEF IInv
  <2> QED
    BY <2>1, <2>2 DEF Standing
<1> QED
  BY <1>1, Inductive, PTL

\* The merge of the hours implements the order of the day: each row written
\* is the first of those that remain, and none remains when the file closes.
THEOREM MergeKeepsOrder == Spec => DayOrderSpec
<1>1. Init => Order!Init
  BY ConcatEmptySeq, EmptySeq DEF Init, Order!Init, Emitted
<1>2. ASSUME IInv, [Next \/ Done]_vars PROVE [Order!Next]_(Order!vars)
  <2>1. file' = file => Rows' = Rows
    BY DEF Rows, RowsOf
  <2>2. CASE Translate \/ Open
    <3>1. UNCHANGED <<file, out, written, closed>>
      BY <2>2 DEF Translate, Open
    <3> QED
      BY <3>1, <2>1 DEF Order!vars, Emitted
  <2>3. CASE \E k \in heap : Pop(k)
    <3>1. PICK k \in heap : Pop(k)
      BY <2>3
    <3> DEFINE r == Place(cursors[k[4]])
    <3>2. file' = file /\ closed' = closed /\ Rows' = Rows
      BY <3>1, <2>1 DEF Pop
    <3>3. ~closed
      BY <1>2, <3>1 DEF IInv, ClosedInv
    <3>4. /\ r \in Rows \ EmittedSet
          /\ \A q \in (Rows \ EmittedSet) \ {r} : Order!Before(r, q)
      BY <1>2, <3>1, PopFindsFirst
    <3>5. Emitted' = Append(Emitted, r)
      BY <1>2, <3>1, PopEmits
    <3>6. Order!Remaining = Rows \ EmittedSet
      BY DEF Order!Remaining, EmittedSet
    <3>7. Order!Emit(r)
      <4> HIDE DEF r
      <4> QED
        BY <3>2, <3>3, <3>4, <3>5, <3>6 DEF Order!Emit
    <3> QED
      BY <3>4, <3>7 DEF Order!Next
  <2>4. CASE Close
    <3>1. /\ hour = Hours /\ opened = Len(paths) /\ heap = {} /\ ~closed /\ closed' = TRUE
          /\ out' = <<>> /\ written' = written \o out /\ file' = file
      BY <2>4 DEF Close
    <3>2. Emitted' = Emitted
      <4>1. written' \in Seq(Place3)
        BY <3>1, <1>2, ConcatProperties DEF IInv, TypeOK, Place3
      <4>2. written' \o <<>> = written'
        BY <4>1, ConcatEmptySeq
      <4> QED
        BY <4>2, <3>1 DEF Emitted
    <3>3. Rows \ EmittedSet = {}
      <4> SUFFICES ASSUME NEW q \in Rows PROVE q \in EmittedSet
        OBVIOUS
      <4>1. PICK h \in 1..Hours : q \in RowsOf(h)
        BY DEF Rows
      <4>2. DOMAIN file[h] = 1..Len(file[h]) /\ Len(file[h]) \in Nat
        BY <1>2, FileRows DEF IInv
      <4>3. PICK i \in 1..Len(file[h]) : q = RowAt(h, i)
        BY <4>1, <4>2 DEF RowsOf, RowAt
      <4>4. file[h] # <<>>
        BY <4>2, <4>3
      <4>5. PICK n \in DOMAIN paths : paths[n] = h
        BY <3>1, <4>4, <1>2 DEF IInv, PathsInv
      <4>6. n \in DOMAIN cursors
        BY <3>1, <1>2, LenProperties DEF IInv, TypeOK, CursorsInv
      <4>7. ~Standing(cursors[n])
        BY <3>1, <4>6, <1>2 DEF IInv, HeapInv
      <4>8. /\ cursors[n].index \in Nat /\ cursors[n].loaded \in Nat
            /\ cursors[n].loaded = Len(file[h]) /\ cursors[n].hour = h
        BY <4>5, <4>6, <4>7, <1>2, CursorRows DEF IInv, CursorsInv
      <4>9. i \in 1..(cursors[n].index - 1)
        BY <4>2, <4>7, <4>8 DEF Standing
      <4> QED
        BY <4>3, <4>6, <4>8, <4>9, <1>2 DEF IInv, EmittedInv
    <3>4. Order!Close
      BY <3>1, <3>2, <3>3, <2>1 DEF Order!Close, Order!Remaining, EmittedSet
    <3> QED
      BY <3>4 DEF Order!Next
  <2>5. CASE Done \/ UNCHANGED vars
    BY <2>5, <2>1 DEF Done, vars, Order!vars, Emitted
  <2> QED
    BY <2>2, <2>3, <2>4, <2>5, <1>2 DEF Next
<1> QED
  BY <1>1, <1>2, Inductive, PTL DEF Spec, DayOrderSpec, Order!Spec

-----------------------------------------------------------------------------
(* The comparison.                                                         *)

\* The rows of the slice that are in the canonical state, or skipped.
Pos == IF pc = "seek" \/ current = None THEN next ELSE next - 1

\* The millisecond at hand has no more live events.
AtEnd == idx = Len(events) \/ events[idx + 1].ts # Ts

\* The instruments of its events so far.
Now == {events[k].inst : k \in {k \in 1..idx : events[k].ts = Ts}}

\* The slice is brought to the millisecond at hand.
Sampling == idx > 0 /\ pc \in {"advance", "seek"}

\* The files are of the instance; the events are the capture's, up to the slice's end.
InputsInv ==
  /\ rows \in Slices /\ lines \in Captures
  /\ events = Loaded(lines, MaxTs)

\* The cursor holds the row it took last, or none at the end of the file.
CursorInv ==
  /\ idx \in 0..Len(events) /\ fetched \in 0..Len(rows) /\ next \in 0..fetched
  /\ pc \in {"live", "seek", "advance", "report"}
  /\ pc = "advance" => idx > 0
  /\ pc = "report" => idx = Len(events)
  /\ pc # "seek" => IF current = None THEN next = Len(rows)
                    ELSE next > 0 /\ current = rows[next] /\ current.inst \in Captured

\* The live state is that of the events applied.
LiveInv == live = [i \in Instruments |-> Books(events, i, MaxTs)[idx]]

\* The canonical state is that of the rows applied; no row is later than the
\* last live event.
CanonicalInv ==
  /\ DOMAIN canonical = Instruments
  /\ \A i \in Captured : canonical[i] = Books(rows, i, MaxTs)[Pos]
  /\ \A k \in 1..Pos : rows[k].inst \in Captured => idx > 0 /\ rows[k].ts <= Ts

\* What is touched is what the millisecond at hand has touched so far, until it is
\* sampled or left out.
TouchedInv ==
  /\ touched = IF idx = 0 \/ (~Sampling /\ AtEnd) THEN {} ELSE Now
  /\ Sampling => AtEnd /\ MinTs <= Ts

\* The sample points behind the comparison.
Behind ==
  {s \in SamplePoints : idx > 0 /\ (s[2] < Ts \/ (s[2] = Ts /\ ~Sampling /\ AtEnd))}

\* Each counter has the sample points behind that count.
CountInv ==
  count = [what \in Counters |-> Cardinality({s \in Behind :
             Counts(what, Replay(Sent, s[1], s[2]), Replay(rows, s[1], s[2]))})]

CompareInv == InputsInv /\ CursorInv /\ LiveInv /\ CanonicalInv /\ TouchedInv /\ CountInv

-----------------------------------------------------------------------------
(* Replaying a file.                                                       *)

\* Naturals of which something is true have a least one.
LEMMA LeastNatural ==
  ASSUME NEW T \in SUBSET Nat, T # {}
  PROVE  \E n \in T : \A m \in T : n <= m
<1> DEFINE R == {s \in Nat \X Nat : s[1] < s[2]}
<1>1. IsWellFoundedOn(R, Nat)
  BY NatLessThanWellFounded, Zenon DEF OpToRel
<1>2. PICK n \in T : \A m \in T : <<m, n>> \notin R
  BY <1>1, WFMin
<1>3. ASSUME NEW m \in T PROVE n <= m
  <2>1. <<m, n>> \in Nat \X Nat /\ ~(m < n)
    BY <1>2
  <2> QED
    BY <2>1
<1> QED
  BY <1>3

\* The book after the k-th entry of a file.
After(f, i, t, book, k) ==
  IF f[k].inst = i /\ f[k].ts <= t THEN Applied(book, f[k].change) ELSE book

\* b has the book after each of the first n entries.
IsReplay(b, f, i, t, n) ==
  /\ b = [k \in 0..n |-> b[k]]
  /\ \A k \in 0..n : b[k] = IF k = 0 THEN NoBook ELSE After(f, i, t, b[k - 1], k)

\* The first n entries can be replayed.
LEMMA PrefixReplayed ==
  ASSUME NEW f, NEW i, NEW t, NEW n \in Nat
  PROVE  \E b : IsReplay(b, f, i, t, n)
<1> DEFINE T == {m \in Nat : ~\E b : IsReplay(b, f, i, t, m)}
<1>1. SUFFICES T = {}
  BY <1>1
<1>2. SUFFICES ASSUME T # {} PROVE FALSE
  OBVIOUS
<1>3. PICK m \in T : \A l \in T : m <= l
  <2> HIDE DEF T
  <2>1. T \subseteq Nat
    BY DEF T
  <2> QED
    BY <1>2, <2>1, LeastNatural
<1>4. m # 0
  <2> DEFINE b == [k \in 0..0 |-> NoBook]
  <2>1. IsReplay(b, f, i, t, 0)
    BY DEF IsReplay
  <2> QED
    BY <2>1
<1>5. m - 1 \in Nat /\ m - 1 \notin T
  BY <1>3, <1>4
<1>6. PICK b : IsReplay(b, f, i, t, m - 1)
  BY <1>5
<1> DEFINE c == [k \in 0..m |-> IF k = m THEN After(f, i, t, b[m - 1], m) ELSE b[k]]
<1>7. IsReplay(c, f, i, t, m)
  <2>1. \A k \in 0..(m - 1) : b[k] = IF k = 0 THEN NoBook ELSE After(f, i, t, b[k - 1], k)
    BY <1>6 DEF IsReplay
  <2>2. \A k \in 0..(m - 1) : c[k] = b[k]
    BY <1>3, <1>5
  <2>3. \A k \in 0..m : c[k] = IF k = 0 THEN NoBook ELSE After(f, i, t, c[k - 1], k)
    <3> SUFFICES ASSUME NEW k \in 0..m
                 PROVE  c[k] = IF k = 0 THEN NoBook ELSE After(f, i, t, c[k - 1], k)
      OBVIOUS
    <3>1. CASE k = m
      <4>1. c[m - 1] = b[m - 1] /\ c[m] = After(f, i, t, b[m - 1], m)
        BY <1>5, <2>2
      <4> QED
        BY <1>4, <3>1, <4>1
    <3>2. CASE k # m
      <4>1. k \in 0..(m - 1)
        BY <1>5, <3>2
      <4>2. k # 0 => k - 1 \in 0..(m - 1)
        BY <4>1
      <4> HIDE DEF c
      <4> QED
        BY <2>1, <2>2, <4>1, <4>2
    <3> QED
      BY <3>1, <3>2
  <2>4. c = [k \in 0..m |-> c[k]]
    OBVIOUS
  <2> HIDE DEF c
  <2> QED
    BY <2>3, <2>4 DEF IsReplay
<1> QED
  BY <1>3, <1>7

\* Books is such a replay.
LEMMA BooksReplay ==
  ASSUME NEW f, Len(f) \in Nat, NEW i, NEW t
  PROVE  /\ Books(f, i, t)[0] = NoBook
         /\ \A k \in 1..Len(f) :
              Books(f, i, t)[k] = After(f, i, t, Books(f, i, t)[k - 1], k)
<1> DEFINE b == Books(f, i, t)
<1>1. b = [k \in 0..Len(f) |-> IF k = 0 THEN NoBook ELSE After(f, i, t, b[k - 1], k)]
  <2>1. PICK a : IsReplay(a, f, i, t, Len(f))
    BY PrefixReplayed
  <2>2. a = [k \in 0..Len(f) |-> IF k = 0 THEN NoBook ELSE After(f, i, t, a[k - 1], k)]
    BY <2>1 DEF IsReplay
  <2> QED
    BY <2>2 DEF Books, After
<1> HIDE DEF b
<1>2. \A k \in 0..Len(f) : b[k] = IF k = 0 THEN NoBook ELSE After(f, i, t, b[k - 1], k)
  BY <1>1
<1>3. b[0] = NoBook /\ \A k \in 1..Len(f) : b[k] = After(f, i, t, b[k - 1], k)
  BY <1>2
<1> QED
  BY <1>3 DEF b

\* The first n entries of two files are the same, and the same of instrument i are left
\* out.
Agree(f, g, i, t, u, n) ==
  \A k \in 1..n : f[k] = g[k] /\ (f[k].inst = i => (f[k].ts <= t <=> f[k].ts <= u))

\* They give the same book then.
LEMMA ReplaysAgree ==
  ASSUME NEW f, Len(f) \in Nat, NEW g, Len(g) \in Nat, NEW i, NEW t, NEW u,
         NEW n \in 0..Len(f), n <= Len(g), Agree(f, g, i, t, u, n)
  PROVE  Books(f, i, t)[n] = Books(g, i, u)[n]
<1> DEFINE T == {m \in 0..n : Books(f, i, t)[m] # Books(g, i, u)[m]}
<1>1. SUFFICES ASSUME T # {} PROVE FALSE
  OBVIOUS
<1>2. PICK m \in T : \A l \in T : m <= l
  <2>1. T \in SUBSET Nat
    OBVIOUS
  <2> HIDE DEF T
  <2> QED
    BY <1>1, <2>1, LeastNatural
<1>3. m # 0
  BY BooksReplay
<1>4. m \in 1..n /\ m \in 1..Len(f) /\ m \in 1..Len(g) /\ m - 1 \in 0..n /\ m - 1 \notin T
  BY <1>2, <1>3
<1>5. Books(f, i, t)[m - 1] = Books(g, i, u)[m - 1]
  BY <1>4
<1>6. /\ Books(f, i, t)[m] = After(f, i, t, Books(f, i, t)[m - 1], m)
      /\ Books(g, i, u)[m] = After(g, i, u, Books(g, i, u)[m - 1], m)
  BY <1>4, BooksReplay
<1>7. After(f, i, t, Books(f, i, t)[m - 1], m) = After(g, i, u, Books(g, i, u)[m - 1], m)
  BY <1>4, <1>5 DEF After, Agree
<1> QED
  BY <1>2, <1>6, <1>7

\* Entries left out change nothing.
LEMMA ReplayStill ==
  ASSUME NEW f, Len(f) \in Nat, NEW i, NEW t, NEW n \in 0..Len(f), NEW m \in n..Len(f),
         \A k \in (n + 1)..m : f[k].inst = i => ~(f[k].ts <= t)
  PROVE  Books(f, i, t)[m] = Books(f, i, t)[n]
<1> DEFINE T == {k \in n..m : Books(f, i, t)[k] # Books(f, i, t)[n]}
<1>1. SUFFICES ASSUME T # {} PROVE FALSE
  <2>1. m \in n..m
    OBVIOUS
  <2> QED
    BY <2>1
<1>2. PICK k \in T : \A l \in T : k <= l
  <2>1. T \in SUBSET Nat
    OBVIOUS
  <2> HIDE DEF T
  <2> QED
    BY <1>1, <2>1, LeastNatural
<1>3. k # n
  BY <1>2
<1>4. k \in (n + 1)..m /\ k \in 1..Len(f) /\ k - 1 \in n..m /\ k - 1 \notin T
  BY <1>2, <1>3
<1>5. Books(f, i, t)[k] = After(f, i, t, Books(f, i, t)[k - 1], k)
  BY <1>4, BooksReplay
<1>6. After(f, i, t, Books(f, i, t)[k - 1], k) = Books(f, i, t)[k - 1]
  BY <1>4 DEF After
<1> QED
  BY <1>2, <1>4, <1>5, <1>6

\* Of instrument i, a file f has no entries up to time t but its first n ones, which
\* are those of g, none of them later than u.
Prefix(f, g, i, t, u, n) ==
  /\ \A k \in 1..n : f[k] = g[k] /\ (f[k].inst = i => f[k].ts <= t /\ f[k].ts <= u)
  /\ \A k \in (n + 1)..Len(f) : f[k].inst = i => ~(f[k].ts <= t)

\* The book at a time is that of the entries up to it.
LEMMA ReplayOfPrefix ==
  ASSUME NEW f, Len(f) \in Nat, NEW g, Len(g) \in Nat, NEW i, NEW t, NEW u,
         NEW n \in 0..Len(f), n <= Len(g), Prefix(f, g, i, t, u, n)
  PROVE  Replay(f, i, t) = Books(g, i, u)[n]
<1>1. Books(f, i, t)[n] = Books(g, i, u)[n]
  <2>1. Agree(f, g, i, t, u, n)
    BY DEF Agree, Prefix
  <2> QED
    BY <2>1, ReplaysAgree
<1>2. Books(f, i, t)[Len(f)] = Books(f, i, t)[n]
  <2>1. Len(f) \in n..Len(f)
    OBVIOUS
  <2>2. \A k \in (n + 1)..Len(f) : f[k].inst = i => ~(f[k].ts <= t)
    BY DEF Prefix
  <2> QED
    BY <2>1, <2>2, ReplayStill
<1> QED
  BY <1>1, <1>2 DEF Replay

-----------------------------------------------------------------------------
(* The live events, sorted.                                                *)

\* Lines that can be told apart by their capture sequence.
Sortable(S) ==
  /\ IsFiniteSet(S)
  /\ \A a \in S : a.ts \in Int /\ a.seq \in Int
  /\ \A a, b \in S : a.seq = b.seq => a = b

\* s has the members of S, each once, in the exchange's order.
IsOrder(s, S) ==
  /\ Len(s) \in Nat /\ DOMAIN s = 1..Len(s)
  /\ \A k \in 1..Len(s) : s[k] \in S
  /\ \A a \in S : \E k \in 1..Len(s) : s[k] = a
  /\ \A j, k \in 1..Len(s) : s[j] = s[k] => j = k
  /\ \A j, k \in 1..Len(s) : j < k => Earlier(s[j], s[k])

\* The order is strict, and total on sortable lines.
LEMMA EarlierOrders ==
  ASSUME NEW S, Sortable(S), NEW a \in S, NEW b \in S, NEW c \in S
  PROVE  /\ ~Earlier(a, a)
         /\ Earlier(a, b) /\ Earlier(b, c) => Earlier(a, c)
         /\ a # b => Earlier(a, b) \/ Earlier(b, a)
<1>1. /\ a.ts \in Int /\ b.ts \in Int /\ c.ts \in Int
      /\ a.seq \in Int /\ b.seq \in Int /\ c.seq \in Int
      /\ a.seq = b.seq => a = b
  BY DEF Sortable
<1> QED
  BY <1>1 DEF Earlier

\* Such lines can be sorted: a line's place is the number of those before it.
LEMMA OrderExists ==
  ASSUME NEW S, Sortable(S)
  PROVE  \E s \in SetToSeqs(S) : \A j, k \in DOMAIN s : j < k => Earlier(s[j], s[k])
<1> DEFINE Below(a) == {b \in S : Earlier(b, a)}
           n == Cardinality(S)
           rank == [a \in S |-> Cardinality(Below(a)) + 1]
<1>1. IsFiniteSet(S) /\ n \in Nat
  BY FS_CardinalityType DEF Sortable
<1>2. ASSUME NEW a \in S
      PROVE  IsFiniteSet(Below(a)) /\ Cardinality(Below(a)) \in Nat /\ Cardinality(Below(a)) < n
  <2>1. Below(a) \in SUBSET S /\ a \notin Below(a)
    BY EarlierOrders
  <2> HIDE DEF Below
  <2>2. /\ IsFiniteSet(Below(a)) /\ Cardinality(Below(a)) <= n
        /\ (n = Cardinality(Below(a)) => S = Below(a))
    BY <1>1, <2>1, FS_Subset
  <2>3. Cardinality(Below(a)) \in Nat
    BY <2>2, FS_CardinalityType
  <2> QED
    BY <1>1, <2>1, <2>2, <2>3
<1>3. ASSUME NEW a \in S, NEW b \in S, Earlier(a, b)
      PROVE  Cardinality(Below(a)) < Cardinality(Below(b))
  <2>1. Below(a) \in SUBSET Below(b) /\ a \in Below(b) /\ a \notin Below(a)
    BY <1>3, EarlierOrders
  <2>2. IsFiniteSet(Below(b)) /\ Cardinality(Below(a)) \in Nat /\ Cardinality(Below(b)) \in Nat
    BY <1>2
  <2> HIDE DEF Below
  <2>3. /\ Cardinality(Below(a)) <= Cardinality(Below(b))
        /\ (Cardinality(Below(b)) = Cardinality(Below(a)) => Below(b) = Below(a))
    BY <2>1, <2>2, FS_Subset
  <2> QED
    BY <2>1, <2>2, <2>3
<1>4. rank \in [S -> 1..n] /\ \A a \in S : rank[a] = Cardinality(Below(a)) + 1
  <2> HIDE DEF Below
  <2>1. \A a \in S : Cardinality(Below(a)) + 1 \in 1..n
    BY <1>1, <1>2
  <2> QED
    BY <2>1
<1>5. \A a, b \in S : Earlier(a, b) => rank[a] < rank[b]
  <2> HIDE DEF Below, rank
  <2> QED
    BY <1>2, <1>3, <1>4
<1> HIDE DEF Below, rank, n
<1>6. \A a, b \in S : a # b => rank[a] # rank[b]
  <2>1. \A a, b \in S : a # b => Earlier(a, b) \/ Earlier(b, a)
    BY EarlierOrders
  <2> QED
    BY <1>1, <1>4, <1>5, <2>1
<1>7. rank \in Surjection(S, 1..n)
  <2>1. rank \in Injection(S, 1..n)
    BY <1>4, <1>6 DEF Injection, IsInjective
  <2>2. IsFiniteSet(1..n) /\ Cardinality(1..n) = n
    BY <1>1, FS_Interval
  <2> QED
    BY <1>1, <2>1, <2>2, FS_Injection DEF n
<1> DEFINE s == [i \in 1..n |-> CHOOSE a \in S : rank[a] = i]
<1>8. \A i \in 1..n : s[i] \in S /\ rank[s[i]] = i
  <2>1. \A i \in 1..n : \E a \in S : rank[a] = i
    BY <1>7 DEF Surjection
  <2> QED
    BY <2>1
<1>9. DOMAIN s = 1..n /\ s \in [1..n -> S]
  BY <1>8
<1> HIDE DEF s
<1>10. s \in SetToSeqs(S)
  BY <1>8, <1>9 DEF SetToSeqs, n
<1>11. ASSUME NEW i \in 1..n, NEW j \in 1..n, i < j PROVE Earlier(s[i], s[j])
  <2>1. s[i] # s[j] /\ ~(rank[s[j]] < rank[s[i]])
    BY <1>1, <1>8, <1>11
  <2> QED
    BY <1>5, <1>8, <2>1, EarlierOrders
<1> QED
  BY <1>9, <1>10, <1>11

\* What sorting gives.
LEMMA InOrderSorts ==
  ASSUME NEW S, Sortable(S)
  PROVE  IsOrder(InOrder(S), S)
<1> DEFINE s == InOrder(S)
           n == Cardinality(S)
<1>1. s \in SetToSeqs(S) /\ \A j, k \in DOMAIN s : j < k => Earlier(s[j], s[k])
  BY OrderExists DEF InOrder
<1> HIDE DEF s
<1>2. s \in [1..n -> S] /\ \A j, k \in 1..n : j # k => s[j] # s[k]
  BY <1>1 DEF SetToSeqs
<1>3. IsFiniteSet(S) /\ n \in Nat
  BY FS_CardinalityType DEF Sortable
<1>4. Len(s) = n /\ DOMAIN s = 1..n
  <2> HIDE DEF n
  <2>1. s \in Seq(S)
    BY <1>2, <1>3, SeqDef
  <2> QED
    BY <1>2, <1>3, <2>1
<1>5. s \in Surjection(1..n, S)
  <2>1. s \in Injection(1..n, S)
    BY <1>2 DEF Injection, IsInjective
  <2>2. IsFiniteSet(1..n) /\ Cardinality(1..n) = n
    BY <1>3, FS_Interval
  <2> QED
    BY <1>3, <2>1, <2>2, FS_Injection
<1>6. \A a \in S : \E k \in 1..n : s[k] = a
  BY <1>5 DEF Surjection
<1> HIDE DEF n
<1> QED
  BY <1>1, <1>2, <1>3, <1>4, <1>6 DEF IsOrder, s

\* Sorting the lines up to a time gives the beginning of all lines sorted.
LEMMA OrderOfPrefix ==
  ASSUME NEW S, Sortable(S), NEW t \in Int, NEW e, NEW s,
         IsOrder(e, {a \in S : a.ts <= t}), IsOrder(s, S)
  PROVE  /\ Len(e) <= Len(s)
         /\ \A k \in 1..Len(e) : e[k] = s[k]
         /\ \A k \in (Len(e) + 1)..Len(s) : ~(s[k].ts <= t)
<1> DEFINE E == {a \in S : a.ts <= t}
           T == {k \in 1..Len(e) : k > Len(s) \/ e[k] # s[k]}
<1>0. Len(e) \in Nat /\ Len(s) \in Nat
  BY DEF IsOrder
<1>1. T = {}
  <2> SUFFICES ASSUME T # {} PROVE FALSE
    OBVIOUS
  <2>1. PICK k \in T : \A l \in T : k <= l
    <3>1. T \in SUBSET Nat
      BY <1>0
    <3> HIDE DEF T
    <3> QED
      BY <3>1, LeastNatural
  <2>2. /\ k \in 1..Len(e) /\ e[k] \in E /\ e[k] \in S
        /\ \A l \in 1..(k - 1) : l \in 1..Len(e) /\ l \in 1..Len(s) /\ e[l] = s[l]
    <3>1. k \in 1..Len(e) /\ e[k] \in E /\ e[k] \in S
      BY DEF IsOrder
    <3>2. ASSUME NEW l \in 1..(k - 1)
          PROVE  l \in 1..Len(e) /\ l \in 1..Len(s) /\ e[l] = s[l]
      <4>1. l \in 1..Len(e) /\ l \notin T
        BY <1>0, <2>1, <3>1
      <4> QED
        BY <1>0, <4>1
    <3> QED
      BY <3>1, <3>2
  <2>3. PICK j \in 1..Len(s) : s[j] = e[k]
    BY <2>2 DEF IsOrder
  <2>4. j > k
    <3>1. j # k
      BY <1>0, <2>1, <2>3
    <3>2. ~(j < k)
      <4>1. j < k => e[j] = e[k] /\ j \in 1..Len(e)
        BY <1>0, <2>2, <2>3
      <4> QED
        BY <1>0, <2>2, <4>1 DEF IsOrder
    <3> QED
      BY <1>0, <2>2, <3>1, <3>2
  <2>5. k \in 1..Len(s) /\ e[k] # s[k]
    BY <1>0, <2>1, <2>4
  <2>6. Earlier(s[k], e[k]) /\ s[k] \in S
    BY <1>0, <2>3, <2>4, <2>5 DEF IsOrder
  <2>7. s[k] \in E
    <3>1. s[k].ts \in Int /\ e[k].ts \in Int /\ e[k].ts <= t
      BY <2>2, <2>6 DEF Sortable
    <3> QED
      BY <2>6, <3>1 DEF Earlier
  <2>8. PICK l \in 1..Len(e) : e[l] = s[k]
    BY <2>7 DEF IsOrder
  <2>9. l > k
    <3>1. l # k
      BY <2>5, <2>8
    <3>2. ~(l < k)
      <4>1. l < k => s[l] = s[k] /\ l \in 1..Len(s)
        BY <1>0, <2>2, <2>8
      <4> QED
        BY <1>0, <2>5, <4>1 DEF IsOrder
    <3> QED
      BY <1>0, <2>2, <3>1, <3>2
  <2>10. Earlier(e[k], s[k])
    BY <1>0, <2>2, <2>8, <2>9 DEF IsOrder
  <2>11. ~Earlier(e[k], e[k]) /\ (Earlier(e[k], s[k]) /\ Earlier(s[k], e[k]) => Earlier(e[k], e[k]))
    BY <2>2, <2>6, EarlierOrders
  <2> QED
    BY <2>6, <2>10, <2>11
<1>2. \A k \in 1..Len(e) : k <= Len(s) /\ e[k] = s[k]
  BY <1>0, <1>1
<1>3. Len(e) <= Len(s)
  <2>1. Len(e) = 0 \/ Len(e) \in 1..Len(e)
    BY <1>0
  <2> QED
    BY <1>0, <1>2, <2>1
<1>4. ASSUME NEW k \in (Len(e) + 1)..Len(s), s[k].ts <= t PROVE FALSE
  <2>1. k \in 1..Len(s) /\ s[k] \in E
    BY <1>0, <1>4 DEF IsOrder
  <2>2. PICK l \in 1..Len(e) : e[l] = s[k]
    BY <2>1 DEF IsOrder
  <2>3. l \in 1..Len(s) /\ s[l] = s[k] /\ l # k
    BY <1>0, <1>2, <2>2
  <2> QED
    BY <2>1, <2>3 DEF IsOrder
<1> QED
  BY <1>2, <1>3, <1>4

-----------------------------------------------------------------------------
(* The files of a comparison.                                              *)

\* The slice.
LEMMA SliceFacts ==
  ASSUME InputsInv
  PROVE  /\ Len(rows) \in Nat /\ Len(rows) > 0 /\ DOMAIN rows = 1..Len(rows)
         /\ \A k \in 1..Len(rows) : rows[k].ts \in Int /\ rows[k] # None
                                    /\ rows[k].inst \in Instruments
         /\ \A j, k \in 1..Len(rows) : j < k => rows[j].ts <= rows[k].ts
         /\ MinTs \in Int /\ MaxTs \in Int
<1>1. /\ rows \in Seq(Row) /\ rows # <<>>
      /\ \A j, k \in DOMAIN rows : j < k => rows[j].ts <= rows[k].ts
  BY SlicesAssumption DEF InputsInv
<1>2. Len(rows) \in Nat /\ Len(rows) > 0 /\ DOMAIN rows = 1..Len(rows)
  BY <1>1
<1>3. \A k \in 1..Len(rows) : rows[k] \in Row
  BY <1>1, <1>2
<1>4. \A k \in 1..Len(rows) : rows[k].ts \in Int /\ rows[k].inst \in Instruments
  BY <1>3 DEF Row
<1>5. \A k \in 1..Len(rows) : rows[k] # None
  BY <1>3, NoneAssumption
<1>6. MinTs \in Int /\ MaxTs \in Int
  BY <1>2, <1>4 DEF MinTs, MaxTs
<1> QED
  BY <1>1, <1>2, <1>4, <1>5, <1>6

\* The lines of a capture can be sorted.
LEMMA LinesSortable ==
  ASSUME InputsInv
  PROVE  /\ Sortable(Entries(lines))
         /\ \A t \in Int : Sortable({line \in Entries(lines) : line.ts <= t})
         /\ \A a \in Entries(lines) : a.ts \in Int /\ a.inst \in Instruments
<1> DEFINE S == Entries(lines)
<1>1. /\ lines \in Seq(Line)
      /\ \A j, k \in DOMAIN lines : lines[j].seq = lines[k].seq => j = k
  BY CapturesAssumption DEF InputsInv
<1>2. Len(lines) \in Nat /\ DOMAIN lines = 1..Len(lines)
      /\ \A k \in 1..Len(lines) : lines[k] \in Line
  BY <1>1
<1>3. S = {lines[k] : k \in 1..Len(lines)}
  BY <1>2 DEF Entries
<1>4. IsFiniteSet(S)
  <2> DEFINE f == [k \in 1..Len(lines) |-> lines[k]]
  <2>1. f \in Surjection(1..Len(lines), S)
    BY <1>3 DEF Surjection
  <2>2. IsFiniteSet(1..Len(lines))
    <3>1. 1 \in Int /\ Len(lines) \in Int
      BY <1>2
    <3> QED
      BY <3>1, FS_Interval
  <2> QED
    BY <2>1, <2>2, FS_Surjection
<1>5. \A a \in S : a.ts \in Int /\ a.seq \in Int /\ a.inst \in Instruments
  BY <1>2, <1>3 DEF Line
<1>6. \A a, b \in S : a.seq = b.seq => a = b
  BY <1>1, <1>2, <1>3
<1>7. Sortable(S)
  BY <1>4, <1>5, <1>6 DEF Sortable
<1> HIDE DEF S
<1>8. ASSUME NEW t \in Int PROVE Sortable({line \in S : line.ts <= t})
  <2>1. IsFiniteSet({line \in S : line.ts <= t})
    BY <1>4, FS_Subset
  <2> QED
    BY <1>5, <1>6, <2>1 DEF Sortable
<1> QED
  BY <1>5, <1>7, <1>8 DEF S

\* The events are the beginning of what the exchange sent.
LEMMA EventFacts ==
  ASSUME InputsInv
  PROVE  /\ Len(events) \in Nat /\ DOMAIN events = 1..Len(events)
         /\ Len(Sent) \in Nat /\ DOMAIN Sent = 1..Len(Sent)
         /\ \A k \in 1..Len(events) : /\ events[k].ts \in Int /\ events[k].ts <= MaxTs
                                      /\ events[k].inst \in Instruments
         /\ \A j, k \in 1..Len(events) : j < k => events[j].ts <= events[k].ts
         /\ Len(events) <= Len(Sent)
         /\ \A k \in 1..Len(events) : events[k] = Sent[k]
         /\ \A k \in (Len(events) + 1)..Len(Sent) : Sent[k].ts \in Int /\ ~(Sent[k].ts <= MaxTs)
<1> DEFINE S == Entries(lines)
           E == {line \in S : line.ts <= MaxTs}
<1>1. MaxTs \in Int /\ Sortable(S) /\ Sortable(E)
      /\ \A a \in S : a.ts \in Int /\ a.inst \in Instruments
  BY SliceFacts, LinesSortable
<1>2. events = InOrder(E) /\ Sent = InOrder(S)
  BY DEF InputsInv, Loaded, Sent
<1> HIDE DEF S
<1>3. IsOrder(events, E) /\ IsOrder(Sent, S)
  BY <1>1, <1>2, InOrderSorts
<1>4. /\ Len(events) <= Len(Sent)
      /\ \A k \in 1..Len(events) : events[k] = Sent[k]
      /\ \A k \in (Len(events) + 1)..Len(Sent) : ~(Sent[k].ts <= MaxTs)
  BY <1>1, <1>3, OrderOfPrefix
<1>5. /\ Len(events) \in Nat /\ DOMAIN events = 1..Len(events)
      /\ Len(Sent) \in Nat /\ DOMAIN Sent = 1..Len(Sent)
  BY <1>3 DEF IsOrder
<1>6. \A k \in 1..Len(events) : /\ events[k].ts \in Int /\ events[k].ts <= MaxTs
                                /\ events[k].inst \in Instruments
  BY <1>1, <1>3 DEF IsOrder
<1>7. ASSUME NEW j \in 1..Len(events), NEW k \in 1..Len(events), j < k
      PROVE  events[j].ts <= events[k].ts
  <2>1. Earlier(events[j], events[k])
    BY <1>3, <1>7 DEF IsOrder
  <2> QED
    BY <1>6, <2>1 DEF Earlier
<1>8. \A k \in (Len(events) + 1)..Len(Sent) : Sent[k].ts \in Int
  BY <1>1, <1>3, <1>5 DEF IsOrder
<1> QED
  BY <1>4, <1>5, <1>6, <1>7, <1>8

\* A sample point is a book an event touches at a time the slice covers.
LEMMA PointsAreEvents ==
  ASSUME InputsInv, NEW s
  PROVE  s \in SamplePoints <=>
           \E k \in 1..Len(events) : /\ MinTs <= events[k].ts
                                     /\ s = <<events[k].inst, events[k].ts>>
<1>1. ASSUME s \in SamplePoints
      PROVE  \E k \in 1..Len(events) : /\ MinTs <= events[k].ts
                                       /\ s = <<events[k].inst, events[k].ts>>
  <2>1. s \in Captured \X (MinTs..MaxTs) /\ \E k \in DOMAIN Sent : s = <<Sent[k].inst, Sent[k].ts>>
    BY <1>1 DEF SamplePoints
  <2>2. PICK k \in 1..Len(Sent) : s = <<Sent[k].inst, Sent[k].ts>>
    BY <2>1, EventFacts
  <2>3. Sent[k].ts \in MinTs..MaxTs
    BY <2>1, <2>2
  <2>4. MinTs <= Sent[k].ts /\ Sent[k].ts <= MaxTs
    BY <2>3, SliceFacts
  <2>5. k \in 1..Len(events)
    BY <2>4, EventFacts
  <2> QED
    BY <2>2, <2>4, <2>5, EventFacts
<1>2. ASSUME NEW k \in 1..Len(events), MinTs <= events[k].ts,
             s = <<events[k].inst, events[k].ts>>
      PROVE  s \in SamplePoints
  <2>1. events[k].inst \in Captured
    BY EventFacts DEF Captured
  <2>2. events[k].ts \in MinTs..MaxTs
    BY <1>2, EventFacts, SliceFacts
  <2>3. k \in DOMAIN Sent /\ Sent[k] = events[k]
    BY EventFacts
  <2> QED
    BY <1>2, <2>1, <2>2, <2>3 DEF SamplePoints
<1> QED
  BY <1>1, <1>2

\* The capture has finitely many instruments.
LEMMA CapturedFinite ==
  ASSUME InputsInv
  PROVE  IsFiniteSet(Captured)
<1> DEFINE f == [k \in 1..Len(events) |-> events[k].inst]
<1>1. f \in Surjection(1..Len(events), Captured)
  BY EventFacts DEF Surjection, Captured
<1>2. IsFiniteSet(1..Len(events))
  <2>1. 1 \in Int /\ Len(events) \in Int
    BY EventFacts
  <2> QED
    BY <2>1, FS_Interval
<1> QED
  BY <1>1, <1>2, FS_Surjection

\* There are finitely many sample points.
LEMMA PointsFinite ==
  ASSUME InputsInv
  PROVE  IsFiniteSet(SamplePoints)
<1>1. IsFiniteSet(MinTs..MaxTs)
  <2>1. MinTs \in Int /\ MaxTs \in Int
    BY SliceFacts
  <2> QED
    BY <2>1, FS_Interval
<1>2. IsFiniteSet(Captured \X (MinTs..MaxTs))
  BY <1>1, CapturedFinite, FS_Product
<1>3. SamplePoints \subseteq Captured \X (MinTs..MaxTs)
  BY DEF SamplePoints
<1> QED
  BY <1>2, <1>3, FS_Subset


-----------------------------------------------------------------------------
(* Steps of the comparison.                                                *)

\* No step changes the files.
LEMMA FilesKept ==
  ASSUME [CompareNext]_compareVars
  PROVE  rows' = rows /\ lines' = lines /\ events' = events
BY DEF CompareNext, FetchBatch, FileEnd, TakeRow, LiveEvent, AdvanceRow, Sample, Report, inputs,
       compareVars

\* Nor what they tell.
LEMMA FilesTellTheSame ==
  ASSUME InputsInv, [CompareNext]_compareVars
  PROVE  /\ InputsInv'
         /\ MinTs' = MinTs /\ MaxTs' = MaxTs /\ Captured' = Captured /\ Sent' = Sent
         /\ SamplePoints' = SamplePoints
<1>1. rows' = rows /\ lines' = lines /\ events' = events
  BY FilesKept
<1>2. MinTs' = MinTs /\ MaxTs' = MaxTs /\ Captured' = Captured /\ Sent' = Sent
  BY <1>1 DEF MinTs, MaxTs, Captured, Sent
<1>3. SamplePoints' = SamplePoints
  BY <1>2 DEF SamplePoints
<1> QED
  BY <1>1, <1>2, <1>3 DEF InputsInv

\* A step within the millisecond keeps what is behind the comparison.
LEMMA SameMoment ==
  ASSUME InputsInv, [CompareNext]_compareVars, idx' = idx, Sampling' = Sampling
  PROVE  Ts' = Ts /\ AtEnd' = AtEnd /\ Now' = Now /\ Behind' = Behind
<1>1. events' = events /\ SamplePoints' = SamplePoints
  BY FilesKept, FilesTellTheSame
<1>2. Ts' = Ts
  BY <1>1 DEF Ts
<1>3. AtEnd' = AtEnd /\ Now' = Now
  BY <1>1, <1>2 DEF AtEnd, Now
<1> HIDE DEF AtEnd, Sampling
<1>4. Behind' = Behind
  BY <1>1, <1>2, <1>3 DEF Behind
<1> QED
  BY <1>2, <1>3, <1>4

\* Counters that are not touched stay right while nothing new is behind.
LEMMA CountKept ==
  ASSUME InputsInv, [CompareNext]_compareVars, CountInv, Behind' = Behind, count' = count
  PROVE  CountInv'
<1>1. rows' = rows /\ Sent' = Sent
  BY FilesKept, FilesTellTheSame
<1> QED
  BY <1>1 DEF CountInv

\* Where the files are at.
LEMMA Bounds ==
  ASSUME InputsInv, CursorInv
  PROVE  /\ Len(rows) \in Nat /\ Len(events) \in Nat
         /\ idx \in Nat /\ fetched \in Nat /\ next \in Nat
         /\ next <= fetched /\ fetched <= Len(rows) /\ idx <= Len(events)
<1>1. Len(rows) \in Nat /\ Len(events) \in Nat
  BY SliceFacts, EventFacts
<1>2. idx \in 0..Len(events) /\ fetched \in 0..Len(rows) /\ next \in 0..fetched
  BY DEF CursorInv
<1> QED
  BY <1>1, <1>2

\* The cursor fetches a batch, takes a row, or meets the end of the file.
LEMMA SeekKeeps ==
  ASSUME CompareInv, FetchBatch \/ FileEnd \/ TakeRow
  PROVE  CompareInv'
<1> USE DEF CompareInv
<1>1. [CompareNext]_compareVars
  BY DEF CompareNext
<1>2. /\ rows' = rows /\ events' = events /\ MaxTs' = MaxTs /\ MinTs' = MinTs
      /\ Captured' = Captured /\ InputsInv'
  BY <1>1, FilesKept, FilesTellTheSame
<1>3. /\ idx' = idx /\ touched' = touched /\ live' = live /\ canonical' = canonical
      /\ count' = count /\ pc = "seek"
  BY DEF FetchBatch, FileEnd, TakeRow
<1>4. pc' = "seek" \/ pc' = Resume
  BY DEF FetchBatch, FileEnd, TakeRow
<1>5. Sampling' = Sampling
  BY <1>3, <1>4, EventFacts DEF Sampling, Resume, CursorInv
<1>6. Ts' = Ts /\ AtEnd' = AtEnd /\ Now' = Now /\ Behind' = Behind
  BY <1>1, <1>3, <1>5, SameMoment
<1>7. LiveInv'
  BY <1>2, <1>3 DEF LiveInv
<1>8. TouchedInv'
  BY <1>2, <1>3, <1>5, <1>6 DEF TouchedInv
<1>9. CountInv'
  BY <1>1, <1>3, <1>6, CountKept
<1>10. /\ Len(rows) \in Nat /\ Len(events) \in Nat
       /\ idx \in Nat /\ fetched \in Nat /\ next \in Nat
       /\ next <= fetched /\ fetched <= Len(rows) /\ idx <= Len(events)
  BY Bounds
<1>11. CursorInv'
  <2>1. pc' # "seek" => pc' = IF idx' = 0 THEN "live" ELSE "advance"
    BY <1>3, <1>4 DEF Resume
  <2>2. CASE FetchBatch
    <3>1. fetched' \in 0..Len(rows) /\ fetched' >= fetched
      BY <1>10, <2>2, BatchAssumption DEF FetchBatch, Smaller
    <3> QED
      BY <1>2, <1>3, <1>10, <2>1, <2>2, <3>1 DEF FetchBatch, CursorInv
  <2>3. CASE FileEnd
    BY <1>2, <1>3, <1>10, <2>1, <2>3 DEF FileEnd, CursorInv
  <2>4. CASE TakeRow
    <3>1. next' \in 0..fetched /\ next' > 0 /\ next' = next + 1 /\ fetched' = fetched
      BY <1>10, <2>4 DEF TakeRow
    <3>2. pc' # "seek" => current' = rows[next'] /\ rows[next'].inst \in Captured
                          /\ current' # None
      <4>1. next' \in 1..Len(rows)
        BY <1>10, <3>1
      <4> QED
        BY <1>3, <2>4, <3>1, <4>1, SliceFacts DEF TakeRow
    <3> QED
      BY <1>2, <1>3, <1>10, <2>1, <3>1, <3>2 DEF CursorInv
  <2> QED
    BY <2>2, <2>3, <2>4
<1>12. CanonicalInv'
  <2>1. Pos = next
    BY <1>3 DEF Pos
  <2>2. CASE Pos' = Pos
    BY <1>2, <1>3, <1>6, <2>2 DEF CanonicalInv
  <2>3. CASE Pos' # Pos
    <3>1. TakeRow
      BY <1>3, <2>1, <2>3 DEF FetchBatch, FileEnd, Pos
    <3>2. next + 1 \in 1..Len(rows) /\ next' = next + 1
      BY <1>10, <3>1 DEF TakeRow
    <3>3. rows[next + 1].inst \notin Captured
      <4>1. ASSUME rows[next + 1].inst \in Captured PROVE FALSE
        <5>1. current' = rows[next + 1] /\ pc' = Resume /\ current' # None
          BY <3>1, <3>2, <4>1, SliceFacts DEF TakeRow
        <5>2. Pos' = next
          BY <1>10, <3>2, <5>1 DEF Pos, Resume
        <5> QED
          BY <2>1, <2>3, <5>2
      <4> QED
        BY <4>1
    <3>4. pc' = "seek" /\ Pos' = next + 1
      BY <1>3, <3>1, <3>2, <3>3 DEF TakeRow, Pos
    <3>5. ASSUME NEW i \in Captured
          PROVE  Books(rows, i, MaxTs)[next + 1] = Books(rows, i, MaxTs)[next]
      <4>1. Books(rows, i, MaxTs)[next + 1] = After(rows, i, MaxTs, Books(rows, i, MaxTs)[next], next + 1)
        BY <1>10, <3>2, BooksReplay
      <4> QED
        BY <3>3, <4>1 DEF After
    <3>6. \A i \in Captured : canonical[i] = Books(rows, i, MaxTs)[next + 1]
      BY <2>1, <3>5 DEF CanonicalInv
    <3>7. ASSUME NEW k \in 1..(next + 1), rows[k].inst \in Captured
          PROVE  idx > 0 /\ rows[k].ts <= Ts
      <4>1. k \in 1..next
        BY <1>10, <3>3, <3>7
      <4> QED
        BY <2>1, <3>7, <4>1 DEF CanonicalInv
    <3> QED
      BY <1>2, <1>3, <1>6, <3>4, <3>6, <3>7 DEF CanonicalInv
  <2> QED
    BY <2>2, <2>3
<1> QED
  BY <1>2, <1>7, <1>8, <1>9, <1>11, <1>12


\* While live events are applied, the sample points behind are those before the
\* millisecond of the next event.
LEMMA BehindNextEvent ==
  ASSUME CompareInv, pc = "live", idx < Len(events)
  PROVE  Behind = {s \in SamplePoints : s[2] < events[idx + 1].ts}
<1> USE DEF CompareInv
<1>1. ~Sampling
  BY DEF Sampling
<1>2. /\ idx \in Nat /\ Len(events) \in Nat /\ idx + 1 \in 1..Len(events)
      /\ idx > 0 => idx \in 1..Len(events)
  BY Bounds
<1>3. /\ \A k \in 1..Len(events) : events[k].ts \in Int
      /\ \A j, k \in 1..Len(events) : j < k => events[j].ts <= events[k].ts
  BY EventFacts
<1>4. ASSUME NEW s \in SamplePoints
      PROVE  (idx > 0 /\ (s[2] < Ts \/ (s[2] = Ts /\ ~Sampling /\ AtEnd)))
               <=> s[2] < events[idx + 1].ts
  <2>1. PICK k \in 1..Len(events) : s = <<events[k].inst, events[k].ts>>
    BY PointsAreEvents
  <2>2. s[2] = events[k].ts /\ s[2] \in Int
    BY <1>3, <2>1
  <2>3. events[idx + 1].ts \in Int
    BY <1>2, <1>3
  <2>4. CASE idx = 0
    <3>1. events[1].ts <= events[k].ts
      BY <1>2, <1>3, <2>4
    <3> QED
      BY <2>2, <2>3, <2>4, <3>1
  <2>5. CASE idx > 0
    <3>1. Ts = events[idx].ts /\ Ts \in Int /\ Ts <= events[idx + 1].ts
      BY <1>2, <1>3, <2>5 DEF Ts
    <3>2. k <= idx => s[2] <= Ts
      BY <1>2, <1>3, <2>2, <2>5 DEF Ts
    <3>3. k > idx => events[idx + 1].ts <= s[2]
      BY <1>2, <1>3, <2>2
    <3>4. k \in Int /\ idx \in Int
      BY <1>2
    <3>5. CASE AtEnd
      <4>1. Ts < events[idx + 1].ts
        BY <1>2, <2>3, <3>1, <3>5 DEF AtEnd
      <4> QED
        BY <1>1, <2>2, <2>3, <2>5, <3>1, <3>2, <3>3, <3>4, <3>5, <4>1
    <3>6. CASE ~AtEnd
      <4>1. events[idx + 1].ts = Ts
        BY <3>6 DEF AtEnd
      <4> QED
        BY <2>5, <3>6, <4>1
    <3> QED
      BY <3>5, <3>6
  <2> QED
    BY <1>2, <2>4, <2>5
<1> HIDE DEF Sampling, AtEnd
<1> QED
  BY <1>4 DEF Behind

\* A live event is applied.
LEMMA LiveEventKeeps ==
  ASSUME CompareInv, LiveEvent
  PROVE  CompareInv'
<1> USE DEF CompareInv
<1> DEFINE e == events[idx + 1]
           last == idx + 2 > Len(events) \/ events[idx + 2].ts # e.ts
<1>1. [CompareNext]_compareVars
  BY DEF CompareNext
<1>2. /\ rows' = rows /\ events' = events /\ MaxTs' = MaxTs /\ MinTs' = MinTs
      /\ Captured' = Captured /\ SamplePoints' = SamplePoints /\ InputsInv'
  BY <1>1, FilesKept, FilesTellTheSame
<1>3. /\ pc = "live" /\ idx < Len(events) /\ idx' = idx + 1
      /\ fetched' = fetched /\ next' = next /\ current' = current
      /\ canonical' = canonical /\ count' = count
      /\ live' = [live EXCEPT ![e.inst] = Applied(@, e.change)]
      /\ touched' = IF last /\ e.ts < MinTs THEN {} ELSE touched \cup {e.inst}
      /\ pc' = IF last /\ e.ts >= MinTs THEN "advance" ELSE "live"
  BY DEF LiveEvent, cursor
<1>4. /\ Len(rows) \in Nat /\ Len(events) \in Nat /\ idx \in Nat /\ idx + 1 \in 1..Len(events)
      /\ fetched \in Nat /\ next \in Nat /\ next <= fetched /\ fetched <= Len(rows)
  BY <1>3, Bounds
<1>5. /\ \A k \in 1..Len(events) : /\ events[k].ts \in Int /\ events[k].ts <= MaxTs
                                   /\ events[k].inst \in Instruments
      /\ \A j, k \in 1..Len(events) : j < k => events[j].ts <= events[k].ts
  BY EventFacts
<1>6. e.ts \in Int /\ e.ts <= MaxTs /\ e.inst \in Instruments /\ MinTs \in Int
  BY <1>4, <1>5, SliceFacts
<1>7. Ts' = e.ts /\ (AtEnd' <=> last)
  <2>1. Ts' = e.ts
    BY <1>2, <1>3 DEF Ts
  <2>2. AtEnd' <=> idx + 1 = Len(events) \/ events[idx + 1 + 1].ts # e.ts
    BY <1>2, <1>3, <2>1 DEF AtEnd
  <2>3. idx + 1 + 1 = idx + 2 /\ (idx + 2 > Len(events) <=> idx + 1 = Len(events))
    BY <1>4
  <2> QED
    BY <2>1, <2>2, <2>3
<1>8. Sampling' <=> last /\ e.ts >= MinTs
  BY <1>3, <1>4 DEF Sampling
<1> HIDE DEF e, last
<1>9. ~Sampling
  BY <1>3 DEF Sampling
<1>10. CursorInv'
  BY <1>2, <1>3, <1>4 DEF CursorInv
<1>11. LiveInv'
  <2>1. ASSUME NEW i \in Instruments
        PROVE  live'[i] = Books(events, i, MaxTs)[idx + 1]
    <3>1. Books(events, i, MaxTs)[idx + 1]
            = After(events, i, MaxTs, Books(events, i, MaxTs)[idx], idx + 1)
      <4>1. (idx + 1) - 1 = idx
        BY <1>4
      <4> QED
        BY <1>4, <4>1, BooksReplay
    <3>2. live[i] = Books(events, i, MaxTs)[idx]
      BY DEF LiveInv
    <3>3. live'[i] = IF i = e.inst THEN Applied(live[i], e.change) ELSE live[i]
      <4>1. DOMAIN live = Instruments
        BY DEF LiveInv
      <4> QED
        BY <1>3, <4>1
    <3> QED
      BY <1>6, <3>1, <3>2, <3>3 DEF After, e
  <2>2. live' = [i \in Instruments |-> live'[i]]
    BY <1>3 DEF LiveInv
  <2> QED
    BY <1>2, <1>3, <2>1, <2>2 DEF LiveInv
<1>12. CanonicalInv'
  <2>1. Pos' = Pos
    BY <1>3 DEF Pos
  <2>2. ASSUME NEW k \in 1..Pos, rows[k].inst \in Captured
        PROVE  idx + 1 > 0 /\ rows[k].ts <= e.ts
    <3>1. idx > 0 /\ rows[k].ts <= Ts
      BY <2>2 DEF CanonicalInv
    <3>2. Ts \in Int /\ Ts <= e.ts
      BY <1>4, <1>5, <3>1 DEF Ts, e
    <3>3. rows[k].ts \in Int
      <4>1. k \in 1..Len(rows)
        BY <1>4 DEF Pos
      <4> QED
        BY <4>1, SliceFacts
    <3> QED
      BY <1>4, <1>6, <3>1, <3>2, <3>3
  <2> QED
    BY <1>2, <1>3, <1>7, <2>1, <2>2 DEF CanonicalInv
<1>13. TouchedInv'
  <2>1. Now' = touched \cup {e.inst}
    <3>1. Now' = {events[k].inst : k \in {k \in 1..(idx + 1) : events[k].ts = e.ts}}
      BY <1>2, <1>3, <1>7 DEF Now
    <3>2. touched = {events[k].inst : k \in {k \in 1..idx : events[k].ts = e.ts}}
      <4>1. CASE idx = 0
        BY <4>1 DEF TouchedInv
      <4>2. CASE idx > 0 /\ AtEnd
        <5>1. touched = {}
          BY <1>9, <4>2 DEF TouchedInv
        <5>2. ASSUME NEW k \in 1..idx PROVE events[k].ts # e.ts
          <6>1. idx \in 1..Len(events) /\ k \in 1..Len(events)
            BY <1>4, <4>2
          <6>2. events[k].ts <= Ts /\ events[k].ts \in Int /\ Ts \in Int
            BY <1>4, <1>5, <6>1 DEF Ts
          <6>3. Ts <= e.ts /\ Ts # e.ts
            BY <1>3, <1>4, <1>5, <4>2, <6>1 DEF Ts, e, AtEnd
          <6> QED
            BY <1>6, <6>2, <6>3
        <5> QED
          BY <5>1, <5>2
      <4>3. CASE idx > 0 /\ ~AtEnd
        <5>1. touched = Now
          BY <1>4, <4>3 DEF TouchedInv
        <5>2. e.ts = Ts
          BY <4>3 DEF AtEnd, e
        <5> QED
          BY <5>1, <5>2 DEF Now
      <4> QED
        BY <1>4, <4>1, <4>2, <4>3
    <3>3. \A k : k \in 1..(idx + 1) <=> k \in 1..idx \/ k = idx + 1
      BY <1>4
    <3> QED
      BY <3>1, <3>2, <3>3 DEF e
  <2>2. touched' = IF idx' = 0 \/ (~Sampling' /\ AtEnd') THEN {} ELSE Now'
    <3>1. idx' # 0 /\ (~Sampling' /\ AtEnd' <=> last /\ e.ts < MinTs)
      BY <1>3, <1>4, <1>6, <1>7, <1>8
    <3> QED
      BY <1>3, <2>1, <3>1
  <2>3. Sampling' => AtEnd' /\ MinTs' <= Ts'
    BY <1>2, <1>6, <1>7, <1>8
  <2> QED
    BY <2>2, <2>3 DEF TouchedInv
<1>14. CountInv'
  <2>1. Behind = {s \in SamplePoints : s[2] < e.ts}
    BY <1>3, BehindNextEvent DEF e
  <2>2. ASSUME NEW s \in SamplePoints
        PROVE  (idx' > 0 /\ (s[2] < Ts' \/ (s[2] = Ts' /\ ~Sampling' /\ AtEnd'))) <=> s[2] < e.ts
    <3>1. PICK k \in 1..Len(events) : MinTs <= events[k].ts /\ s = <<events[k].inst, events[k].ts>>
      BY PointsAreEvents
    <3>2. s[2] \in Int /\ MinTs <= s[2]
      BY <1>5, <3>1
    <3>3. s[2] = e.ts => ~(~Sampling' /\ AtEnd')
      BY <1>6, <1>7, <1>8, <3>2
    <3>4. idx' > 0
      BY <1>3, <1>4
    <3> QED
      BY <1>7, <3>3, <3>4
  <2>3. Behind' = {s \in SamplePoints : s[2] < e.ts}
    <3>1. Behind' = {s \in SamplePoints :
                       idx' > 0 /\ (s[2] < Ts' \/ (s[2] = Ts' /\ ~Sampling' /\ AtEnd'))}
      BY <1>2 DEF Behind
    <3> HIDE DEF Sampling, AtEnd
    <3> QED
      BY <2>2, <3>1
  <2> QED
    BY <1>1, <1>3, <2>1, <2>3, CountKept
<1> QED
  BY <1>2, <1>10, <1>11, <1>12, <1>13, <1>14


\* The cursor's row is applied.
LEMMA AdvanceKeeps ==
  ASSUME CompareInv, AdvanceRow
  PROVE  CompareInv'
<1> USE DEF CompareInv
<1>1. [CompareNext]_compareVars
  BY DEF CompareNext
<1>2. /\ rows' = rows /\ events' = events /\ MaxTs' = MaxTs /\ MinTs' = MinTs
      /\ Captured' = Captured /\ InputsInv'
  BY <1>1, FilesKept, FilesTellTheSame
<1>3. /\ pc = "advance" /\ pc' = "seek" /\ Due
      /\ idx' = idx /\ touched' = touched /\ live' = live /\ count' = count
      /\ fetched' = fetched /\ next' = next /\ current' = current
      /\ canonical' = [canonical EXCEPT ![current.inst] = Applied(@, current.change)]
  BY DEF AdvanceRow, cursor
<1>4. /\ Len(rows) \in Nat /\ Len(events) \in Nat
      /\ idx \in Nat /\ fetched \in Nat /\ next \in Nat
      /\ next <= fetched /\ fetched <= Len(rows) /\ idx <= Len(events)
  BY Bounds
<1>5. /\ idx > 0 /\ next > 0 /\ current = rows[next] /\ current # None
      /\ current.inst \in Captured /\ current.ts <= Ts
  BY <1>3 DEF CursorInv, Due
<1>6. Sampling' = Sampling
  BY <1>3, <1>5 DEF Sampling
<1>7. Ts' = Ts /\ AtEnd' = AtEnd /\ Now' = Now /\ Behind' = Behind
  BY <1>1, <1>3, <1>6, SameMoment
<1>8. CursorInv'
  BY <1>2, <1>3 DEF CursorInv
<1>9. LiveInv'
  BY <1>2, <1>3 DEF LiveInv
<1>10. TouchedInv'
  BY <1>2, <1>3, <1>6, <1>7 DEF TouchedInv
<1>11. CountInv'
  BY <1>1, <1>3, <1>7, CountKept
<1>12. CanonicalInv'
  <2>1. Pos = next - 1 /\ Pos' = next /\ next \in 1..Len(rows)
    BY <1>3, <1>4, <1>5 DEF Pos
  <2>2. rows[next].ts <= MaxTs
    <3>1. next < Len(rows) => rows[next].ts <= rows[Len(rows)].ts
      <4>1. Len(rows) \in 1..Len(rows)
        BY <1>4, <2>1
      <4> QED
        BY <2>1, <4>1, SliceFacts
    <3>2. MaxTs = rows[Len(rows)].ts /\ MaxTs \in Int
      BY SliceFacts DEF MaxTs
    <3> QED
      BY <1>4, <2>1, <3>1, <3>2
  <2>3. ASSUME NEW i \in Captured
        PROVE  canonical'[i] = Books(rows, i, MaxTs)[next]
    <3>1. Books(rows, i, MaxTs)[next] = After(rows, i, MaxTs, Books(rows, i, MaxTs)[next - 1], next)
      BY <2>1, BooksReplay, <1>4
    <3>2. canonical[i] = Books(rows, i, MaxTs)[next - 1]
      BY <2>1 DEF CanonicalInv
    <3>3. i \in Instruments
      BY EventFacts DEF Captured
    <3>4. canonical'[i] = IF i = current.inst THEN Applied(canonical[i], current.change)
                          ELSE canonical[i]
      BY <1>3, <3>3 DEF CanonicalInv
    <3> QED
      BY <1>5, <2>2, <3>1, <3>2, <3>4 DEF After
  <2>4. ASSUME NEW k \in 1..next, rows[k].inst \in Captured
        PROVE  idx > 0 /\ rows[k].ts <= Ts
    <3>1. CASE k = next
      BY <1>5, <3>1
    <3>2. CASE k # next
      <4>1. k \in 1..Pos
        BY <2>1, <3>2
      <4> QED
        BY <2>4, <4>1 DEF CanonicalInv
    <3> QED
      BY <3>1, <3>2
  <2>5. DOMAIN canonical' = Instruments
    BY <1>3 DEF CanonicalInv
  <2> QED
    BY <1>2, <1>3, <1>7, <2>1, <2>3, <2>4, <2>5 DEF CanonicalInv
<1> QED
  BY <1>2, <1>8, <1>9, <1>10, <1>11, <1>12

\* When a millisecond is sampled, the live state is what the capture says of it.
LEMMA LiveAtSample ==
  ASSUME CompareInv, idx > 0, AtEnd, NEW i \in Instruments
  PROVE  live[i] = Replay(Sent, i, Ts)
<1> USE DEF CompareInv
<1>1. /\ Len(events) \in Nat /\ Len(Sent) \in Nat /\ Len(events) <= Len(Sent)
      /\ idx \in Nat /\ idx <= Len(events) /\ idx \in 1..Len(events)
  BY EventFacts, Bounds
<1>2. /\ \A k \in 1..Len(events) : events[k].ts \in Int /\ events[k].ts <= MaxTs
      /\ \A j, k \in 1..Len(events) : j < k => events[j].ts <= events[k].ts
      /\ \A k \in 1..Len(events) : events[k] = Sent[k]
      /\ \A k \in (Len(events) + 1)..Len(Sent) : Sent[k].ts \in Int /\ ~(Sent[k].ts <= MaxTs)
  BY EventFacts
<1>3. Ts \in Int /\ Ts <= MaxTs /\ Ts = events[idx].ts /\ MaxTs \in Int
  BY <1>1, <1>2, SliceFacts DEF Ts
<1>4. \A k \in 1..idx : Sent[k] = events[k] /\ Sent[k].ts <= Ts /\ Sent[k].ts <= MaxTs
  <2> SUFFICES ASSUME NEW k \in 1..idx
               PROVE  Sent[k] = events[k] /\ Sent[k].ts <= Ts /\ Sent[k].ts <= MaxTs
    OBVIOUS
  <2>1. k \in 1..Len(events) /\ (k < idx \/ k = idx)
    BY <1>1
  <2> QED
    BY <1>1, <1>2, <1>3, <2>1
<1>5. \A k \in (idx + 1)..Len(Sent) : ~(Sent[k].ts <= Ts)
  <2> SUFFICES ASSUME NEW k \in (idx + 1)..Len(Sent) PROVE ~(Sent[k].ts <= Ts)
    OBVIOUS
  <2>1. CASE k <= Len(events)
    <3>1. idx + 1 \in 1..Len(events) /\ k \in 1..Len(events) /\ idx # Len(events)
      BY <1>1, <2>1
    <3>2. Ts < events[idx + 1].ts
      BY <1>1, <1>2, <1>3, <3>1 DEF AtEnd
    <3>3. events[idx + 1].ts <= events[k].ts
      BY <1>1, <1>2, <3>1
    <3> QED
      BY <1>2, <1>3, <3>1, <3>2, <3>3
  <2>2. CASE k > Len(events)
    <3>1. k \in (Len(events) + 1)..Len(Sent)
      BY <1>1, <2>2
    <3> QED
      BY <1>2, <1>3, <3>1
  <2> QED
    BY <1>1, <2>1, <2>2
<1>6. Replay(Sent, i, Ts) = Books(events, i, MaxTs)[idx]
  <2>1. idx \in 0..Len(Sent)
    BY <1>1
  <2>2. Prefix(Sent, events, i, Ts, MaxTs, idx)
    BY <1>4, <1>5 DEF Prefix
  <2> QED
    BY <1>1, <2>1, <2>2, ReplayOfPrefix
<1> QED
  BY <1>6 DEF LiveInv

\* And the canonical state is what the slice says of it.
LEMMA CanonicalAtSample ==
  ASSUME CompareInv, pc = "advance", ~Due, NEW i \in Captured
  PROVE  canonical[i] = Replay(rows, i, Ts)
<1> USE DEF CompareInv
<1>1. /\ Len(rows) \in Nat /\ Len(events) \in Nat
      /\ idx \in Nat /\ fetched \in Nat /\ next \in Nat
      /\ next <= fetched /\ fetched <= Len(rows) /\ idx <= Len(events) /\ idx > 0
  BY Bounds DEF CursorInv
<1>2. Ts \in Int
  BY <1>1, EventFacts DEF Ts
<1>3. /\ \A k \in 1..Len(rows) : rows[k].ts \in Int
      /\ \A j, k \in 1..Len(rows) : j < k => rows[j].ts <= rows[k].ts
      /\ MaxTs \in Int /\ MaxTs = rows[Len(rows)].ts
  BY SliceFacts DEF MaxTs
<1>4. IF current = None THEN Pos = next /\ next = Len(rows)
      ELSE Pos = next - 1 /\ next > 0 /\ current = rows[next]
  BY DEF Pos, CursorInv
<1>5. Pos \in 0..Len(rows)
  BY <1>1, <1>4
<1>6. \A k \in 1..Pos : rows[k] = rows[k] /\ (rows[k].inst = i => rows[k].ts <= Ts /\ rows[k].ts <= MaxTs)
  <2> SUFFICES ASSUME NEW k \in 1..Pos, rows[k].inst = i
               PROVE  rows[k].ts <= Ts /\ rows[k].ts <= MaxTs
    OBVIOUS
  <2>1. rows[k].ts <= Ts
    BY DEF CanonicalInv
  <2>2. k \in 1..Len(rows) /\ Len(rows) \in 1..Len(rows) /\ (k < Len(rows) \/ k = Len(rows))
    BY <1>1, <1>5
  <2>3. rows[k].ts <= MaxTs
    BY <1>3, <2>2
  <2> QED
    BY <2>1, <2>3
<1>7. \A k \in (Pos + 1)..Len(rows) : rows[k].inst = i => ~(rows[k].ts <= Ts)
  <2> SUFFICES ASSUME NEW k \in (Pos + 1)..Len(rows) PROVE ~(rows[k].ts <= Ts)
    OBVIOUS
  <2>1. current # None /\ Pos = next - 1 /\ next > 0 /\ current = rows[next]
    BY <1>1, <1>4
  <2>2. ~(rows[next].ts <= Ts)
    BY <2>1 DEF Due
  <2>3. next \in 1..Len(rows) /\ k \in 1..Len(rows) /\ (next < k \/ next = k)
    BY <1>1, <2>1
  <2>4. rows[next].ts \in Int /\ rows[k].ts \in Int /\ rows[next].ts <= rows[k].ts
    BY <1>3, <2>3
  <2> QED
    BY <1>2, <2>2, <2>4
<1>8. Pos <= Len(rows)
  BY <1>1, <1>5
<1> HIDE DEF Pos
<1>9. Replay(rows, i, Ts) = Books(rows, i, MaxTs)[Pos]
  <2>1. Prefix(rows, rows, i, Ts, MaxTs, Pos)
    BY <1>6, <1>7 DEF Prefix
  <2> QED
    BY <1>1, <1>5, <1>8, <2>1, ReplayOfPrefix
<1> QED
  BY <1>9 DEF CanonicalInv


\* As many instruments as books of a moment.
LEMMA BooksOfMoment ==
  ASSUME NEW I, IsFiniteSet(I), NEW t
  PROVE  IsFiniteSet({<<i, t>> : i \in I}) /\ Cardinality({<<i, t>> : i \in I}) = Cardinality(I)
<1> DEFINE P == {<<i, t>> : i \in I}
           f == [i \in I |-> <<i, t>>]
<1>1. f \in Bijection(I, P)
  BY DEF Bijection, Injection, Surjection, IsInjective
<1>2. ExistsBijection(I, P)
  BY <1>1 DEF ExistsBijection
<1> QED
  BY <1>2, FS_Bijection

\* The books touched are compared.
LEMMA SampleKeeps ==
  ASSUME CompareInv, Sample
  PROVE  CompareInv'
<1> USE DEF CompareInv
<1>1. [CompareNext]_compareVars
  BY DEF CompareNext
<1>2. /\ rows' = rows /\ events' = events /\ MaxTs' = MaxTs /\ MinTs' = MinTs
      /\ Captured' = Captured /\ Sent' = Sent /\ SamplePoints' = SamplePoints /\ InputsInv'
  BY <1>1, FilesKept, FilesTellTheSame
<1>3. /\ pc = "advance" /\ pc' = "live" /\ ~Due
      /\ idx' = idx /\ touched' = {} /\ live' = live /\ canonical' = canonical
      /\ fetched' = fetched /\ next' = next /\ current' = current
      /\ count' = [what \in Counters |->
           count[what] + Cardinality({i \in touched : Counts(what, live[i], canonical[i])})]
  BY DEF Sample, cursor
<1>4. idx > 0 /\ idx \in 1..Len(events) /\ Len(events) \in Nat
  BY <1>3, Bounds DEF CursorInv
<1>5. Sampling /\ ~Sampling'
  BY <1>3, <1>4 DEF Sampling
<1>6. Ts' = Ts /\ AtEnd' = AtEnd
  BY <1>2, <1>3 DEF Ts, AtEnd
<1>7. AtEnd /\ MinTs <= Ts /\ touched = Now
  BY <1>4, <1>5, Bounds DEF TouchedInv
<1>8. CursorInv'
  BY <1>2, <1>3 DEF CursorInv
<1>9. LiveInv'
  BY <1>2, <1>3 DEF LiveInv
<1>10. TouchedInv'
  BY <1>3, <1>5, <1>6, <1>7 DEF TouchedInv
<1>11. CanonicalInv'
  <2>1. Pos' = Pos
    BY <1>3 DEF Pos
  <2> QED
    BY <1>2, <1>3, <1>6, <2>1 DEF CanonicalInv
<1> DEFINE New == {<<i, Ts>> : i \in touched}
<1>12. /\ Behind = {s \in SamplePoints : s[2] < Ts}
       /\ Behind' = {s \in SamplePoints : s[2] < Ts \/ s[2] = Ts}
  <2> HIDE DEF Sampling, AtEnd
  <2>1. Behind = {s \in SamplePoints : s[2] < Ts}
    BY <1>4, <1>5 DEF Behind
  <2>2. Behind' = {s \in SamplePoints : s[2] < Ts \/ s[2] = Ts}
    BY <1>2, <1>3, <1>4, <1>5, <1>6, <1>7 DEF Behind
  <2> QED
    BY <2>1, <2>2
<1>13. \A s : s \in SamplePoints /\ s[2] = Ts <=> s \in New
  <2>1. ASSUME NEW s \in SamplePoints, s[2] = Ts PROVE s \in New
    <3>1. PICK k \in 1..Len(events) : s = <<events[k].inst, events[k].ts>>
      BY PointsAreEvents
    <3>2. events[k].ts = Ts
      BY <2>1, <3>1
    <3>3. k <= idx
      <4>1. ASSUME k > idx PROVE FALSE
        <5>1. idx + 1 \in 1..Len(events) /\ (idx + 1 < k \/ idx + 1 = k) /\ idx # Len(events)
          BY <1>4, <4>1
        <5>2. Ts \in Int /\ events[idx + 1].ts \in Int /\ Ts <= events[idx + 1].ts
              /\ events[idx + 1].ts <= events[k].ts
          <6>1. /\ \A j \in 1..Len(events) : events[j].ts \in Int
                /\ \A i, j \in 1..Len(events) : i < j => events[i].ts <= events[j].ts
            BY EventFacts
          <6>2. idx \in Int /\ idx < idx + 1
            BY <1>4
          <6> QED
            BY <1>4, <5>1, <6>1, <6>2 DEF Ts
        <5>3. events[idx + 1].ts # Ts
          BY <1>7, <5>1 DEF AtEnd
        <5> QED
          BY <3>2, <5>2, <5>3
      <4> QED
        BY <1>4, <4>1
    <3>4. k \in 1..idx
      BY <1>4, <3>3
    <3>5. events[k].inst \in Now
      BY <3>2, <3>4 DEF Now
    <3> QED
      BY <1>7, <3>1, <3>2, <3>5
  <2>2. ASSUME NEW s \in New PROVE s \in SamplePoints /\ s[2] = Ts
    <3>1. PICK k \in 1..idx : events[k].ts = Ts /\ s = <<events[k].inst, Ts>>
      BY <1>7 DEF Now
    <3>2. k \in 1..Len(events)
      BY <1>4
    <3> QED
      BY <1>7, <3>1, <3>2, PointsAreEvents
  <2> QED
    BY <2>1, <2>2
<1>14. touched \subseteq Captured /\ Captured \subseteq Instruments
  <2>1. ASSUME NEW i \in Now PROVE i \in Captured
    <3>1. PICK k \in 1..idx : i = events[k].inst
      BY DEF Now
    <3>2. k \in DOMAIN events
      BY <1>4, EventFacts
    <3> QED
      BY <3>1, <3>2 DEF Captured
  <2> QED
    BY <1>7, <2>1, EventFacts DEF Captured
<1>15. IsFiniteSet(SamplePoints) /\ IsFiniteSet(touched)
  BY <1>14, PointsFinite, CapturedFinite, FS_Subset
<1>16. CountInv'
  <2> SUFFICES ASSUME NEW what \in Counters
               PROVE  count'[what] = Cardinality({s \in Behind' :
                        Counts(what, Replay(Sent, s[1], s[2]), Replay(rows, s[1], s[2]))})
    BY <1>2, <1>3 DEF CountInv
  <2> DEFINE C(s) == Counts(what, Replay(Sent, s[1], s[2]), Replay(rows, s[1], s[2]))
             I == {i \in touched : Counts(what, live[i], canonical[i])}
             Old == {s \in Behind : C(s)}
             Added == {<<i, Ts>> : i \in I}
  <2>1. count'[what] = Cardinality(Old) + Cardinality(I)
    BY <1>3 DEF CountInv
  <2>2. \A i \in touched : Counts(what, live[i], canonical[i]) <=> C(<<i, Ts>>)
    <3> SUFFICES ASSUME NEW i \in touched
                 PROVE  live[i] = Replay(Sent, i, Ts) /\ canonical[i] = Replay(rows, i, Ts)
      OBVIOUS
    <3> QED
      BY <1>3, <1>4, <1>7, <1>14, LiveAtSample, CanonicalAtSample
  <2> HIDE DEF C
  <2>3. Added = {s \in New : C(s)}
    BY <2>2
  <2>4. {s \in Behind' : C(s)} = Old \cup Added
    BY <1>12, <1>13, <2>3
  <2>5. Old \cap Added = {}
    <3>1. ASSUME NEW s \in Old, s \in Added PROVE FALSE
      <4>1. s[2] < Ts /\ s[2] = Ts
        BY <1>12, <3>1
      <4>2. Ts \in Int
        BY <1>4, EventFacts DEF Ts
      <4> QED
        BY <4>1, <4>2
    <3> QED
      BY <3>1
  <2>6. IsFiniteSet(Old) /\ IsFiniteSet(I)
    <3>1. Old \subseteq SamplePoints /\ I \subseteq touched
      BY <1>12
    <3> QED
      BY <1>15, <3>1, FS_Subset
  <2>7. IsFiniteSet(Added) /\ Cardinality(Added) = Cardinality(I)
    <3> HIDE DEF I
    <3> QED
      BY <2>6, BooksOfMoment
  <2> HIDE DEF Old, Added, I
  <2>8. Cardinality(Old \cup Added) = Cardinality(Old) + Cardinality(Added)
    <3>1. Cardinality(Old) \in Nat /\ Cardinality(Added) \in Nat
      BY <2>6, <2>7, FS_CardinalityType
    <3>2. Cardinality(Old \cup Added)
            = Cardinality(Old) + Cardinality(Added) - Cardinality(Old \cap Added)
      BY <2>6, <2>7, FS_Union
    <3>3. Cardinality(Old \cap Added) = 0
      BY <2>5, FS_EmptySet
    <3> QED
      BY <3>1, <3>2, <3>3
  <2> QED
    BY <2>1, <2>4, <2>7, <2>8 DEF C
<1> QED
  BY <1>2, <1>8, <1>9, <1>10, <1>11, <1>16

\* The end of the events.
LEMMA ReportKeeps ==
  ASSUME CompareInv, Report
  PROVE  CompareInv'
<1> USE DEF CompareInv
<1>1. [CompareNext]_compareVars
  BY DEF CompareNext
<1>2. /\ rows' = rows /\ events' = events /\ MaxTs' = MaxTs /\ MinTs' = MinTs
      /\ Captured' = Captured /\ InputsInv'
  BY <1>1, FilesKept, FilesTellTheSame
<1>3. /\ pc = "live" /\ pc' = "report" /\ idx = Len(events)
      /\ idx' = idx /\ touched' = touched /\ live' = live /\ canonical' = canonical
      /\ fetched' = fetched /\ next' = next /\ current' = current /\ count' = count
  BY DEF Report, cursor
<1>4. Sampling' = Sampling
  BY <1>3 DEF Sampling
<1>5. Ts' = Ts /\ AtEnd' = AtEnd /\ Now' = Now /\ Behind' = Behind
  BY <1>1, <1>3, <1>4, SameMoment
<1>6. CursorInv' /\ LiveInv'
  BY <1>2, <1>3 DEF CursorInv, LiveInv
<1>7. CanonicalInv'
  <2>1. Pos' = Pos
    BY <1>3 DEF Pos
  <2> QED
    BY <1>2, <1>3, <1>5, <2>1 DEF CanonicalInv
<1>8. TouchedInv'
  BY <1>2, <1>3, <1>4, <1>5 DEF TouchedInv
<1>9. CountInv'
  BY <1>1, <1>3, <1>5, CountKept
<1> QED
  BY <1>2, <1>6, <1>7, <1>8, <1>9

\* Nothing is applied or counted in the beginning.
LEMMA CompareInitially == CompareInit => CompareInv
<1> SUFFICES ASSUME CompareInit PROVE CompareInv
  OBVIOUS
<1>1. InputsInv
  BY DEF CompareInit, InputsInv
<1>2. Len(rows) \in Nat /\ Len(events) \in Nat
  BY <1>1, SliceFacts, EventFacts
<1>3. CursorInv
  BY <1>2 DEF CompareInit, CursorInv
<1>4. LiveInv
  <2>1. \A i \in Instruments : Books(events, i, MaxTs)[0] = NoBook
    BY <1>2, BooksReplay
  <2> QED
    BY <2>1 DEF CompareInit, LiveInv, NoState
<1>5. CanonicalInv
  <2>1. Pos = 0
    BY DEF CompareInit, Pos
  <2>2. \A i \in Captured : i \in Instruments /\ Books(rows, i, MaxTs)[0] = NoBook
    BY <1>1, <1>2, BooksReplay, EventFacts DEF Captured
  <2>3. canonical = [i \in Instruments |-> NoBook]
    BY DEF CompareInit, NoState
  <2> QED
    BY <2>1, <2>2, <2>3 DEF CanonicalInv
<1>6. TouchedInv
  BY DEF CompareInit, TouchedInv, Sampling
<1>7. CountInv
  <2>1. Behind = {}
    BY DEF CompareInit, Behind
  <2>2. \A what \in Counters : {s \in Behind :
          Counts(what, Replay(Sent, s[1], s[2]), Replay(rows, s[1], s[2]))} = {}
    BY <2>1
  <2> HIDE DEF Behind
  <2> QED
    BY <2>2, FS_EmptySet DEF CompareInit, CountInv
<1> QED
  BY <1>1, <1>3, <1>4, <1>5, <1>6, <1>7 DEF CompareInv

\* What is checked of the report rests on this invariant.
LEMMA CompareInvariance == CompareSpec => []CompareInv
<1>1. CompareInv /\ [CompareNext]_compareVars => CompareInv'
  <2> SUFFICES ASSUME CompareInv, [CompareNext]_compareVars PROVE CompareInv'
    OBVIOUS
  <2>1. CASE FetchBatch \/ FileEnd \/ TakeRow
    BY <2>1, SeekKeeps
  <2>2. CASE LiveEvent
    BY <2>2, LiveEventKeeps
  <2>3. CASE AdvanceRow
    BY <2>3, AdvanceKeeps
  <2>4. CASE Sample
    BY <2>4, SampleKeeps
  <2>5. CASE Report
    BY <2>5, ReportKeeps
  <2>6. CASE UNCHANGED compareVars
    <3>1. /\ rows' = rows /\ lines' = lines /\ events' = events /\ idx' = idx
          /\ touched' = touched /\ fetched' = fetched /\ next' = next /\ current' = current
          /\ live' = live /\ canonical' = canonical /\ count' = count /\ pc' = pc
      BY <2>6 DEF compareVars, inputs, cursor
    <3>2. Sampling' = Sampling /\ Pos' = Pos
      BY <3>1 DEF Sampling, Pos
    <3>3. /\ InputsInv' /\ MinTs' = MinTs /\ MaxTs' = MaxTs /\ Captured' = Captured
          /\ Ts' = Ts /\ AtEnd' = AtEnd /\ Now' = Now /\ Behind' = Behind
      BY <3>1, <3>2, FilesTellTheSame, SameMoment DEF CompareInv
    <3>4. CountInv'
      BY <3>1, <3>3, CountKept DEF CompareInv
    <3>5. CursorInv' /\ LiveInv'
      BY <3>1, <3>3 DEF CompareInv, CursorInv, LiveInv
    <3>6. CanonicalInv' /\ TouchedInv'
      BY <3>1, <3>2, <3>3 DEF CompareInv, CanonicalInv, TouchedInv
    <3> QED
      BY <3>3, <3>4, <3>5, <3>6 DEF CompareInv
  <2> QED
    BY <2>1, <2>2, <2>3, <2>4, <2>5, <2>6 DEF CompareNext
<1> QED
  BY <1>1, CompareInitially, PTL DEF CompareSpec


\* At the end everything is behind the comparison.
LEMMA AllBehind ==
  ASSUME CompareInv, pc = "report"
  PROVE  Behind = SamplePoints
<1> USE DEF CompareInv
<1>1. idx = Len(events) /\ Len(events) \in Nat
  BY Bounds DEF CursorInv
<1>2. AtEnd /\ ~Sampling
  BY <1>1 DEF AtEnd, Sampling
<1>3. ASSUME NEW s \in SamplePoints PROVE idx > 0 /\ (s[2] < Ts \/ s[2] = Ts)
  <2>1. PICK k \in 1..Len(events) : s = <<events[k].inst, events[k].ts>>
    BY PointsAreEvents
  <2>2. idx \in 1..Len(events) /\ (k < idx \/ k = idx)
    BY <1>1
  <2>3. /\ events[k].ts \in Int /\ events[idx].ts \in Int
        /\ k < idx => events[k].ts <= events[idx].ts
    BY <2>2, EventFacts
  <2> QED
    BY <1>1, <2>1, <2>2, <2>3 DEF Ts
<1> HIDE DEF Sampling, AtEnd
<1> QED
  BY <1>2, <1>3 DEF Behind

\* Then the counters are those of the whole report.
LEMMA CountsExact == CompareInv => ReportExact
<1> SUFFICES ASSUME CompareInv, pc = "report", NEW what \in Counters
             PROVE  count[what] = Cardinality({s \in SamplePoints :
                      Counts(what, Replay(Sent, s[1], s[2]), Replay(rows, s[1], s[2]))})
  BY DEF ReportExact
<1>1. Behind = SamplePoints
  BY AllBehind
<1> QED
  BY <1>1 DEF CompareInv, CountInv

\* The report is that of a replay of both files: one sample for each
\* book the capture touches at a time the slice covers, compared as the two files have
\* it after that millisecond, whatever the batches of _CanonicalCursor and the order
\* of the capture's lines.
THEOREM ReportIsExact == CompareSpec => []ReportExact
BY CountsExact, CompareInvariance, PTL

\* A comparison that passes has compared: some book of the capture was sampled, each of
\* them has both sides in the slice and is not crossed, and at most one of a
\* hundred differs in the prices of the levels compared
\* (check_polymarket_golden_thresholds).
THEOREM VerdictIsSound == CompareSpec => []VerdictSound
<1>1. ASSUME CompareInv, ReportExact PROVE VerdictSound
  <2> SUFFICES ASSUME pc = "report", Passes PROVE VerdictSound
    BY DEF VerdictSound
  <2> DEFINE l(s) == Replay(Sent, s[1], s[2])
             c(s) == Replay(rows, s[1], s[2])
             Of(what) == {s \in SamplePoints : Counts(what, l(s), c(s))}
             whole == {s \in SamplePoints : HasTop(l(s))}
             differing == {s \in whole : ~SameTops(l(s), c(s))}
  <2>1. \A what \in Counters : count[what] = Cardinality(Of(what))
    BY <1>1 DEF ReportExact
  <2>2. IsFiniteSet(SamplePoints)
    BY <1>1, PointsFinite DEF CompareInv
  <2>3. /\ Of("missing") = {s \in whole : ~HasTop(c(s))}
        /\ Of("compared") = {s \in whole : HasTop(c(s))}
        /\ Of("crossed") = {s \in whole : HasTop(c(s)) /\ Crossed(c(s))}
        /\ Of("tops") = {s \in whole : HasTop(c(s)) /\ SameTops(l(s), c(s))}
    <3> HIDE DEF l, c
    <3> QED
      BY DEF Counts
  <2> HIDE DEF l, c
  <2>4. whole \subseteq SamplePoints /\ IsFiniteSet(whole)
    BY <2>2, FS_Subset
  <2>5. /\ \A what \in Counters : Of(what) \subseteq SamplePoints
        /\ \A what \in Counters : IsFiniteSet(Of(what))
    BY <2>2, FS_Subset
  <2>6. /\ "missing" \in Counters /\ "compared" \in Counters /\ "crossed" \in Counters
        /\ "tops" \in Counters
    BY DEF Counters
  <2> HIDE DEF Of
  <2>7. Of("missing") = {} /\ Of("crossed") = {}
    <3>1. Cardinality(Of("missing")) = 0 /\ Cardinality(Of("crossed")) = 0
      BY <2>1, <2>6 DEF Passes
    <3> QED
      BY <2>5, <2>6, <3>1, FS_EmptySet
  <2>8. \A s \in whole : HasTop(c(s)) /\ ~Crossed(c(s))
    BY <2>3, <2>7
  <2>9. Of("compared") = whole /\ Of("tops") = whole \ differing
    BY <2>3, <2>8
  <2>10. RateMeets("tops")
    BY DEF Passes, Thresholds
  <2>11. /\ Cardinality(whole) > 0
         /\ Cardinality(whole \ differing) * 10000 >= 9900 * Cardinality(whole)
    <3> HIDE DEF whole, differing
    <3>1. /\ count["compared"] = Cardinality(whole)
          /\ count["tops"] = Cardinality(whole \ differing)
      BY <2>1, <2>6, <2>9
    <3>2. Thresholds["tops"] = 9900
      BY DEF Thresholds
    <3>3. count["compared"] > 0 /\ count["tops"] * 10000 >= Thresholds["tops"] * count["compared"]
      BY <2>10 DEF RateMeets
    <3> QED
      BY <3>1, <3>2, <3>3
  <2>12. whole # {}
    BY <2>11, FS_EmptySet
  <2>13. Cardinality(whole \ differing) = Cardinality(whole) - Cardinality(differing)
    <3>1. whole \cap differing = differing
      OBVIOUS
    <3> HIDE DEF whole, differing
    <3> QED
      BY <2>4, <3>1, FS_Difference
  <2>14. Cardinality(whole) \in Nat /\ Cardinality(differing) \in Nat
    <3>1. differing \subseteq whole
      OBVIOUS
    <3> HIDE DEF whole, differing
    <3> QED
      BY <2>4, <3>1, FS_Subset, FS_CardinalityType
  <2>15. 100 * Cardinality(differing) <= Cardinality(whole)
    <3> HIDE DEF whole, differing
    <3> QED
      BY <2>11, <2>13, <2>14
  <2> QED
    BY <2>8, <2>12, <2>15 DEF VerdictSound, l, c
<1> QED
  BY <1>1, CountsExact, CompareInvariance, PTL

=============================================================================
