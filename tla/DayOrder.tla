------------------------------ MODULE DayOrder ------------------------------
(***************************************************************************)
(* What the day file of a Polymarket shard promises (docstring of          *)
(* _slice_pmxt_for_date in canonical.py): it holds every translated row of *)
(* the date once, "globally sorted by ts_ms, then raw PMXT source order".  *)
(*                                                                         *)
(* A row is identified by its place <<ts_ms, source_hour,                  *)
(* source_row_number>>.                                                    *)
(***************************************************************************)
EXTENDS Naturals, Sequences

VARIABLES
  rows,     \* the translated rows of the date
  emitted,  \* the day file so far
  closed    \* the file is complete

\* Row p is placed before row q: lexicographic order.
Before(p, q) ==
  \/ p[1] < q[1]
  \/ p[1] = q[1] /\ p[2] < q[2]
  \/ p[1] = q[1] /\ p[2] = q[2] /\ p[3] < q[3]

Remaining == rows \ {emitted[i] : i \in DOMAIN emitted}

Init == emitted = <<>> /\ closed = FALSE

Emit(r) ==
  /\ ~closed
  /\ r \in Remaining
  /\ \A q \in Remaining \ {r} : Before(r, q)
  /\ emitted' = Append(emitted, r)
  /\ UNCHANGED <<rows, closed>>

\* Only a file with all rows is closed.
Close ==
  /\ ~closed
  /\ Remaining = {}
  /\ closed' = TRUE
  /\ UNCHANGED <<rows, emitted>>

Next == (\E r \in rows : Emit(r)) \/ Close

vars == <<rows, emitted, closed>>

Spec == Init /\ [][Next]_vars

=============================================================================
