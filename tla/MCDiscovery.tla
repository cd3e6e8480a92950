---------------------------- MODULE MCDiscovery -----------------------------
(***************************************************************************)
(* TLC instances of Discovery.                                             *)
(***************************************************************************)
EXTENDS Discovery

MCWinner == [s \in Slugs |-> IF s % 2 = 0 THEN "Up" ELSE "Down"]

Shape(named, prices, live, tokens) ==
  [named |-> named, prices |-> prices, live |-> live, tokens |-> tokens]

\* Nothing is told, one side, both sides from one source or from two, and a
\* winner beside prices that lag.
MCShapes == {
  Shape(FALSE, {},             TRUE,  {}),
  Shape(FALSE, {"Up"},         TRUE,  {}),
  Shape(FALSE, {"Up", "Down"}, TRUE,  {}),
  Shape(FALSE, {},             FALSE, {}),
  Shape(FALSE, {"Down"},       FALSE, {}),
  Shape(FALSE, {"Up"},         FALSE, {"Up", "Down"}),
  Shape(TRUE,  {"Up", "Down"}, TRUE,  {})}

=============================================================================
