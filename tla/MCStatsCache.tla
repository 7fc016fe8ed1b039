--------------------------- MODULE MCStatsCache ---------------------------
(***************************************************************************)
(* Model checking of StatsCache: two hashes that are equivalent, or not,   *)
(* or turn out to be.                                                      *)
(***************************************************************************)
EXTENDS StatsCache

Equivalent == {{{1, 2}}}
Separate == {{}}
EquivalentOrNot == Equivalent \cup Separate
TwoSlots == 1..2
ThreeSlots == 1..3
=============================================================================
