--------------------------- MODULE MCPlayerQueue ---------------------------
(***************************************************************************)
(* Model checking of PlayerQueue: the queue can reach its maximum length,  *)
(* the history overflows, and moves go over several places.  Below, the    *)
(* mistakes that the checked properties would expose.                      *)
(***************************************************************************)
EXTENDS PlayerQueue

=============================================================================
