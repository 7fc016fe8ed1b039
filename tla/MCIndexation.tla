--------------------------- MODULE MCIndexation ---------------------------
(***************************************************************************)
(* Model checking of Indexation.                                           *)
(***************************************************************************)
EXTENDS Indexation
=============================================================================
