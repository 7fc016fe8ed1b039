---------------------------- MODULE MCPreloader ----------------------------
(***************************************************************************)
(* Model checking of Preloader with the queue it watches.                  *)
(***************************************************************************)
EXTENDS Preloader
=============================================================================
