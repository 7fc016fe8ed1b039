----------------------------- MODULE MCFutures -----------------------------
(***************************************************************************)
(* Model checking of Futures.                                              *)
(***************************************************************************)
EXTENDS Futures
=============================================================================
