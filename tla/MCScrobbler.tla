---------------------------- MODULE MCScrobbler ----------------------------
(***************************************************************************)
(* Model checking of Scrobbler.                                            *)
(***************************************************************************)
EXTENDS Scrobbler
=============================================================================
