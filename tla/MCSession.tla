----------------------------- MODULE MCSession -----------------------------
(***************************************************************************)
(* Model checking of Session: two accounts, of which one exists from the   *)
(* start, and one topic of each of the kinds that are told differently.    *)
(***************************************************************************)
EXTENDS Session
=============================================================================
