------------------------------ MODULE MCPlayer ------------------------------
(***************************************************************************)
(* Model checking of Player with its queue: three queue entries in all, at *)
(* most two of them in the queue at the same time, and five instances,     *)
(* one more than the slots hold.  The media player reports a stop in the   *)
(* course of stop() or later, and a track may fail in the middle.          *)
(***************************************************************************)
EXTENDS Player
=============================================================================
