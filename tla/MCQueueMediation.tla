-------------------------- MODULE MCQueueMediation --------------------------
(***************************************************************************)
(* Model checking of QueueMediation: the user changes the queue while      *)
(* others do.                                                              *)
(***************************************************************************)
EXTENDS QueueMediation
=============================================================================
