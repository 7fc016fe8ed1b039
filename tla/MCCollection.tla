---------------------------- MODULE MCCollection ----------------------------
(***************************************************************************)
(* Model checking of Collection.  Three hashes, two with the same tags     *)
(* from the start; titles and lengths are ordered differently.             *)
(***************************************************************************)
EXTENDS Collection

Untagged == [title |-> 0, length |-> -1]
First == [title |-> 1, length |-> 2]
Second == [title |-> 2, length |-> 1]

MCTags == {Untagged, First, Second}
=============================================================================
