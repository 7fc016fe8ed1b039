----------------------------- MODULE QueueModel -----------------------------
(***************************************************************************)
(* The rows of the queue that the user of the desktop client sees          *)
(* (src/desktop-remote/queuemodel.cpp).  The model is told of changes by   *)
(* the queue mediator, as they are made, and keeps a list of its own: a    *)
(* number of rows, and the entries of the first rows as far as it heard of *)
(* them.  Each operator gives the model after a signal.                    *)
(***************************************************************************)
EXTENDS Integers, Sequences, SequencesExt

(* A row of which the entry was not received yet.                          *)
NullTrack == 0

Nulls(n) == [i \in 1..n |-> NullTrack]

QueueResetted(length, known) ==
    IF length > 0 THEN [rows |-> length, tracks |-> known]
    ELSE [rows |-> 0, tracks |-> << >>]

(* The list is made long enough to hold n entries.                         *)
Expanded(tracks, n) == tracks \o Nulls(n - Len(tracks))

EntriesReceived(model, index, entries) ==
    LET list == Expanded(model.tracks, index + Len(entries))
    IN  [model EXCEPT !.tracks =
            [i \in 1..Len(list) |-> IF i - index \in 1..Len(entries)
                                    THEN entries[i - index] ELSE list[i]]]

TrackAdded(model, index, id) ==
    [rows |-> model.rows + 1,
     tracks |-> InsertAt(Expanded(model.tracks, index), index + 1, id)]

TrackRemoved(model, index) ==
    [rows |-> model.rows - 1,
     tracks |-> IF index < Len(model.tracks)
                THEN RemoveAt(model.tracks, index + 1) ELSE model.tracks]

(* Mistake: the new index is counted with the entry still in its place.    *)
TrackMovedQt(model, from, to, id) ==
    LET list == IF from < Len(model.tracks)
                THEN RemoveAt(model.tracks, from + 1) ELSE model.tracks
        qtTo == IF from < to THEN to + 1 ELSE to
    IN  [model EXCEPT !.tracks =
            IF qtTo <= Len(list) THEN InsertAt(list, qtTo + 1, id) ELSE list]

(* An entry that was not known becomes known by its move.                  *)
TrackMoved(model, from, to, id) ==
    IF from = to THEN model
    ELSE LET list == IF from < Len(model.tracks)
                     THEN RemoveAt(model.tracks, from + 1) ELSE model.tracks
         IN  [model EXCEPT !.tracks =
                 IF to <= Len(list) THEN InsertAt(list, to + 1, id) ELSE list]
=============================================================================
