--------------------------- MODULE CollectionTable ---------------------------
(***************************************************************************)
(* SortedCollectionTableModel (src/desktop-remote/collectiontablemodel.cpp)*)
(* as operators on a record                                                *)
(*   tab.tracks      the tracks, in the order in which they were added,    *)
(*   tab.index       hash -> position in tracks,                           *)
(*   tab.outer       row -> position in tracks,                            *)
(*   tab.inner       position in tracks -> row,                            *)
(*   tab.column, tab.descending   the order of the rows.                   *)
(* Rows and positions count from 1.  A track is a record of its hash, its  *)
(* availability, its title (0: it has neither title nor artist) and its    *)
(* length (-1: unknown); the orders by artist and by album are like those.  *)
(***************************************************************************)
EXTENDS Integers, Sequences, FiniteSets, SequencesExt

CONSTANT LinearLimit    \* ranges up to this length are searched linearly

ASSUME LinearLimitAssumption == LinearLimit \in Nat /\ LinearLimit >= 2

EmptyTable == [tracks |-> << >>, index |-> << >>, outer |-> << >>, inner |-> << >>,
               column |-> "title", descending |-> FALSE]

-----------------------------------------------------------------------------
(* The order of the rows.  Tracks without a title, or without a length in  *)
(* the order by length, come last whatever the direction.                  *)

Compare(a, b, descending) == IF descending THEN b - a ELSE a - b

FirstDifference(comparisons) ==
    LET different == {i \in DOMAIN comparisons : comparisons[i] # 0}
    IN  IF different = {} THEN 0
        ELSE comparisons[CHOOSE i \in different : \A j \in different : i <= j]

LastWhen(unknown1, unknown2) ==
    IF unknown1 = unknown2 THEN 0 ELSE IF unknown2 THEN -1 ELSE 1

TitleAndArtistUnknown(track) == track.title = 0

CompareTitles(t1, t2, descending) ==
    FirstDifference(
        << LastWhen(TitleAndArtistUnknown(t1), TitleAndArtistUnknown(t2)),
           Compare(t1.title, t2.title, descending),
           Compare(t1.hash, t2.hash, descending) >>)

CompareLengths(t1, t2, descending) ==
    FirstDifference(
        << LastWhen(t1.length < 0, t2.length < 0),
           Compare(t1.length, t2.length, descending),
           Compare(t1.title, t2.title, descending),
           Compare(t1.hash, t2.hash, FALSE) >>)

CompareTracks(tab, t1, t2) ==
    IF tab.column = "length" THEN CompareLengths(t1, t2, tab.descending)
                             ELSE CompareTitles(t1, t2, tab.descending)

LessThan(tab, t1, t2) == CompareTracks(tab, t1, t2) < 0

TrackAt(tab, row) == tab.tracks[tab.outer[row]]

(* The first row from begin on, before end, whose track is greater.        *)
LinearSearch(tab, track, begin, end) ==
    LET greater == {row \in begin .. end - 1 : LessThan(tab, track, TrackAt(tab, row))}
    IN  IF greater = {} THEN end
        ELSE CHOOSE row \in greater : \A other \in greater : row <= other

RECURSIVE FindInRange(_, _, _, _)
FindInRange(tab, track, begin, end) ==
    IF end - begin <= LinearLimit THEN LinearSearch(tab, track, begin, end)
    ELSE LET middle == (begin - 1) \div 2 + (end - 1) \div 2 + 1
         IN  IF LessThan(tab, track, TrackAt(tab, middle))
             THEN FindInRange(tab, track, begin, middle)
             ELSE FindInRange(tab, track, middle, end)

FindOuterIndexMapIndexForInsert(tab, track) ==
    FindInRange(tab, track, 1, Len(tab.outer) + 1)

-----------------------------------------------------------------------------

InnerMapWith(tab, rows) ==
    [tab EXCEPT !.inner =
        [i \in DOMAIN tab.inner |->
            IF \E row \in rows : tab.outer[row] = i
            THEN CHOOSE row \in rows : tab.outer[row] = i
            ELSE tab.inner[i]]]

(* Mistake: the end of the range, which is not part of it, is one too low. *)
RebuildInnerMapButLast(tab, first, last) == InnerMapWith(tab, first .. last - 1)

(* rebuildInnerMap, for the rows from first to last.                       *)
RebuildInnerMap(tab, first, last) == InnerMapWith(tab, first .. last)

SortRows(tab) ==
    RebuildInnerMap(
        [tab EXCEPT !.outer =
            SortSeq(@, LAMBDA i, j : LessThan(tab, tab.tracks[i], tab.tracks[j]))],
        1, Len(tab.outer))

(* buildIndexMaps                                                          *)
BuildIndexMaps(tab) ==
    LET unsorted == [i \in DOMAIN tab.tracks |-> i]
    IN  SortRows([tab EXCEPT !.outer = unsorted, !.inner = unsorted])

Interesting(track) == track.available \/ ~ TitleAndArtistUnknown(track)

AddWhenModelEmpty(tab, collection) ==
    LET tracks == SelectSeq(collection, Interesting)
    IN  BuildIndexMaps(
            [tab EXCEPT !.tracks = tracks,
                        !.index = [h \in {tracks[i].hash : i \in DOMAIN tracks} |->
                                      CHOOSE i \in DOMAIN tracks : tracks[i].hash = h]])

AddTrack(tab, track) ==
    LET row == FindOuterIndexMapIndexForInsert(tab, track)
        position == Len(tab.tracks) + 1
        added == [tab EXCEPT
                     !.tracks = Append(@, track),
                     !.index = [h \in DOMAIN @ \cup {track.hash} |->
                                   IF h = track.hash THEN position ELSE @[h]],
                     !.outer = InsertAt(@, row, position),
                     !.inner = Append(@, row)]
    IN  RebuildInnerMap(added, row + 1, position)

(* A row that moves down leaves a gap behind.                              *)
RowAfterMove(oldRow, row) == IF row > oldRow THEN row - 1 ELSE row

UpdateTrack(tab, position, track) ==
    LET oldRow == tab.inner[position]
        row == FindOuterIndexMapIndexForInsert(tab, track)
        newRow == RowAfterMove(oldRow, row)
        updated == [tab EXCEPT !.tracks[position] = track]
    IN  IF row \in {oldRow, oldRow + 1} THEN updated
        ELSE RebuildInnerMap(
                 [updated EXCEPT !.outer = InsertAt(RemoveAt(@, oldRow), newRow, position)],
                 IF oldRow < newRow THEN oldRow ELSE newRow,
                 IF oldRow < newRow THEN newRow ELSE oldRow)

AddOrUpdateTrack(tab, track) ==
    IF track.hash \in DOMAIN tab.index
    THEN UpdateTrack(tab, tab.index[track.hash], track)
    ELSE IF Interesting(track) THEN AddTrack(tab, track) ELSE tab

UpdateRowAvailability(tab, hash, available) ==
    IF hash \in DOMAIN tab.index
    THEN [tab EXCEPT !.tracks[tab.index[hash]].available = available]
    ELSE tab

SortTable(tab, column, descending) ==
    SortRows([tab EXCEPT !.column = column, !.descending = descending])
=============================================================================
