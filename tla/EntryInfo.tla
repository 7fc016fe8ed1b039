----------------------------- MODULE EntryInfo -----------------------------
(***************************************************************************)
(* What a client knows about the entries of the queue and of the history:  *)
(* QueueEntryInfoStorage asks the server for the type, hash, tags and file *)
(* name of an entry; QueueEntryInfoFetcher makes it ask for the front of   *)
(* the queue; CurrentTrackMonitor and QueueHashesMonitor show what it has  *)
(* received (src/client/queueentryinfostorageimpl.cpp and others).         *)
(*                                                                         *)
(* An operator gives the state of the client after a function of these     *)
(* classes was called in state c.  Requests are collected in c.out and     *)
(* signals in c.news.  Queue IDs and hashes are numbers, 0 if there is     *)
(* none; tags are "none", "length" (but no title or artist) or "title".    *)
(***************************************************************************)
EXTENDS QueueMonitor, Requests, FiniteSets, TLC

CONSTANT FetcherZone     \* initialQueueFetchLength of the fetcher (10)

ASSUME ZoneAssumption == FetcherZone \in Nat \ {0}

Ask(c, request) == [c EXCEPT !.out = Append(@, request)]
News(type) == [type |-> type, from |-> Nowhere, to |-> Nowhere, ids |-> << >>,
               length |-> Nowhere, known |-> << >>]
Tell(c, type) == [c EXCEPT !.news = Append(@, News(type))]

-----------------------------------------------------------------------------
(* QueueEntryInfoStorage                                                   *)

Blank == [type |-> "Unknown", hash |-> 0, tags |-> "none", file |-> FALSE]

(* The null pointer.                                                       *)
Null == [Blank EXCEPT !.type = "null"]

EmptyStorage == [entries |-> << >>, hashSent |-> {}, infoSent |-> {}, changed |-> {}]

EntryOf(c, id) ==
    IF id \in DOMAIN c.storage.entries THEN c.storage.entries[id] ELSE Null

NeedFilename(entry) == entry.type = "Track" /\ entry.tags # "title"

SetEntry(c, id, entry) == [c EXCEPT !.storage.entries = (id :> entry) @@ @]

(* setHash, setInfo and setPossibleFilenames come with a notification.     *)
ChangeEntry(c, id, entry) ==
    [SetEntry(c, id, entry) EXCEPT !.storage.changed = @ \cup {id}]

SendHashRequest(c, id) ==
    IF id \in c.storage.hashSent THEN c
    ELSE [Ask(c, QueueEntryHashRequest(<<id>>))
             EXCEPT !.storage.hashSent = @ \cup {id}]

(* Mistake: the wrong set of IDs is looked at.                             *)
SendInfoRequestUnlessHashSent(before, id) ==
    LET c == SendHashRequest(before, id)
    IN  IF id \in c.storage.hashSent THEN c
        ELSE [Ask(c, QueueEntryInfoRequest(id))
                 EXCEPT !.storage.infoSent = @ \cup {id}]

SendInfoRequest(before, id) ==
    LET c == SendHashRequest(before, id)
    IN  IF id \in c.storage.infoSent THEN c
        ELSE [Ask(c, QueueEntryInfoRequest(id))
                 EXCEPT !.storage.infoSent = @ \cup {id}]

(* entryInfoByQueueId: what it asks for; it returns EntryOf(c, id).        *)
LookUp(c, id) ==
    LET entry == EntryOf(c, id)
    IN  IF id = 0 THEN c
        ELSE IF entry = Null THEN SendInfoRequest(SetEntry(c, id, Null), id)
        ELSE IF entry.hash = 0 /\ entry.type \in {"Unknown", "Track"}
        THEN SendHashRequest(c, id)
        ELSE c

SendBulkRequests(c, ids) ==
    IF ids = << >> THEN c
    ELSE Ask(Ask(c, BulkQueueEntryInfoRequest(ids)), QueueEntryHashRequest(ids))

MarkAsSent(c, ids) ==
    [c EXCEPT !.storage.hashSent = @ \cup ToSet(ids),
              !.storage.infoSent = @ \cup ToSet(ids)]

(* dropInfoFor: as if nothing had been asked for.                          *)
DropInfoFor(c, id) ==
    [c EXCEPT !.storage.hashSent = @ \ {id}, !.storage.infoSent = @ \ {id},
              !.storage.entries = [i \in DOMAIN @ \ {id} |-> @[i]]]

FetchEntries(c, ids) ==
    LET new == SelectSeq(ids, LAMBDA id : id \notin DOMAIN c.storage.entries)
        added == [c EXCEPT !.storage.entries = @ @@ [id \in ToSet(new) |-> Blank]]
    IN  SendBulkRequests(MarkAsSent(added, ids), new)

RefetchEntries(c, ids) == SendBulkRequests(MarkAsSent(c, ids), ids)

(* receivedQueueEntryHash                                                  *)
ReceivedHash(before, id, type, hash) ==
    LET c == [before EXCEPT !.storage.hashSent = @ \ {id}]
        old == EntryOf(c, id)
        entry == IF old = Null THEN Blank ELSE old
    IN  IF old # Null /\ entry.type = type /\ entry.hash = hash THEN c
        ELSE ChangeEntry(c, id, [entry EXCEPT !.type = type, !.hash = hash])

ReceivedTrackInfo(before, id, type, tags) ==
    LET c == [before EXCEPT !.storage.infoSent = @ \ {id}]
        old == EntryOf(c, id)
        entry == [(IF old = Null THEN Blank ELSE old)
                     EXCEPT !.type = type, !.tags = tags]
        asked == IF NeedFilename(entry) THEN Ask(c, PossibleFilenamesRequest(id)) ELSE c
    IN  IF old = entry THEN c ELSE ChangeEntry(asked, id, entry)

(* An informative file name is chosen once, from the names received.       *)
ReceivedPossibleFilenames(c, id, any) ==
    LET entry == IF EntryOf(c, id) = Null THEN Blank ELSE EntryOf(c, id)
    IN  IF any /\ ~ entry.file THEN ChangeEntry(c, id, [entry EXCEPT !.file = TRUE])
        ELSE SetEntry(c, id, entry)

(* emitTracksChangedSignal, some time after the first of the changes.      *)
EmitTracksChanged(c) ==
    [c EXCEPT !.storage.changed = {},
              !.news = Append(@, [News("tracksChanged")
                           EXCEPT !.ids = SetToSeq(c.storage.changed)])]

ForgetEntries(c) ==
    [c EXCEPT !.storage = [EmptyStorage EXCEPT !.changed = c.storage.changed]]

-----------------------------------------------------------------------------
(* The queue monitor as an object of the client.                           *)
MonitorBecomes(c, m) ==
    [c EXCEPT !.monitor = [m EXCEPT !.requests = << >>, !.signals = << >>],
              !.out = @ \o m.requests, !.news = @ \o m.signals]

(* queueEntry: what it asks for; it returns EntryAt(c.monitor, index).     *)
LookAt(c, index) ==
    IF index \in 0..c.monitor.length - 1
    THEN MonitorBecomes(c, GotRequestForEntry(c.monitor, index))
    ELSE c

-----------------------------------------------------------------------------
(* QueueEntryInfoFetcher: a reaction to each signal of the monitor.  It    *)
(* looks at the queue as it was when the signal was emitted.               *)
LookAtZone(c) ==
    FoldLeft(LAMBDA x, i : LookAt(x, i - 1), c, [i \in 1..FetcherZone |-> i])

(* queueResetted; the entries 0 that the monitor does not have are skipped *)
FetchFront(c, known) ==
    RefetchEntries(LookAtZone(c), SubSeq(known, 1,
        IF Len(known) < FetcherZone THEN Len(known) ELSE FetcherZone))

FetchMovedIn(c, s) ==
    IF s.from < FetcherZone /\ s.to >= FetcherZone
    THEN LookUp(LookAt(c, FetcherZone - 1), EntryAt(c.monitor, FetcherZone - 1))
    ELSE c

FetcherHears(c, s) ==
    CASE s.type = "queueResetted" -> FetchFront(c, s.known)
      [] s.type = "entriesReceived" /\ s.from < FetcherZone -> FetchEntries(c, s.ids)
      [] s.type = "trackAdded" /\ s.to < FetcherZone -> LookUp(c, s.ids[1])
      [] s.type = "trackMoved" ->
            FetchMovedIn(IF s.to < FetcherZone THEN LookUp(c, s.ids[1]) ELSE c, s)
      [] OTHER -> c

-----------------------------------------------------------------------------
(* QueueHashesMonitor: byId is _queueIdToHash and byHash _hashToQueueIds.  *)
NoHashes == [byId |-> << >>, byHash |-> << >>]

IdsWithHash(h, hash) == IF hash \in DOMAIN h.byHash THEN h.byHash[hash] ELSE {}

(* The entry no longer counts for the hash that it had.                    *)
WithoutPrevious(h, id) ==
    LET previous == IF id \in DOMAIN h.byId THEN h.byId[id] ELSE 0
    IN  IF previous = 0 THEN h ELSE [h EXCEPT !.byHash[previous] = @ \ {id}]

Associate(h, hash, id, canAdd) ==
    LET without == WithoutPrevious(h, id)
    IN  IF id \in DOMAIN h.byId /\ h.byId[id] = hash THEN h
        ELSE IF ~ canAdd /\ id \notin DOMAIN h.byId THEN without
        ELSE [byId |-> (id :> hash) @@ without.byId,
              byHash |-> IF hash = 0 THEN without.byHash
                         ELSE (hash :> IdsWithHash(without, hash) \cup {id})
                                 @@ without.byHash]

(* Mistake: the hash of an entry that is removed stays present.            *)
DisassociateById(h, id, canRemove) ==
    IF id \notin DOMAIN h.byId THEN h
    ELSE [h EXCEPT !.byId = [i \in DOMAIN @ \ {id} |-> @[i]]]

Disassociate(h, id, canRemove) ==
    IF id \notin DOMAIN h.byId THEN h
    ELSE [WithoutPrevious(h, id) EXCEPT
             !.byId = IF canRemove THEN [i \in DOMAIN @ \ {id} |-> @[i]]
                      ELSE [@ EXCEPT ![id] = 0]]

HashesTrackAdded(before, id) ==
    LET c == LookUp(before, id)
    IN  [c EXCEPT !.hashes = Associate(@, EntryOf(c, id).hash, id, TRUE)]

HashesTracksChanged(before, id) ==
    LET c == LookUp(before, id)
        hash == EntryOf(c, id).hash
    IN  [c EXCEPT !.hashes = IF hash = 0 THEN Disassociate(@, id, FALSE)
                             ELSE Associate(@, hash, id, FALSE)]

HashesMonitorHears(c, s) ==
    CASE s.type = "queueResetted" ->
            [c EXCEPT !.hashes = FoldLeft(LAMBDA h, id : Disassociate(h, id, TRUE),
                                          @, SetToSeq(DOMAIN @.byId))]
      [] s.type \in {"entriesReceived", "trackAdded"} ->
            FoldLeft(HashesTrackAdded, c, s.ids)
      [] s.type = "trackRemoved" ->
            [c EXCEPT !.hashes = Disassociate(@, s.ids[1], TRUE)]
      [] s.type = "tracksChanged" -> FoldLeft(HashesTracksChanged, c, s.ids)
      [] OTHER -> c

-----------------------------------------------------------------------------
(* CurrentTrackMonitor                                                     *)
NoTrack == [received |-> FALSE, id |-> 0, hash |-> 0, tags |-> "none", file |-> FALSE]

EntryOfTrack(c) == IF c.track.id = 0 THEN Null ELSE EntryOf(c, c.track.id)

WithFields(track, entry) ==
    [track EXCEPT !.hash = entry.hash, !.tags = entry.tags, !.file = entry.file]

TrackBecomes(c, shown, isNewTrack) ==
    LET updated == [c EXCEPT !.track = shown]
        told == IF isNewTrack THEN Tell(updated, "currentTrackChanged") ELSE updated
    IN  IF isNewTrack \/ shown # c.track THEN Tell(told, "currentTrackInfoChanged")
        ELSE told

UpdateTrackFields(before, isNewTrack) ==
    LET c == LookUp(before, before.track.id)
    IN  TrackBecomes(c, WithFields(c.track, EntryOfTrack(c)), isNewTrack)

ChangeCurrentQueueId(c, id) ==
    IF c.track.received /\ c.track.id = id THEN c
    ELSE UpdateTrackFields([c EXCEPT !.track.id = id, !.track.received = TRUE], TRUE)

CurrentTrackMonitorHears(c, s) ==
    IF s.type = "tracksChanged" /\ c.track.id # 0 /\ c.track.id \in ToSet(s.ids)
    THEN UpdateTrackFields(c, FALSE)
    ELSE c

LoseCurrentTrack(c) ==
    Tell(Tell([c EXCEPT !.track = NoTrack], "currentTrackChanged"),
         "currentTrackInfoChanged")
=============================================================================
