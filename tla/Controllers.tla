---------------------------- MODULE Controllers ----------------------------
(***************************************************************************)
(* The objects of the client library that a program works with: the        *)
(* controllers of src/client, which keep a copy of what the server last    *)
(* told and ask for it when they are created, and ServerInterface, which   *)
(* creates each object when it is first used.                              *)
(*                                                                         *)
(* c.objects lists the objects in the order of their creation: that is the *)
(* order in which they hear of a message or a signal.                      *)
(***************************************************************************)
EXTENDS EntryInfo

Unknown == "Unknown"
NoUser == -1             \* the mode of the player is not known

(* What the controllers know before they have heard of anything.  A        *)
(* delayed start is active, "yes", or active "until" a time that is known. *)
NoPlayer == [state |-> Unknown, volume |-> -1, length |-> 0, id |-> 0, skipped |-> 0,
             user |-> NoUser, delayed |-> Unknown]

NoUserData == [have |-> {}, toFetch |-> {}, toTell |-> FALSE]

-----------------------------------------------------------------------------
(* PlayerController                                                        *)

DelayedStartActive(p) == p.delayed \in {"yes", "until"}

UpdateState(c, state, volume, length, id, delayed) ==
    LET p == c.player
        still == IF delayed = "yes" /\ p.delayed = "until" THEN "until" ELSE delayed
        news == (IF p.state # state THEN <<News("playerStateChanged")>> ELSE << >>)
             \o (IF p.id # id THEN <<News("playerTrackChanged")>> ELSE << >>)
             \o (IF p.length # length THEN <<News("playerQueueLengthChanged")>> ELSE << >>)
             \o (IF p.volume # volume THEN <<News("volumeChanged")>> ELSE << >>)
             \o (IF p.delayed # still THEN <<News("delayedStartActiveInfoChanged")>> ELSE << >>)
    IN  [c EXCEPT !.player.state = state, !.player.id = id, !.player.volume = volume,
                  !.player.length = length, !.player.delayed = still,
                  !.news = @ \o news]

UpdateMode(c, user) ==
    IF c.player.user = user THEN c
    ELSE Tell([c EXCEPT !.player.user = user], "playerModeChanged")

ReceivedVolume(c, volume) ==
    IF c.player.volume = volume THEN c
    ELSE Tell([c EXCEPT !.player.volume = volume], "volumeChanged")

(* A delayed start that was not known to be active: when is it?            *)
ReceivedPlayerState(before, msg) ==
    LET c == ReceivedVolume(before, msg.volume)
        asked == IF msg.delayed = "yes" /\ ~ DelayedStartActive(c.player)
                 THEN Ask(c, DelayedStartInfoRequest) ELSE c
    IN  UpdateState(asked, msg.playing, msg.volume, msg.length, msg.id, msg.delayed)

ReceivedDelayedStartInfo(c) ==
    IF c.player.delayed = "until" THEN c
    ELSE Tell([c EXCEPT !.player.delayed = "until"], "delayedStartActiveInfoChanged")

(* canSkip: not the same track again.                                      *)
CanSkip(c) ==
    /\ c.player.skipped = 0 \/ c.player.skipped # c.player.id
    /\ c.player.state \in {"Playing", "Paused"}

Skip(c) == Ask([c EXCEPT !.player.skipped = c.player.id], SkipToNext)

PlayerHears(c, msg) ==
    CASE msg.type = "playerState" -> ReceivedPlayerState(c, msg)
      [] msg.type = "delayedStartInfo" -> ReceivedDelayedStartInfo(c)
      [] msg.type = "userPlayingFor" -> UpdateMode(c, msg.user)
      [] msg.type = "volume" -> ReceivedVolume(c, msg.volume)
      [] OTHER -> c

LosePlayer(c) == UpdateState(UpdateMode(c, NoUser), Unknown, -1, 0, 0, Unknown)

-----------------------------------------------------------------------------
(* DynamicModeController and ScrobblingController: one value each.         *)

UpdateDynamic(c, enabled) ==
    IF c.dynamic = enabled THEN c
    ELSE Tell([c EXCEPT !.dynamic = enabled], "dynamicModeEnabledChanged")

UpdateScrobbling(c, enabled) ==
    IF c.scrobbling = enabled THEN c
    ELSE Tell([c EXCEPT !.scrobbling = enabled], "lastFmInfoChanged")

(* The end of a connection is announced whether something was known or not *)
LoseScrobbling(c) == Tell([c EXCEPT !.scrobbling = Unknown], "lastFmInfoChanged")

-----------------------------------------------------------------------------
(* QueueController and HistoryController pass on what the connection tells *)
(* them.  A request is recognized by its reference, which is 0 for         *)
(* something that was not requested here.                                  *)
QueueControllerHears(c, msg) ==
    LET type == CASE msg.type = "entryAdded" -> "queueEntryAdded"
                  [] msg.type = "entryRemoved" -> "queueEntryRemoved"
                  [] msg.type = "entryMoved" -> "queueEntryMoved"
                  [] msg.type = "insertionFailed" -> "queueEntryInsertionFailed"
                  [] OTHER -> "nothing"
    IN  IF type = "nothing" THEN c
        ELSE [c EXCEPT !.news = Append(@, [type |-> type, msg |-> msg])]

HistoryHears(c, msg) ==
    LET type == CASE msg.type = "history" -> "receivedPlayerHistory"
                  [] msg.type = "newHistoryEntry" -> "receivedPlayerHistoryEntry"
                  [] OTHER -> "nothing"
    IN  IF type = "nothing" THEN c
        ELSE [c EXCEPT !.news = Append(@, [News(type) EXCEPT !.ids = msg.ids])]

-----------------------------------------------------------------------------
(* UserDataFetcher                                                         *)

(* getHashDataForUser: null if the hash is not in c.userData.have.         *)
GetHashData(c, hash) ==
    IF hash \in c.userData.have THEN c ELSE [c EXCEPT !.userData.toFetch = @ \cup {hash}]

SendPendingRequests(c) ==
    [Ask(c, HashUserDataRequest(c.userData.toFetch))
        EXCEPT !.userData.toFetch = {}]

ReceivedHashUserData(c, hashes) ==
    [c EXCEPT !.userData.have = @ \cup hashes, !.userData.toTell = TRUE]

UserDataHears(c, msg) ==
    IF msg.type = "hashUserData" THEN ReceivedHashUserData(c, msg.hashes) ELSE c

SendPendingNotifications(c) ==
    Tell([c EXCEPT !.userData.toTell = FALSE], "dataReceivedForUser")

-----------------------------------------------------------------------------
(* The storage of entries: one answer may be about several of them.        *)
TrackInfoMessage(c, e) == ReceivedTrackInfo(c, e.id, e.type, e.tags)

(* A reply that has no information for one of its IDs is not understood    *)
(* and discarded as a whole.                                               *)
BulkTrackInfoMessage(c, entries) ==
    IF \E i \in DOMAIN entries : entries[i].type = "UnknownId" THEN c
    ELSE FoldLeft(TrackInfoMessage, c, entries)

BulkQueueEntryHashMessage(c, entries) ==
    FoldLeft(LAMBDA x, e : ReceivedHash(x, e.id, e.type, e.hash), c, entries)

StorageHears(c, msg) ==
    CASE msg.type = "hashes" -> BulkQueueEntryHashMessage(c, msg.entries)
      [] msg.type = "info" -> TrackInfoMessage(c, msg.entry)
      [] msg.type = "bulkInfo" -> BulkTrackInfoMessage(c, msg.entries)
      [] msg.type = "names" -> ReceivedPossibleFilenames(c, msg.id, msg.any)
      [] OTHER -> c

MonitorHears(c, msg) ==
    IF msg.type \in {"contents", "entryAdded", "entryRemoved", "entryMoved"}
    THEN MonitorBecomes(c, Handle(c.monitor, msg))
    ELSE c

-----------------------------------------------------------------------------
(* ServerInterface creates an object, and those that it needs, when it is  *)
(* first used; the client is connected, and so the object asks at once for *)
(* what it has to know.                                                    *)
Objects == {"storage", "player", "track", "monitor", "fetcher", "hashes", "dynamic",
            "scrobbling", "history", "queue", "userData"}

Needs == [object \in Objects |->
             CASE object = "track" -> <<"storage">>
               [] object \in {"fetcher", "hashes"} -> <<"monitor", "storage">>
               [] OTHER -> << >>]

(* connected(), of each of the objects.                                    *)
Connected(c, object) ==
    CASE object = "player" -> Ask(Ask(c, RequestPlayerState), RequestUserPlayingForMode)
      [] object = "track" -> Ask(c, RequestPlayerState)
      [] object = "monitor" ->
            MonitorBecomes(c, SendInitialFetch([c.monitor EXCEPT !.created = TRUE]))
      [] object = "fetcher" -> FetchFront(c, c.monitor.queue)
      [] object = "hashes" -> FoldLeft(HashesTrackAdded, c, c.monitor.queue)
      [] object = "dynamic" -> Ask(c, RequestDynamicModeStatus)
      [] object = "scrobbling" -> Ask(c, ScrobblingProviderInfoRequest)
      [] OTHER -> c

CreateOne(c, object) ==
    IF object \in ToSet(c.objects) THEN c
    ELSE Connected([c EXCEPT !.objects = Append(@, object)], object)

Create(c, object) == FoldLeft(CreateOne, c, Append(Needs[object], object))

CreateAll(c, objects) == FoldLeft(Create, c, objects)

-----------------------------------------------------------------------------
(* An object receives a message, a signal, or the end of the connection.   *)
Hears(c, object, msg) ==
    CASE object = "storage" -> StorageHears(c, msg)
      [] object = "player" -> PlayerHears(c, msg)
      [] object = "track" ->
            IF msg.type = "playerState" THEN ChangeCurrentQueueId(c, msg.id) ELSE c
      [] object = "monitor" -> MonitorHears(c, msg)
      [] object = "dynamic" ->
            IF msg.type = "dynamicStatus" THEN UpdateDynamic(c, msg.enabled) ELSE c
      [] object = "scrobbling" ->
            IF msg.type = "providerInfo" THEN UpdateScrobbling(c, msg.enabled) ELSE c
      [] object = "history" -> HistoryHears(c, msg)
      [] object = "queue" -> QueueControllerHears(c, msg)
      [] object = "userData" -> UserDataHears(c, msg)
      [] OTHER -> c

HearsSignal(c, object, s) ==
    CASE object = "track" -> CurrentTrackMonitorHears(c, s)
      [] object = "fetcher" -> FetcherHears(c, s)
      [] object = "hashes" -> HashesMonitorHears(c, s)
      [] OTHER -> c

(* connectionBroken(), of each of the objects.                             *)
Loses(c, object) ==
    CASE object = "storage" -> ForgetEntries(c)
      [] object = "player" -> LosePlayer(c)
      [] object = "track" -> LoseCurrentTrack(c)
      [] object = "monitor" -> MonitorBecomes(c, LoseTheQueue(c.monitor))
      [] object = "dynamic" -> UpdateDynamic(c, Unknown)
      [] object = "scrobbling" -> LoseScrobbling(c)
      [] OTHER -> c

NewClient ==
    [objects |-> << >>, out |-> << >>, news |-> << >>,
     storage |-> EmptyStorage, monitor |-> NotCreated, hashes |-> NoHashes,
     track |-> NoTrack, player |-> NoPlayer, dynamic |-> Unknown,
     scrobbling |-> Unknown, userData |-> NoUserData]
=============================================================================
