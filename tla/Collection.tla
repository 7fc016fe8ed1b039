----------------------------- MODULE Collection -----------------------------
(***************************************************************************)
(* What a client knows of the collection of the server, and the table that *)
(* shows it.  At the server, the Resolver knows the hashes, their tags and *)
(* whether there is a file for them; it tells the CollectionMonitor, which *)
(* collects what has changed and sends it to every client after a delay.   *)
(* A client that shows the collection downloads it in batches as well      *)
(* (CollectionSender), and may ask for a single track.  At the client the  *)
(* CollectionWatcherImpl merges the three streams.                         *)
(*                                                                         *)
(* The Resolver finds out in its own threads that a file is gone; what it  *)
(* emits there reaches the monitor later (posted).  Requests from the      *)
(* client are handled as soon as they are sent.                            *)
(***************************************************************************)
EXTENDS CollectionTable, TLC

CONSTANTS
    Hashes,             \* numbers that stand for hashes
    KnownFirst,         \* the hashes that the server knows from the start
    Tags,               \* records of a title and a length
    FirstTags,          \* the tags of the hashes that are known
    NoTags,             \* no title, unknown length
    BatchSize,          \* tracks per message of a download: 30
    MaxEvents           \* bound on changes, questions about one track and sorts

ASSUME CollectionAssumption ==
    /\ KnownFirst \subseteq Hashes /\ NoTags \in Tags /\ FirstTags \in Tags
    /\ BatchSize \in Nat \ {0}
    /\ MaxEvents \in Nat

VARIABLES
    resolver,   \* hash -> known, available, tags, titles that were seen
    posted,     \* hashBecameUnavailable signals on their way to the monitor
    monitor,    \* CollectionMonitor: what it was told, what is pending
    sender,     \* CollectionSender: the hashes that are still to be sent
    replies,    \* answers about one track that the event loop will send
    down,       \* messages on their way to the client
    watcher,    \* CollectionWatcherImpl: its tracks, its download
    results,    \* answers about one track that its event loop will deliver
    table,      \* SortedCollectionTableModel
    placeholders,   \* hashes that were added without their tags
    overtaken,      \* hashes of which news was delivered in the wrong order
    events          \* changes, questions and sorts so far

vars == <<resolver, posted, monitor, sender, replies, down, watcher, results,
          table, placeholders, overtaken, events>>

serverVars == <<resolver, posted, monitor, sender, replies>>
clientVars == <<watcher, results, table, placeholders>>

Track(h, available, tags) ==
    [hash |-> h, available |-> available, title |-> tags.title, length |-> tags.length]

TagsOf(track) == [title |-> track.title, length |-> track.length]

(* Resolver::getHashesTrackInfo, getHashTrackInfo.                         *)
TrackInfo(h) == Track(h, resolver[h].available, resolver[h].tags)

InOrder(hashes) == SetToSortSeq(hashes, <)

NoDownload == [running |-> FALSE, left |-> << >>]

Init ==
    /\ resolver \in {[h \in Hashes |->
          [known |-> h \in KnownFirst, available |-> h \in there,
           tags |-> IF h \in KnownFirst THEN FirstTags ELSE NoTags,
           seen |-> IF h \in KnownFirst THEN {FirstTags.title} ELSE {}]] :
          there \in SUBSET KnownFirst}
    /\ monitor = [collection |-> [h \in Hashes |-> Track(h, resolver[h].available,
                                                         resolver[h].tags)],
                  tags |-> {}, availability |-> {}, timer |-> FALSE]
    /\ posted = << >> /\ sender = NoDownload /\ replies = << >>
    /\ down = << >>
    /\ watcher = [tracks |-> [h \in {} |-> 0], download |-> "none"]
    /\ results = << >>
    /\ table = EmptyTable @@ [open |-> FALSE]
    /\ placeholders = {} /\ overtaken = {}
    /\ events = 0

Counted == events < MaxEvents /\ events' = events + 1

-----------------------------------------------------------------------------
(* The monitor: operators on its record.                                   *)

Pending(m) == m.tags \cup m.availability

(* checkNeedToSendNotifications: the timer runs from the first pending     *)
(* hash on; from the 50th on another one runs out at once.                 *)
CheckNeedToSendNotifications(m) ==
    [m EXCEPT !.timer = @ \/ Cardinality(Pending(m)) = 1]

HashBecame(m, h, available) ==
    IF m.collection[h].available = available THEN m
    ELSE CheckNeedToSendNotifications(
             [m EXCEPT !.collection[h].available = available,
                       !.availability = @ \cup {h}])

HashTagInfoChanged(m, h, tags) ==
    IF TagsOf(m.collection[h]) = tags THEN m
    ELSE CheckNeedToSendNotifications(
             [m EXCEPT !.collection[h] = Track(h, m.collection[h].available, tags),
                       !.tags = @ \cup {h}])

(* Mistake: a hash whose availability changed as well is told without its  *)
(* tags.                                                                   *)
FullNotificationsWithoutAvailability(m) == m.tags \ m.availability

(* Everything about a hash is told when its tags have changed.             *)
FullNotifications(m) == m.tags

AvailabilityNotifications(m) == Pending(m) \ FullNotifications(m)

(* The messages of emitNotifications.                                      *)
Notifications(m) ==
    LET full == FullNotifications(m)
        availability == AvailabilityNotifications(m)
        Now(h) == m.collection[h]
    IN  (IF full = {} THEN << >>
         ELSE << [type |-> "Infos", tracks |-> {Now(h) : h \in full}] >>)
        \o
        (IF availability = {} THEN << >>
         ELSE << [type |-> "Availability",
                  available |-> {h \in availability : Now(h).available},
                  unavailable |-> {h \in availability : ~ Now(h).available}] >>)

EmitNotifications ==
    /\ monitor.timer
    /\ down' = down \o Notifications(monitor)
    /\ overtaken' = overtaken \cup
           (Pending(monitor) \cap {replies[i].hash : i \in DOMAIN replies})
    /\ monitor' = [monitor EXCEPT !.tags = {}, !.availability = {}, !.timer = FALSE]
    /\ UNCHANGED <<resolver, posted, sender, replies, clientVars, events>>

-----------------------------------------------------------------------------
(* The resolver.                                                           *)

(* The tags with the best score, and of those the latest ones; here every  *)
(* title has the same score, except no title at all.                       *)
FindBestTag(known, title) ==
    IF title = NoTags.title /\ known.tags.title # NoTags.title
    THEN known.tags.title
    ELSE title

(* What a file adds to the knowledge of its hash: a length, if it has one, *)
(* and tags, if they are new.                                              *)
AddInfo(known, tags) ==
    [known EXCEPT
        !.known = TRUE,
        !.seen = @ \cup {tags.title},
        !.tags.length = IF tags.length = NoTags.length THEN @ ELSE tags.length,
        !.tags.title = IF tags.title \in known.seen THEN @
                       ELSE FindBestTag(known, tags.title)]

(* onFileAnalysisCompleted with addInfo and addPath, in the main thread:   *)
(* the signals of the tags and then of the file are handled at once.  One  *)
(* that says that an earlier file is gone may still be on its way.         *)
FileAnalysisCompleted(h, tags) ==
    /\ Counted
    /\ resolver' = [resolver EXCEPT ![h] = [AddInfo(@, tags) EXCEPT !.available = TRUE]]
    /\ monitor' = HashBecame(HashTagInfoChanged(monitor, h, resolver'[h].tags), h, TRUE)
    /\ overtaken' = overtaken \cup ({h} \cap {posted[i] : i \in DOMAIN posted})
    /\ UNCHANGED <<posted, sender, replies, down, clientVars>>

(* removeInvalidPath, in the main thread or in another one.                *)
FileIsGone(h, inMainThread) ==
    /\ Counted
    /\ resolver[h].available
    /\ resolver' = [resolver EXCEPT ![h].available = FALSE]
    /\ IF inMainThread
       THEN monitor' = HashBecame(monitor, h, FALSE) /\ UNCHANGED posted
       ELSE posted' = Append(posted, h) /\ UNCHANGED monitor
    /\ UNCHANGED <<sender, replies, down, clientVars, overtaken>>

DeliverPosted ==
    /\ posted # << >>
    /\ monitor' = HashBecame(monitor, Head(posted), FALSE)
    /\ posted' = Tail(posted)
    /\ UNCHANGED <<resolver, sender, replies, down, clientVars, overtaken, events>>

-----------------------------------------------------------------------------
(* Sending the collection and single tracks.                               *)

(* CollectionSender::sendNextBatch: the hashes were fixed at the start,    *)
(* their data is that of now.                                              *)
SendNextBatch ==
    LET batch == SubSeq(sender.left, 1, IF Len(sender.left) < BatchSize
                                        THEN Len(sender.left) ELSE BatchSize)
    IN  /\ sender.running
        /\ IF sender.left = << >>
           THEN /\ down' = Append(down, [type |-> "Completed"])
                /\ sender' = NoDownload
           ELSE /\ down' = Append(down, [type |-> "Part",
                                         tracks |-> [i \in DOMAIN batch |-> TrackInfo(batch[i])]])
                /\ sender' = [sender EXCEPT
                                  !.left = SubSeq(@, Len(batch) + 1, Len(@))]
        /\ UNCHANGED <<resolver, posted, monitor, replies, clientVars, overtaken, events>>

(* parseHashInfoRequest: the data is that of now, the message is sent by   *)
(* the event loop.                                                         *)
SendReply ==
    /\ replies # << >>
    /\ down' = Append(down, [type |-> "Reply", track |-> Head(replies)])
    /\ replies' = Tail(replies)
    /\ UNCHANGED <<resolver, posted, monitor, sender, clientVars, overtaken, events>>

-----------------------------------------------------------------------------
(* The watcher and the table: a signal of the watcher is handled by the    *)
(* table at once.  Operators on a record of both and of the placeholders.  *)

Both == [tracks |-> watcher.tracks, table |-> table, placeholders |-> placeholders]

BothBecome(b) ==
    /\ watcher' = [watcher EXCEPT !.tracks = b.tracks]
    /\ table' = b.table
    /\ placeholders' = b.placeholders

Put(tracks, track) == (track.hash :> track) @@ tracks

(* newTrackReceived, trackDataChanged, trackAvailabilityChanged.           *)
TableHears(b, track) ==
    IF b.table.open THEN [b EXCEPT !.table = AddOrUpdateTrack(@, track)] ELSE b

TableHearsAvailability(b, h, available) ==
    IF b.table.open THEN [b EXCEPT !.table = UpdateRowAvailability(@, h, available)]
    ELSE b

(* onCollectionPartReceived: a track that is known is not updated.         *)
PartReceived(b, track) ==
    IF track.hash \in DOMAIN b.tracks THEN b
    ELSE TableHears([b EXCEPT !.tracks = Put(@, track)], track)

UpdateTrackData(b, track) ==
    IF track.hash \in DOMAIN b.tracks /\ b.tracks[track.hash] = track
    THEN [b EXCEPT !.placeholders = @ \ {track.hash}]
    ELSE TableHears([b EXCEPT !.tracks = Put(@, track),
                              !.placeholders = @ \ {track.hash}], track)

UpdateTrackAvailability(b, h, available) ==
    IF h \in DOMAIN b.tracks
    THEN IF b.tracks[h].available = available THEN b
         ELSE TableHearsAvailability([b EXCEPT !.tracks[h].available = available],
                                     h, available)
    ELSE IF ~ available THEN b
    ELSE TableHears([b EXCEPT !.tracks = Put(@, Track(h, TRUE, NoTags)),
                              !.placeholders = @ \cup {h}],
                    Track(h, TRUE, NoTags))

HandleMessage(b, m) ==
    CASE m.type = "Part" -> FoldLeft(PartReceived, b, m.tracks)
      [] m.type = "Infos" ->
            FoldLeft(UpdateTrackData, b,
                     SetToSortSeq(m.tracks, LAMBDA s, t : s.hash < t.hash))
      [] m.type = "Availability" ->
            FoldLeft(LAMBDA x, h : UpdateTrackAvailability(x, h, FALSE),
                     FoldLeft(LAMBDA x, h : UpdateTrackAvailability(x, h, TRUE),
                              b, InOrder(m.available)),
                     InOrder(m.unavailable))

(* The hashes of which a message brings news.                              *)
NewsOf(m) ==
    CASE m.type = "Infos" -> {t.hash : t \in m.tracks}
      [] m.type = "Availability" -> m.available \cup m.unavailable
      [] OTHER -> {}

(* An answer about one track only reaches the watcher through the event    *)
(* loop; what was received together with it is handled before that.        *)
ReadMessage ==
    /\ down # << >>
    /\ LET m == Head(down)
       IN  /\ overtaken' = overtaken \cup
                  (NewsOf(m) \cap {results[i].hash : i \in DOMAIN results})
           /\ CASE m.type = "Completed" ->
                     /\ watcher' = [watcher EXCEPT !.download = "completed"]
                     /\ UNCHANGED <<results, table, placeholders>>
                [] m.type = "Reply" ->
                     /\ results' = Append(results, m.track)
                     /\ UNCHANGED <<watcher, table, placeholders>>
                [] OTHER -> BothBecome(HandleMessage(Both, m)) /\ UNCHANGED results
    /\ down' = Tail(down)
    /\ UNCHANGED <<serverVars, events>>

DeliverResult ==
    /\ results # << >>
    /\ BothBecome(UpdateTrackData(Both, Head(results)))
    /\ results' = Tail(results)
    /\ UNCHANGED <<serverVars, down, overtaken, events>>

-----------------------------------------------------------------------------
(* The user of the client.                                                 *)

(* The collection is shown: enableCollectionDownloading starts a download, *)
(* and the table begins with what the watcher has heard of already.        *)
OpenTable ==
    /\ ~ table.open
    /\ table' = AddWhenModelEmpty([table EXCEPT !.open = TRUE],
                    [i \in 1 .. Cardinality(DOMAIN watcher.tracks) |->
                        watcher.tracks[InOrder(DOMAIN watcher.tracks)[i]]])
    /\ watcher' = [watcher EXCEPT !.download = "running"]
    /\ sender' = [running |-> TRUE, left |-> InOrder({h \in Hashes : resolver[h].known})]
    /\ UNCHANGED <<resolver, posted, monitor, replies, down, results, placeholders,
                   overtaken, events>>

(* getTrackInfo: only a track that is not known is asked for.              *)
GetTrackInfo(h) ==
    /\ Counted
    /\ resolver[h].known /\ h \notin DOMAIN watcher.tracks
    /\ replies' = Append(replies, TrackInfo(h))
    /\ UNCHANGED <<resolver, posted, monitor, sender, down, clientVars, overtaken>>

Sort(column, descending) ==
    /\ Counted
    /\ table.open
    /\ <<column, descending>> # <<table.column, table.descending>>
    /\ table' = SortTable(table, column, descending)
    /\ UNCHANGED <<serverVars, down, watcher, results, placeholders, overtaken>>

Next ==
    \/ \E h \in Hashes, tags \in Tags : FileAnalysisCompleted(h, tags)
    \/ \E h \in Hashes, inMainThread \in BOOLEAN : FileIsGone(h, inMainThread)
    \/ DeliverPosted \/ EmitNotifications
    \/ SendNextBatch \/ SendReply
    \/ ReadMessage \/ DeliverResult
    \/ OpenTable
    \/ \E h \in Hashes : GetTrackInfo(h)
    \/ \E column \in {"title", "length"}, descending \in BOOLEAN : Sort(column, descending)

Spec == Init /\ [][Next]_vars

-----------------------------------------------------------------------------
(* Properties.                                                             *)

Quiet ==
    /\ posted = << >> /\ replies = << >> /\ down = << >> /\ results = << >>
    /\ Pending(monitor) = {}

(* When the download has ended and nothing is under way, the client has    *)
(* each track as the server has it, except tracks that came and went       *)
(* without a file or tags: whatever changes during the download,  *)
(* in batches that were already sent or not, no news of it is lost to the  *)
(* rule that a part of the download never replaces what is known.  Left    *)
(* out are the two cases in which the code does go wrong: a track that was *)
(* added as a placeholder, and news that was delivered in the wrong order. *)
CollectionIsCurrent ==
    Quiet /\ watcher.download = "completed" =>
        \A h \in Hashes \ (placeholders \cup overtaken) :
            IF h \in DOMAIN watcher.tracks
            THEN watcher.tracks[h] = TrackInfo(h)
            ELSE ~ Interesting(TrackInfo(h))

(* Rows and positions are inverse to each other, the rows are in the order *)
(* that the user has chosen, and each shows the track as the watcher has   *)
(* it; no track with a title is missing.  Tracks are added, move and       *)
(* change in any order, and rows are only moved one by one.                *)
TableShowsTheCollection ==
    table.open =>
        /\ DOMAIN table.inner = DOMAIN table.tracks
        /\ \A row \in DOMAIN table.outer : table.inner[table.outer[row]] = row
        /\ \A row \in 1 .. Len(table.outer) - 1 :
              LessThan(table, TrackAt(table, row), TrackAt(table, row + 1))
        /\ \A h \in DOMAIN table.index : table.tracks[table.index[h]] = watcher.tracks[h]
        /\ \A h \in DOMAIN watcher.tracks :
              h \in DOMAIN table.index \/ TitleAndArtistUnknown(watcher.tracks[h])

(* A placeholder is replaced by the data of its track: at the latest when  *)
(* the download has ended, a client has the tags of every track.           *)
PlaceholdersAreReplaced ==
    Quiet /\ watcher.download = "completed" =>
        \A h \in placeholders : watcher.tracks[h].title = resolver[h].tags.title

(* A track of which the watcher tells that its availability has changed is *)
(* in the table, or was not available and without a title.                 *)
AvailableTracksAreShown ==
    table.open =>
        \A h \in DOMAIN watcher.tracks :
            watcher.tracks[h].available => h \in DOMAIN table.index
=============================================================================
