---------------------------- MODULE RemoteServer ----------------------------
(***************************************************************************)
(* The server as one client sees it: what ConnectedClient and              *)
(* ServerInterface (src/server) do with the requests of a client, and the  *)
(* events that reach this client, which has subscribed to all of them.     *)
(* Player, queue and history are those of Player and PlayerQueue without   *)
(* the instances and the preloading: tracks start at once.                 *)
(*                                                                         *)
(* An operator gives the state of the server after something was done in   *)
(* state s.  The messages for the client are collected in s.out, each with *)
(* the state in which it was sent.  The entry of a queue ID is its hash, 0 *)
(* for a break and -1 for a barrier.                                       *)
(***************************************************************************)
EXTENDS Integers, Sequences, SequencesExt, FiniteSets, TLC

CONSTANTS
    Tags,                \* the tags of each hash: "none", "length" or "title"
    WithFile,            \* the hashes of which a file name is known
    HistorySize          \* the number of tracks in the history (20)

ASSUME TagsAssumption == /\ \A h \in DOMAIN Tags : Tags[h] \in {"none", "length", "title"}
                         /\ WithFile \subseteq DOMAIN Tags /\ HistorySize \in Nat \ {0}

Send(s, msg) == [s EXCEPT !.out = Append(@, [msg |-> msg, at |-> [s EXCEPT !.out = << >>]])]

SendPlayerState(s) ==
    Send(s, [type |-> "playerState", playing |-> s.state, volume |-> s.volume,
             length |-> Len(s.queue), id |-> s.current,
             delayed |-> IF s.delayed THEN "yes" ELSE "no"])

SendDelayedStartInfo(s) == Send(s, [type |-> "delayedStartInfo"])
SendUserPlayingFor(s) == Send(s, [type |-> "userPlayingFor", user |-> s.user])
SendDynamicStatus(s) == Send(s, [type |-> "dynamicStatus", enabled |-> s.dynamic])
SendProviderInfo(s) == Send(s, [type |-> "providerInfo", enabled |-> s.scrobbling])

-----------------------------------------------------------------------------
(* The queue.  A change of its length makes ConnectedClient send the state *)
(* of the player 25 milliseconds later.                                    *)

QueueEvent(s, type, from, to, id, ref) ==
    LET sent == Send(s, [type |-> type, from |-> from, to |-> to, id |-> id, ref |-> ref])
    IN  [sent EXCEPT !.notify = @ \/ type # "entryMoved"]

(* An insertion with a client reference is confirmed by its event.         *)
InsertAtIndex(s, index, entry, ref) ==
    LET id == s.nextId
    IN  QueueEvent([s EXCEPT !.queue = InsertAt(@, index + 1, id), !.nextId = @ + 1,
                             !.entry = @ @@ (id :> entry)],
                   "entryAdded", -1, index, id, ref)

RemoveAtIndex(s, index) ==
    QueueEvent([s EXCEPT !.queue = RemoveAt(@, index + 1)],
               "entryRemoved", index, -1, s.queue[index + 1], 0)

MoveByIndex(s, index, diff) ==
    LET id == s.queue[index + 1]
    IN  QueueEvent([s EXCEPT !.queue = InsertAt(RemoveAt(@, index + 1), index + diff + 1, id)],
                   "entryMoved", index, index + diff, id, 0)

(* The indexes of the entry with an ID: one, or none.                      *)
IndexesOf(s, id) == {i \in 0..Len(s.queue) - 1 : s.queue[i + 1] = id}

RemoveById(s, id) ==
    IF IndexesOf(s, id) = {} THEN s ELSE RemoveAtIndex(s, CHOOSE i \in IndexesOf(s, id) : TRUE)

MoveById(s, id, diff) ==
    LET Possible == {i \in IndexesOf(s, id) : i + diff \in 0..Len(s.queue) - 1}
    IN  IF diff = 0 \/ Possible = {} THEN s
        ELSE MoveByIndex(s, CHOOSE i \in Possible : TRUE, diff)

InsertBreakAtFrontIfNotExists(s) ==
    IF s.queue # << >> /\ s.entry[Head(s.queue)] = 0 THEN s ELSE InsertAtIndex(s, 0, 0, 0)

-----------------------------------------------------------------------------
(* The player.  The end of a track is announced before the next track, and *)
(* that before the new state.                                              *)

RecentHistory(s, limit) ==
    IF limit <= 0 \/ limit > Len(s.history) THEN s.history
    ELSE SubSeq(s.history, Len(s.history) - limit + 1, Len(s.history))

AddToHistory(s, id) ==
    LET added == [s EXCEPT !.history = Append(@, id)]
    IN  Send([added EXCEPT !.history = RecentHistory(added, HistorySize)],
             [type |-> "newHistoryEntry", ids |-> <<id>>])

SetCurrent(s, id) ==
    LET ended == IF s.current = 0 THEN s ELSE AddToHistory(s, s.current)
    IN  IF s.current = 0 /\ id = 0 THEN s
        ELSE SendPlayerState([ended EXCEPT !.current = id])

(* DelayedStart: everyone is told when it has become active or inactive.   *)
DelayedStartActiveChanged(s) ==
    IF s.delayed THEN SendDelayedStartInfo(s) ELSE SendPlayerState(s)

Activate(s) ==
    IF s.delayed THEN s ELSE DelayedStartActiveChanged([s EXCEPT !.delayed = TRUE])

Deactivate(s) ==
    IF s.delayed THEN DelayedStartActiveChanged([s EXCEPT !.delayed = FALSE]) ELSE s

(* When the player starts, a delayed start is no longer needed.            *)
ChangeStateTo(s, state) ==
    LET changed == [s EXCEPT !.state = state]
    IN  IF s.state = state THEN s
        ELSE SendPlayerState(IF state = "Playing" THEN Deactivate(changed) ELSE changed)

(* A break is taken from the queue and ends the playback; a barrier ends   *)
(* it as well, but stays.                                                  *)
FirstEntryIsBarrier(s) == s.queue # << >> /\ s.entry[Head(s.queue)] = -1

StartNext(s, state) ==
    IF s.queue = << >> \/ FirstEntryIsBarrier(s)
    THEN ChangeStateTo(SetCurrent(s, 0), "Stopped")
    ELSE LET id == Head(s.queue)
             taken == RemoveAtIndex(s, 0)
         IN  IF s.entry[id] = 0 THEN ChangeStateTo(SetCurrent(taken, 0), "Stopped")
             ELSE ChangeStateTo(SetCurrent(taken, id), state)

Play(s) ==
    CASE s.state = "Stopped" -> StartNext(s, "Playing")
      [] s.state = "Paused" -> ChangeStateTo(s, "Playing")
      [] OTHER -> s

Pause(s) == IF s.state = "Playing" THEN ChangeStateTo(s, "Paused") ELSE s

SkipTrack(s) == IF s.state = "Stopped" THEN s ELSE StartNext(s, s.state)

SetVolume(s, volume) ==
    IF volume = s.volume THEN s
    ELSE Send([s EXCEPT !.volume = volume], [type |-> "volume", volume |-> volume])

SetUserPlayingFor(s, user) ==
    IF user = s.user THEN s ELSE SendUserPlayingFor([s EXCEPT !.user = user])

SetDynamic(s, enabled) ==
    IF enabled = s.dynamic THEN s ELSE SendDynamicStatus([s EXCEPT !.dynamic = enabled])

SetScrobbling(s, enabled) ==
    IF enabled = s.scrobbling THEN s ELSE SendProviderInfo([s EXCEPT !.scrobbling = enabled])

-----------------------------------------------------------------------------
(* What a request, of any client, changes.                                 *)
NormalIndex(s, r) == IF r.kind = "reverse" THEN Len(s.queue) - r.index ELSE r.index

(* A track must be one that the server knows.                              *)
InsertionError(s, r) ==
    IF r.entry > 0 /\ r.entry \notin DOMAIN Tags THEN "InvalidHash"
    ELSE IF NormalIndex(s, r) \notin 0..Len(s.queue) THEN "InvalidQueueIndex"
    ELSE "none"

Change(s, r) ==
    CASE r.type = "play" -> Play(s)
      [] r.type = "pause" -> Pause(s)
      [] r.type = "skip" -> SkipTrack(s)
      [] r.type = "setVolume" -> SetVolume(s, r.volume)
      [] r.type = "setMode" -> SetUserPlayingFor(s, r.user)
      [] r.type = "setDynamic" -> SetDynamic(s, r.enabled)
      [] r.type = "delayedStart" -> Activate(s)
      [] r.type = "insertBreak" -> InsertBreakAtFrontIfNotExists(s)
      [] r.type = "insert" /\ InsertionError(s, r) = "none" ->
            InsertAtIndex(s, NormalIndex(s, r), r.entry, r.ref)
      [] r.type = "enqueue" /\ r.entry \in DOMAIN Tags ->
            InsertAtIndex(s, IF r.where = "front" THEN 0 ELSE Len(s.queue), r.entry, 0)
      [] r.type = "remove" -> RemoveById(s, r.id)
      [] r.type = "move" -> MoveById(s, r.id, r.diff)
      [] OTHER -> s

(* Entries are found in the queue, in the history and in the player.       *)
CanLookUp(s, id) == id \in ToSet(s.queue) \cup ToSet(s.history) \cup ({s.current} \ {0})

TypeOf(s, id) ==
    IF ~ CanLookUp(s, id) THEN "UnknownId"
    ELSE CASE s.entry[id] = 0 -> "Break"
           [] s.entry[id] = -1 -> "Barrier"
           [] OTHER -> "Track"

InfoOf(s, id) ==
    [id |-> id, type |-> TypeOf(s, id),
     tags |-> IF TypeOf(s, id) = "Track" THEN Tags[s.entry[id]] ELSE "none"]

HashOf(s, id) ==
    [id |-> id, type |-> TypeOf(s, id), hash |-> IF TypeOf(s, id) = "Track" THEN s.entry[id] ELSE 0]

Each(ids, Op(_)) == [i \in DOMAIN ids |-> Op(ids[i])]

Contents(s, start, count) ==
    [type |-> "contents", from |-> start, to |-> Len(s.queue), id |-> 0,
     ids |-> SubSeq(s.queue, start + 1,
                    IF start + count < Len(s.queue) THEN start + count ELSE Len(s.queue))]

(* A request about a file, the statistics of a track or the scrobbling is  *)
(* handed over to another thread.                                          *)
Later(s, r) == [s EXCEPT !.later = Append(@, r)]

-----------------------------------------------------------------------------
(* Requests that have a result.                                            *)
Result(s, code) == Send(s, [type |-> "result", code |-> code])

(* startFullIndexation and startQuickScanForNewFiles: one at a time.       *)
StartRunning(s, kind) ==
    IF s.running # "nothing" THEN Result(s, "OperationAlreadyRunning")
    ELSE Result([s EXCEPT !.running = kind], "NoError")

(* DelayedStart                                                            *)
ActivateDelayedStart(s) ==
    IF s.delayed THEN Result(s, "OperationAlreadyRunning")
    ELSE Result(Activate(s), "NoError")

DeactivateDelayedStart(s) ==
    IF s.delayed THEN Result(Deactivate(s), "NoError")
    ELSE Result(s, "AlreadyDone")

(* The deadline: the delayed start is over before the player starts.       *)
DoStart(s) == DelayedStartActiveChanged(Play([s EXCEPT !.delayed = FALSE]))

(* What is found out with the help of a future comes back later.  The      *)
(* version and the information about a hash are for everyone.              *)
HandleAction(s, r) ==
    CASE ~ s.loggedIn /\ r.kind \notin {"version", "trackinfo"} -> Result(s, "NotLoggedIn")
      [] r.kind \in {"indexation", "scan"} -> StartRunning(s, r.kind)
      [] r.kind = "delayedstart" -> ActivateDelayedStart(s)
      [] r.kind = "cancel" -> DeactivateDelayedStart(s)
      [] r.kind = "version" -> Send(s, [type |-> "version"])
      [] OTHER -> Later(s, r)

(* authenticateForProvider                                                 *)
Authenticate(s) ==
    IF s.scrobbling = "off" THEN Result(s, "ScrobblingProviderNotEnabled")
    ELSE IF ~ s.accepts THEN Result(s, "ScrobblingAuthenticationFailed")
    ELSE Result([s EXCEPT !.authenticated = TRUE], "NoError")

HashReply(s, hash, reply) ==
    IF hash \in DOMAIN Tags THEN Send(s, reply) ELSE Result(s, "InvalidHash")

FinishAction(s, r) ==
    CASE r.kind = "reload" -> Result(s, "NoError")
      [] r.kind = "authenticate" -> Authenticate(s)
      [] r.kind = "trackinfo" ->
            HashReply(s, r.hash, [type |-> "hashInfo", tags |-> IF r.hash \in DOMAIN Tags
                                                               THEN Tags[r.hash] ELSE "none"])
      [] r.kind = "trackhistory" -> HashReply(s, r.hash, [type |-> "historyFragment"])

-----------------------------------------------------------------------------
(* The login, whose two messages of each side are modelled in Session.     *)
LogIn(s, r) ==
    Send([s EXCEPT !.loggedIn = r.right], [type |-> "loginResult", success |-> r.right])

(* handleSingleByteAction: a question is answered to everyone, a command   *)
(* needs a user.                                                           *)
HandleSingleByteAction(s, r) ==
    CASE r.type = "playerState" -> SendPlayerState(s)
      [] r.type = "userPlayingFor" -> SendUserPlayingFor(s)
      [] r.type = "dynamicStatus" -> SendDynamicStatus(s)
      [] r.type = "delayedStartInfo" -> IF s.delayed THEN SendDelayedStartInfo(s) ELSE s
      [] ~ s.loggedIn -> s
      [] r.type = "shutdown" -> [s EXCEPT !.gone = TRUE]
      [] OTHER -> Change(s, r)

(* A question about entries: no answer to one about a single unknown ID.   *)
HandleEntryRequest(s, r) ==
    CASE r.type = "info" /\ CanLookUp(s, r.id) ->
            Send(s, [type |-> "info", entry |-> InfoOf(s, r.id)])
      [] r.type = "bulkInfo" ->
            Send(s, [type |-> "bulkInfo", entries |-> Each(r.ids, LAMBDA id : InfoOf(s, id))])
      [] r.type = "hashes" ->
            Send(s, [type |-> "hashes", entries |-> Each(r.ids, LAMBDA id : HashOf(s, id))])
      [] r.type = "names" /\ TypeOf(s, r.id) = "Track" -> Later(s, r)
      [] OTHER -> s

HandleFetchRequest(s, r) ==
    IF s.loggedIn THEN Send(s, Contents(s, r.start, r.count)) ELSE s

(* An insertion that fails is answered; one that succeeds has its event.   *)
HandleInsertionRequest(s, r) ==
    LET error == IF s.loggedIn THEN InsertionError(s, r) ELSE "NotLoggedIn"
    IN  IF error = "none" THEN Change(s, r)
        ELSE Send(s, [type |-> "insertionFailed", ref |-> r.ref, code |-> error])

HandleQueueChangeRequest(s, r) == IF s.loggedIn THEN Change(s, r) ELSE s

HandleHashUserDataRequest(s, r) == IF s.loggedIn THEN Later(s, r) ELSE s

SendQueueHistory(s, limit) ==
    Send(s, [type |-> "history",
             ids |-> RecentHistory(s, IF limit \in 1..255 THEN limit ELSE 255)])

HandlePlayerHistoryRequest(s, r) == IF s.loggedIn THEN SendQueueHistory(s, r.limit) ELSE s

HandleScrobblingRequest(s, r) == IF s.loggedIn THEN Later(s, r) ELSE s

(* handleStandardBinaryMessage                                             *)
HandleMessage(s, r) ==
    CASE r.type = "login" -> LogIn(s, r)
      [] r.type = "action" -> HandleAction(s, r)
      [] r.type \in {"info", "bulkInfo", "hashes", "names"} -> HandleEntryRequest(s, r)
      [] r.type = "fetch" -> HandleFetchRequest(s, r)
      [] r.type = "insert" -> HandleInsertionRequest(s, r)
      [] r.type \in {"remove", "move", "enqueue"} -> HandleQueueChangeRequest(s, r)
      [] r.type = "hashUserData" -> HandleHashUserDataRequest(s, r)
      [] r.type = "history" -> HandlePlayerHistoryRequest(s, r)
      [] r.type \in {"providerInfo", "setScrobbling"} -> HandleScrobblingRequest(s, r)
      [] OTHER -> HandleSingleByteAction(s, r)

(* What comes back from the other thread.                                  *)
HandleLater(s, r) ==
    CASE r.type = "names" ->
            Send(s, [type |-> "names", id |-> r.id, any |-> s.entry[r.id] \in WithFile])
      [] r.type = "hashUserData" ->
            Send(s, [type |-> "hashUserData", hashes |-> r.hashes \cap DOMAIN Tags])
      [] r.type = "providerInfo" -> SendProviderInfo(s)
      [] r.type = "setScrobbling" -> SetScrobbling(s, r.enabled)
      [] r.type = "action" -> FinishAction(s, r)

(* Those that concern the scrobbling stay in order.                        *)
CanComeBack(s, i) ==
    LET Scrobbling(r) == \/ r.type \in {"providerInfo", "setScrobbling"}
                         \/ r.type = "action" /\ r.kind = "authenticate"
    IN  Scrobbling(s.later[i]) => \A j \in 1..i - 1 : ~ Scrobbling(s.later[j])

NewServer(state, current, queue, entry) ==
    [state |-> state, current |-> current, queue |-> queue, entry |-> entry,
     nextId |-> Cardinality(DOMAIN entry) + 1, history |-> << >>, volume |-> 50,
     user |-> 0, dynamic |-> "off", scrobbling |-> "off", running |-> "nothing",
     delayed |-> FALSE, accepts |-> TRUE, authenticated |-> FALSE, loggedIn |-> FALSE,
     notify |-> FALSE, later |-> << >>, gone |-> FALSE, out |-> << >>]
=============================================================================
