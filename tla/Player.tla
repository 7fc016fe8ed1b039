------------------------------- MODULE Player -------------------------------
(***************************************************************************)
(* The player (src/server/player.cpp) on top of its queue.  Each           *)
(* PlayerInstance wraps one QMediaPlayer; four slots hold the instance     *)
(* that plays, the one being prepared and two that played before.          *)
(* startNext() looks for the next track to play; it calls into the queue   *)
(* and into the instances, whose signals call back into the player before  *)
(* startNext() goes on.  One iteration of its loop is one step here, so    *)
(* that these callbacks can happen in between; "call" is its stack frame.  *)
(*                                                                         *)
(* QMediaPlayer, the preloader and the validity of files are outside this  *)
(* module: whether a file is preloaded or can be loaded is a free choice.  *)
(***************************************************************************)
EXTENDS PlayerQueue, SequencesExt, FiniteSetsExt

CONSTANTS
    Instances,          \* identifiers of player instances, a range 1..N
    MaxPlaybackErrors   \* bound on the number of tracks that fail while playing

ASSUME PlayerConstants ==
    /\ {1, 2, 3} \subseteq Instances /\ Instances \subseteq Nat \ {0}
    /\ MaxPlaybackErrors \in Nat

VARIABLES
    state,              \* _state
    slots,              \* _currentInstance, _nextInstance, _oldInstance1 and 2
    instances,          \* the instances that exist, with their state
    nowPlaying,         \* queue ID of _nowPlaying
    startedTracks,      \* the queue IDs of the tracks with a start time
    historyOrder,       \* _historyOrder
    pendingHistory,     \* the keys of _pendingHistory
    call,               \* what is executing
    errors,             \* playback errors so far
    syncStop            \* QMediaPlayer::stop() reports the stop right away

poolVars == <<slots, instances>>
trackVars == <<state, nowPlaying, startedTracks, errors>>
orderVars == <<historyOrder, pendingHistory>>

playerVars == <<poolVars, trackVars, orderVars, call, syncStop>>

allVars == <<queueVars, playerVars>>

NoInstance == 0

(* A media player of its own: backend is QMediaPlayer::state(), stopping   *)
(* says that it was told to stop, failed that its media is invalid; play() *)
(* on invalid media leaves QMediaPlayer stopped and reports nothing.       *)
NewInstance ==
    [track |-> NoQueueId, mediaSet |-> FALSE, available |-> TRUE,
     deleteAfterStopped |-> FALSE, backend |-> "Stopped", stopping |-> FALSE,
     failed |-> FALSE]

Idle ==
    [phase |-> "idle", stopCurrent |-> FALSE, playNext |-> FALSE,
     oldCurrent |-> NoInstance, next |-> NoInstance, emitter |-> NoInstance,
     entry |-> [queueID |-> NoQueueId, kind |-> "Track"]]

AtRest == call.phase = "idle"

-----------------------------------------------------------------------------
(* The pool of instances: s stands for the slots, insts for the instances. *)

IsAvailable(insts, i) == i # NoInstance /\ insts[i].available

(* deleteAfterStopped(): a stopped instance goes right away.               *)
DeleteAfterStopped(insts, i) ==
    IF insts[i].backend = "Stopped"
    THEN [j \in DOMAIN insts \ {i} |-> insts[j]]
    ELSE [insts EXCEPT ![i].deleteAfterStopped = TRUE]

(* makeSureOneOldInstanceSlotIsFree                                        *)
WithFreeOldSlot(pool) ==
    LET s == pool.slots
    IN  IF s.old1 = NoInstance \/ s.old2 = NoInstance
        THEN pool
        ELSE IF s.next = NoInstance /\ IsAvailable(pool.instances, s.old1)
        THEN [pool EXCEPT !.slots = [s EXCEPT !.next = s.old1, !.old1 = NoInstance]]
        ELSE IF s.next = NoInstance /\ IsAvailable(pool.instances, s.old2)
        THEN [pool EXCEPT !.slots = [s EXCEPT !.next = s.old2, !.old2 = NoInstance]]
        ELSE [slots |-> [s EXCEPT !.old2 = NoInstance],
              instances |-> DeleteAfterStopped(pool.instances, s.old2)]

(* moveToOldInstanceSlot; its third case, where the instance itself has to *)
(* be deleted, cannot occur because a slot has been made free.             *)
MovedToOldSlot(pool, i) ==
    IF i = NoInstance
    THEN pool
    ELSE LET freed == WithFreeOldSlot(pool)
         IN  IF freed.slots.old1 = NoInstance
             THEN [freed EXCEPT !.slots.old1 = i]
             ELSE [freed EXCEPT !.slots.old2 = i]

(* The instance that prepareForFirstTrackFromQueue() prepares, in its slot *)
WithNextInstance(pool) ==
    LET s == pool.slots
        unused == Instances \ DOMAIN pool.instances
    IN  IF s.next # NoInstance
        THEN pool
        ELSE IF IsAvailable(pool.instances, s.old1)
        THEN [pool EXCEPT !.slots = [s EXCEPT !.next = s.old1, !.old1 = NoInstance]]
        ELSE IF IsAvailable(pool.instances, s.old2)
        THEN [pool EXCEPT !.slots = [s EXCEPT !.next = s.old2, !.old2 = NoInstance]]
        ELSE [slots |-> [s EXCEPT !.next = Min(unused)],
              instances |-> [j \in DOMAIN pool.instances \cup {Min(unused)} |->
                                IF j \in DOMAIN pool.instances THEN pool.instances[j]
                                                               ELSE NewInstance]]

Pool == [slots |-> slots, instances |-> instances]

(* tryPrepareTrack: the file is found or not; nothing happens when the     *)
(* instance is still in use or has been prepared for this track already.   *)
IsPrepared(insts, i, id) == insts[i].track = id /\ insts[i].mediaSet

AfterPrepare(insts, i, id, found) ==
    IF ~ insts[i].available \/ IsPrepared(insts, i, id)
    THEN insts
    ELSE [insts EXCEPT ![i].track = id, ![i].mediaSet = found, ![i].failed = FALSE]

CanStart(insts, i, id) == insts[i].available /\ IsPrepared(insts, i, id)

(* PlayerInstance::play(): media that turned out to be invalid stays       *)
(* stopped.                                                                *)
AfterPlay(insts, i) ==
    [insts EXCEPT ![i].available = FALSE,
                  ![i].backend = IF insts[i].failed THEN @ ELSE "Playing"]

(* internalStateChanged(StoppedState), after the signals have been         *)
(* handled.                                                                *)
AfterStopped(insts, i) ==
    IF i \notin DOMAIN insts
    THEN insts
    ELSE IF insts[i].deleteAfterStopped
    THEN [j \in DOMAIN insts \ {i} |-> insts[j]]
    ELSE [insts EXCEPT ![i].available = TRUE]

-----------------------------------------------------------------------------
(* addToHistory: a track is reported to the queue's history when all those *)
(* that were started before it have been; until then it is pending.        *)

(* The pending tracks that can be reported once the first i have been.     *)
Reportable(order, pending) ==
    LET n == Max({k \in 0..Len(order) : \A i \in 1..k : order[i] \in pending})
    IN  SubSeq(order, 1, n)

(* Mistake: a track that is not the first in order is not kept.            *)
AddToPlayerHistoryUnordered(order, id) ==
    LET first == order # << >> /\ Head(order) = id
    IN  /\ historyOrder' = IF first THEN Tail(order) ELSE order
        /\ IF first THEN AddToHistory(id) ELSE UNCHANGED queueVars
        /\ UNCHANGED pendingHistory

AddToPlayerHistory(order, id) ==
    LET ready == IF order # << >> /\ Head(order) = id
                 THEN Reportable(order, pendingHistory \cup {id})
                 ELSE << >>
        all == history \o ready
        excess == Max({0, Len(all) - HistoryLimit})
    IN  /\ historyOrder' = SubSeq(order, Len(ready) + 1, Len(order))
        /\ pendingHistory' = (pendingHistory \cup {id}) \ ToSet(ready)
        /\ history' = SubSeq(all, excess + 1, Len(all))
        /\ idLookup' = idLookup \ {all[i] : i \in 1..excess}
        /\ signals' = << >>
        /\ UNCHANGED <<queue, nextQueueID, firstTrackIndex, firstTrackQueueId>>

NoHistoryChange ==
    UNCHANGED <<orderVars, queueVars>>

-----------------------------------------------------------------------------
(* startNext().                                                            *)

(* Mistake: the next instance stays in its slot while it gets a track.     *)
EnterStartNextShared(insts, stopCurrent, playNext, emitter) ==
    LET pool == MovedToOldSlot([slots |-> [slots EXCEPT !.current = NoInstance],
                                instances |-> insts],
                               slots.current)
    IN  /\ slots' = pool.slots
        /\ instances' = pool.instances
        /\ call' = [Idle EXCEPT !.phase = "loop", !.stopCurrent = stopCurrent,
                                !.playNext = playNext, !.emitter = emitter,
                                !.oldCurrent = slots.current,
                                !.next = pool.slots.next]

(* Up to the loop: insts are the instances, emitter is the one whose       *)
(* signal is being handled, if any.                                        *)
EnterStartNext(insts, stopCurrent, playNext, emitter) ==
    LET pool == MovedToOldSlot([slots |-> [slots EXCEPT !.current = NoInstance],
                                instances |-> insts],
                               slots.current)
    IN  /\ slots' = [pool.slots EXCEPT !.next = NoInstance]
        /\ instances' = pool.instances
        /\ call' = [Idle EXCEPT !.phase = "loop", !.stopCurrent = stopCurrent,
                                !.playNext = playNext, !.emitter = emitter,
                                !.oldCurrent = slots.current,
                                !.next = pool.slots.next]

FirstEntryIsBarrier == queue # << >> /\ queue[1].kind = "Barrier"

(* No more entries, or a barrier: playback will stop.                      *)
NothingToPlay ==
    /\ call.phase = "loop"
    /\ queue = << >> \/ FirstEntryIsBarrier
    /\ call' = [call EXCEPT !.phase = "finish"]
    /\ UNCHANGED <<queueVars, poolVars, trackVars, orderVars, syncStop>>

TakeFromQueue ==
    /\ call.phase = "loop"
    /\ ~ FirstEntryIsBarrier
    /\ Dequeue
    /\ call' = [call EXCEPT !.phase = "dequeued", !.entry = queue[1]]
    /\ UNCHANGED <<poolVars, trackVars, orderVars, syncStop>>

(* A break ends the search.                                                *)
MeetBreak ==
    /\ call.phase = "dequeued"
    /\ call.entry.kind = "Break"
    /\ call' = [call EXCEPT !.phase = "finish"]
    /\ UNCHANGED <<queueVars, poolVars, trackVars, orderVars, syncStop>>

(* tryStartNextTrack on an instance; play() reports "playing" right away.  *)
StartTrack(insts, i, id) ==
    /\ slots' = [slots EXCEPT !.current = i]
    /\ IF call.playNext
       THEN /\ instances' = AfterPlay(insts, i)
            /\ startedTracks' = startedTracks \cup {id}
            /\ state' = "Playing"
       ELSE /\ instances' = insts
            /\ UNCHANGED <<startedTracks, state>>
    /\ historyOrder' = Append(historyOrder, id)
    /\ call' = [call EXCEPT !.phase = "finish"]
    /\ UNCHANGED <<queueVars, pendingHistory, nowPlaying, errors, syncStop>>

(* A track that cannot be loaded is reported as not played.                *)
RejectTrack(insts, id) ==
    /\ instances' = insts
    /\ AddToPlayerHistory(Append(historyOrder, id), id)
    /\ call' = [call EXCEPT !.phase = "loop"]
    /\ UNCHANGED <<slots, trackVars, syncStop>>

TryTrack ==
    /\ call.phase = "dequeued"
    /\ call.entry.kind = "Track"
    /\ call.next # NoInstance
    /\ \E found \in BOOLEAN :
          LET id == call.entry.queueID
              insts == AfterPrepare(instances, call.next, id, found)
          IN  IF CanStart(insts, call.next, id)
              THEN StartTrack(insts, call.next, id)
              ELSE RejectTrack(insts, id)

(* tryPrepareTrack() follows a null pointer: the program is gone.          *)
NoInstanceForTrack ==
    /\ call.phase = "dequeued"
    /\ call.entry.kind = "Track"
    /\ call.next = NoInstance
    /\ call' = [Idle EXCEPT !.phase = "crashed"]
    /\ UNCHANGED <<queueVars, poolVars, trackVars, orderVars, syncStop>>

(* Mistake: the instance that was meant for the next track is lost.        *)
FinishPoolLosesNext(insts, found) ==
    /\ slots' = slots
    /\ instances' = AfterStopped(insts, call.emitter)

(* After the loop: stop what was playing, and when there is nothing to     *)
(* play put the instance that was meant for it back into a slot.           *)
FinishPool(insts, found) ==
    LET pool == IF found THEN [slots |-> slots, instances |-> insts]
                ELSE MovedToOldSlot([slots |-> slots, instances |-> insts], call.next)
    IN  /\ slots' = pool.slots
        /\ instances' = AfterStopped(pool.instances, call.emitter)

MustStopOld ==
    /\ call.stopCurrent
    /\ call.oldCurrent # NoInstance
    /\ instances[call.oldCurrent].backend # "Stopped"

FinishStartNext ==
    /\ call.phase = "finish"
    /\ LET old == call.oldCurrent
           found == slots.current # NoInstance
           stopped == [instances EXCEPT ![old].backend = "Stopped"]
       IN  /\ \/ /\ MustStopOld
                 /\ FinishPool(AfterStopped(stopped, old), found)
                 /\ AddToPlayerHistory(historyOrder, instances[old].track)
              \/ /\ MustStopOld /\ ~ syncStop
                 /\ FinishPool([instances EXCEPT ![old].stopping = TRUE], found)
                 /\ NoHistoryChange
              \/ /\ ~ MustStopOld
                 /\ FinishPool(instances, found)
                 /\ NoHistoryChange
           /\ nowPlaying' = IF found THEN call.entry.queueID ELSE NoQueueId
           /\ state' = IF ~ found THEN "Stopped"
                       ELSE IF call.playNext THEN "Playing" ELSE "Paused"
    /\ call' = Idle
    /\ UNCHANGED <<startedTracks, errors, syncStop>>

(* prepareForFirstTrackFromQueue: called at any time, because the track    *)
(* has just been preloaded or because the current one is about to end, and *)
(* while an entry is taken from the queue, because of firstTrackChanged.   *)
PrepareForFirstTrackFromQueue ==
    /\ call.phase \in {"idle", "dequeued"}
    /\ firstTrackIndex >= 0
    /\ Instances # DOMAIN instances
    /\ \E preloaded \in BOOLEAN :
          LET pool == WithNextInstance(Pool)
          IN  /\ slots' = pool.slots
              /\ instances' = AfterPrepare(pool.instances, pool.slots.next,
                                           queue[firstTrackIndex + 1].queueID,
                                           preloaded)
    /\ UNCHANGED <<queueVars, trackVars, orderVars, call, syncStop>>

-----------------------------------------------------------------------------
(* What the users ask of the player.                                       *)

Play ==
    /\ AtRest
    /\ state = "Stopped"
    /\ EnterStartNext(instances, FALSE, TRUE, NoInstance)
    /\ UNCHANGED <<queueVars, trackVars, orderVars, syncStop>>

Resume ==
    /\ AtRest
    /\ state = "Paused" /\ slots.current # NoInstance
    /\ instances' = AfterPlay(instances, slots.current)
    /\ startedTracks' = startedTracks \cup {instances[slots.current].track}
    /\ state' = "Playing"
    /\ UNCHANGED <<queueVars, orderVars, slots, nowPlaying>>
    /\ UNCHANGED <<call, errors, syncStop>>

Pause ==
    /\ AtRest
    /\ state = "Playing" /\ slots.current # NoInstance
    /\ instances' = [instances EXCEPT ![slots.current].backend =
                        IF @ = "Playing" THEN "Paused" ELSE @]
    /\ state' = "Paused"
    /\ UNCHANGED <<queueVars, orderVars, slots, nowPlaying, startedTracks>>
    /\ UNCHANGED <<call, errors, syncStop>>

Skip ==
    /\ AtRest
    /\ state # "Stopped"
    /\ EnterStartNext(instances, TRUE, state = "Playing", NoInstance)
    /\ UNCHANGED <<queueVars, trackVars, orderVars, syncStop>>

QueueChanges ==
    /\ AtRest
    /\ UserOperation
    /\ UNCHANGED playerVars

-----------------------------------------------------------------------------
(* What the media players report: a change to the stopped state.           *)

Running(i) == instances[i].backend # "Stopped"

Stopped(i) ==
    [instances EXCEPT ![i].backend = "Stopped", ![i].stopping = FALSE]

(* The end of the media, also reached by seeking while paused.             *)
TrackFinished(i) ==
    /\ AtRest
    /\ Running(i)
    /\ AddToPlayerHistory(historyOrder, instances[i].track)
    /\ IF i = slots.current
       THEN EnterStartNext(Stopped(i), FALSE, state = "Playing", i)
       ELSE /\ instances' = AfterStopped(Stopped(i), i)
            /\ UNCHANGED <<slots, call>>
    /\ UNCHANGED <<trackVars, syncStop>>

(* Invalid media: the track is reported, the player's state is kept.       *)
PlaybackError(i) ==
    /\ AtRest
    /\ instances[i].backend = "Playing"
    /\ errors < MaxPlaybackErrors
    /\ errors' = errors + 1
    /\ AddToPlayerHistory(historyOrder, instances[i].track)
    /\ instances' = AfterStopped([Stopped(i) EXCEPT ![i].failed = TRUE], i)
    /\ UNCHANGED <<slots, state, nowPlaying, startedTracks, call, syncStop>>

(* The late report of a stop that was asked for.                           *)
StoppedEarly(i) ==
    /\ AtRest
    /\ instances[i].stopping
    /\ AddToPlayerHistory(historyOrder, instances[i].track)
    /\ instances' = AfterStopped(Stopped(i), i)
    /\ UNCHANGED <<slots, trackVars, call, syncStop>>

-----------------------------------------------------------------------------
PlayerInit ==
    /\ QueueInit
    /\ state = "Stopped"
    /\ slots = [current |-> NoInstance, next |-> 1, old1 |-> 2, old2 |-> 3]
    /\ instances = [i \in {1, 2, 3} |-> NewInstance]
    /\ nowPlaying = NoQueueId
    /\ startedTracks = {}
    /\ historyOrder = << >>
    /\ pendingHistory = {}
    /\ call = Idle
    /\ errors = 0
    /\ syncStop \in BOOLEAN

StartNextStep ==
    \/ NothingToPlay
    \/ TakeFromQueue
    \/ MeetBreak
    \/ TryTrack
    \/ FinishStartNext

PlayerNext ==
    \/ StartNextStep
    \/ NoInstanceForTrack
    \/ PrepareForFirstTrackFromQueue
    \/ Play \/ Resume \/ Pause \/ Skip
    \/ QueueChanges
    \/ \E i \in DOMAIN instances :
          TrackFinished(i) \/ PlaybackError(i) \/ StoppedEarly(i)

PlayerSpec == PlayerInit /\ [][PlayerNext]_allVars

-----------------------------------------------------------------------------
(* Properties.                                                             *)

InstanceState ==
    [track : Nat, mediaSet : BOOLEAN, available : BOOLEAN,
     deleteAfterStopped : BOOLEAN, backend : {"Stopped", "Playing", "Paused"},
     stopping : BOOLEAN, failed : BOOLEAN]

(* Every variable has its type.                                            *)
PlayerTypeOK ==
    /\ state \in {"Stopped", "Playing", "Paused"}
    /\ DOMAIN instances \subseteq Instances
    /\ \A i \in DOMAIN instances : instances[i] \in InstanceState
    /\ slots \in [{"current", "next", "old1", "old2"} ->
                   DOMAIN instances \cup {NoInstance}]
    /\ nowPlaying \in Nat
    /\ startedTracks \in SUBSET Nat
    /\ historyOrder \in Seq(Nat)
    /\ pendingHistory \in SUBSET Nat
    /\ call.phase \in {"idle", "loop", "dequeued", "finish", "crashed"}
    /\ call.next \in DOMAIN instances \cup {NoInstance}
    /\ errors \in 0..MaxPlaybackErrors

(* The places that hold an instance: the slots, and the local variable of  *)
(* startNext() until the instance becomes the current one.                 *)
Holders ==
    <<slots.current, slots.next, slots.old1, slots.old2,
      IF slots.current = call.next THEN NoInstance ELSE call.next>>

(* No instance is in two slots; those in none are to be deleted, and those *)
(* in one are not, so that none is lost or used after its end.  And the    *)
(* instance chosen to be prepared can take a track: with one that is in    *)
(* use, startNext() would reject every track of the queue.                 *)
InstancesAreManaged ==
    /\ \A m, n \in 1..5 :
          m # n /\ Holders[m] # NoInstance => Holders[m] # Holders[n]
    /\ \A i \in DOMAIN instances :
          instances[i].deleteAfterStopped <=> i \notin ToSet(Holders)
    /\ \A i \in {slots.next, call.next} \ {NoInstance, slots.current} :
          instances[i].available

(* A track that will still report its own end.                             *)
WillReport(id) ==
    \E i \in DOMAIN instances :
        instances[i].track = id /\ (i = slots.current \/ Running(i))

(* A track that was started is reported (and may have made room for newer  *)
(* ones since), waits to be reported, or belongs to an instance that will  *)
(* report it: whatever is played gets its history entry, unless a track    *)
(* that was never started is in its way.                                   *)
StartedTracksAreNotLost ==
    AtRest => \A id \in startedTracks :
                 \/ id \in InHistory \/ id \notin idLookup
                 \/ id \in pendingHistory
                 \/ WillReport(id)

(* Once every track has come to its end, nothing is left waiting.          *)
PlayedTracksReachTheHistory ==
    AtRest /\ (\A id \in ToSet(historyOrder) : ~ WillReport(id))
        => pendingHistory = {}

(* startNext() has an instance to work with: it follows no null pointer as *)
(* long as no track has failed while playing and stops are reported right  *)
(* away (otherwise it may: see "Known deviations" in the README).          *)
AlwaysAnInstance == syncStop /\ errors = 0 => call.phase # "crashed"
=============================================================================
