---------------------------- MODULE PlayerQueue ----------------------------
(***************************************************************************)
(* The queue of the player (src/server/playerqueue.cpp): a list of tracks, *)
(* breaks and barriers, the table that finds an entry by its queue ID, the *)
(* short history of entries that left the queue, and a cached position of  *)
(* the first track in the list.  Every operation keeps the cache up to     *)
(* date incrementally and tells the listeners what happened by emitting    *)
(* Qt signals, which are delivered in the course of the operation.         *)
(*                                                                         *)
(* Indexes are those of the code, starting at 0, with -1 for "none"; the   *)
(* entry at index i is queue[i + 1].                                       *)
(***************************************************************************)
EXTENDS Integers, Sequences

CONSTANTS
    MaximumQueueLength,  \* maximumQueueLength (2'000'000 in the code)
    HistoryLimit,        \* entries kept in the recent history (20 in the code)
    TrimLength,          \* what ServerInterface::trimQueue() passes to trim()
    MaxQueueID           \* bound on the number of queue IDs handed out

ASSUME QueueConstants ==
    /\ MaximumQueueLength \in Nat
    /\ HistoryLimit \in Nat
    /\ TrimLength \in Nat
    /\ MaxQueueID \in Nat

VARIABLES
    queue,               \* _queue: the entries, as [queueID, kind] records
    idLookup,            \* the keys of _idLookup
    history,             \* _history: queue IDs, the most recent one last
    nextQueueID,         \* _nextQueueID
    firstTrackIndex,     \* _firstTrackIndex
    firstTrackQueueId,   \* _firstTrackQueueId
    signals              \* what the last operation emitted, in order

queueVars ==
    <<queue, idLookup, history, nextQueueID, firstTrackIndex,
      firstTrackQueueId, signals>>

Kinds == {"Track", "Break", "Barrier"}

NoIndex == -1
NoQueueId == 0

Entry == [queueID : Nat \ {NoQueueId}, kind : Kinds]

IsTrack(entry) == entry.kind = "Track"

(* A position of the first track: an index and a queue ID. *)
NoFirstTrack == [index |-> NoIndex, id |-> NoQueueId]

firstTrack == [index |-> firstTrackIndex, id |-> firstTrackQueueId]

QueueIds == [i \in 1..Len(queue) |-> queue[i].queueID]

InQueue == {queue[i].queueID : i \in 1..Len(queue)}
InHistory == {history[i] : i \in 1..Len(history)}

-----------------------------------------------------------------------------
(* The signals: all have the same shape, so that they have one type.       *)

Signal ==
    [signal : {"entryAdded", "entryRemoved", "entryMoved", "firstTrackChanged"},
     from : Int, to : Int, queueID : Nat]

EntryAdded(index, id) ==
    [signal |-> "entryAdded", from |-> NoIndex, to |-> index, queueID |-> id]

EntryRemoved(index, id) ==
    [signal |-> "entryRemoved", from |-> index, to |-> NoIndex, queueID |-> id]

(* Mistake: the two indexes of the signal are swapped.                     *)
EntryMovedSwapped(index, newIndex, id) ==
    [signal |-> "entryMoved", from |-> newIndex, to |-> index, queueID |-> id]

EntryMoved(index, newIndex, id) ==
    [signal |-> "entryMoved", from |-> index, to |-> newIndex, queueID |-> id]

FirstTrackChanged(first) ==
    [signal |-> "firstTrackChanged", from |-> NoIndex, to |-> first.index,
     queueID |-> first.id]

-----------------------------------------------------------------------------
(* The list operations of QList that the code uses, on 0-based indexes.    *)

Insert(seq, index, e) ==
    [i \in 1..Len(seq) + 1 |->
        IF i <= index THEN seq[i] ELSE IF i = index + 1 THEN e ELSE seq[i - 1]]

DeleteAt(seq, index) ==
    [i \in 1..Len(seq) - 1 |-> IF i <= index THEN seq[i] ELSE seq[i + 1]]

Move(seq, index, newIndex) ==
    [i \in 1..Len(seq) |->
        IF i = newIndex + 1 THEN seq[index + 1]
        ELSE IF i > index /\ i <= newIndex THEN seq[i + 1]
        ELSE IF i > newIndex + 1 /\ i <= index + 1 THEN seq[i - 1]
        ELSE seq[i]]

(* The indexes in start..end-1 of the tracks in list q.                    *)
TrackIndexes(q, start, end) ==
    {i \in start..end - 1 : i < Len(q) /\ IsTrack(q[i + 1])}

(* findFirstTrackBetweenIndices: where the first of those tracks is.  All  *)
(* callers ask for a reset when there is none.                             *)
FindFirstTrackBetween(q, start, end) ==
    IF TrackIndexes(q, start, end) = {}
    THEN NoFirstTrack
    ELSE LET first == CHOOSE i \in TrackIndexes(q, start, end) :
                         \A j \in TrackIndexes(q, start, end) : i <= j
         IN  [index |-> first, id |-> q[first + 1].queueID]

-----------------------------------------------------------------------------
(* How each operation updates the cached first track; the result equals    *)
(* firstTrack exactly when the code clears its firstTrackChange flag.      *)

MovedFirstTrack(diff) ==
    [index |-> firstTrackIndex + diff, id |-> firstTrackQueueId]

FirstTrackAfterInsert(index, entry) ==
    IF (firstTrackIndex < 0 \/ firstTrackIndex >= index) /\ IsTrack(entry)
    THEN [index |-> index, id |-> entry.queueID]
    ELSE IF firstTrackIndex >= 0 /\ firstTrackIndex >= index
         THEN MovedFirstTrack(1)
         ELSE firstTrack

FirstTrackAfterRemove(index) ==
    IF firstTrackIndex < 0 \/ firstTrackIndex < index
    THEN firstTrack
    ELSE IF firstTrackIndex = index
         THEN FindFirstTrackBetween(queue', index, Len(queue) - 1)
         ELSE MovedFirstTrack(-1)

(* Mistake: a track that moves down is not looked for at its new index.    *)
FirstTrackAfterMoveOffByOne(index, newIndex) ==
    IF \/ firstTrackIndex < index /\ firstTrackIndex < newIndex
       \/ firstTrackIndex > index /\ firstTrackIndex > newIndex
    THEN firstTrack
    ELSE IF newIndex < index
         THEN IF IsTrack(queue[index + 1])
              THEN [index |-> newIndex, id |-> queue[index + 1].queueID]
              ELSE MovedFirstTrack(1)
         ELSE IF firstTrackIndex = index
              THEN FindFirstTrackBetween(queue', index, newIndex)
              ELSE MovedFirstTrack(-1)

FirstTrackAfterMove(index, newIndex) ==
    IF \/ firstTrackIndex < index /\ firstTrackIndex < newIndex
       \/ firstTrackIndex > index /\ firstTrackIndex > newIndex
    THEN firstTrack
    ELSE IF newIndex < index
         THEN IF IsTrack(queue[index + 1])
              THEN [index |-> newIndex, id |-> queue[index + 1].queueID]
              ELSE MovedFirstTrack(1)
         ELSE IF firstTrackIndex = index
              THEN FindFirstTrackBetween(queue', index, newIndex + 1)
              ELSE MovedFirstTrack(-1)

(* Store the first track, and emit the operation's own signal followed by  *)
(* firstTrackChanged when the first track is not what it was.              *)
Finish(first, signal) ==
    /\ firstTrackIndex' = first.index
    /\ firstTrackQueueId' = first.id
    /\ signals' = IF first = firstTrack
                  THEN <<signal>>
                  ELSE <<signal, FirstTrackChanged(first)>>

-----------------------------------------------------------------------------
(* The operations.  Those with an argument out of range return an error    *)
(* and change nothing.                                                     *)

CanAddMoreEntries == Len(queue) <= MaximumQueueLength - 1

(* insertAtIndex; enqueue() inserts at the end, insertAtFront() at 0.      *)
InsertAtIndex(index, kind) ==
    /\ index \in 0..Len(queue)
    /\ CanAddMoreEntries
    /\ nextQueueID <= MaxQueueID
    /\ LET entry == [queueID |-> nextQueueID, kind |-> kind]
       IN  /\ queue' = Insert(queue, index, entry)
           /\ idLookup' = idLookup \cup {nextQueueID}
           /\ Finish(FirstTrackAfterInsert(index, entry),
                     EntryAdded(index, nextQueueID))
    /\ nextQueueID' = nextQueueID + 1
    /\ UNCHANGED history

(* ServerInterface::insertBreakAtFrontIfNotExists.                         *)
InsertBreakAtFrontIfNotExists ==
    /\ ~ (queue # << >> /\ queue[1].kind = "Break")
    /\ InsertAtIndex(0, "Break")

(* dequeue: the entry stays in the lookup table, its new owner needs it.   *)
Dequeue ==
    /\ queue # << >>
    /\ queue' = Tail(queue)
    /\ Finish(FirstTrackAfterRemove(0), EntryRemoved(0, queue[1].queueID))
    /\ UNCHANGED <<idLookup, history, nextQueueID>>

(* removeAtIndex, also reached through remove() with the entry's ID.       *)
RemoveAtIndex(index) ==
    /\ index \in 0..Len(queue) - 1
    /\ queue' = DeleteAt(queue, index)
    /\ idLookup' = idLookup \ {queue[index + 1].queueID}
    /\ Finish(FirstTrackAfterRemove(index),
              EntryRemoved(index, queue[index + 1].queueID))
    /\ UNCHANGED <<history, nextQueueID>>

(* moveByIndex, reached through moveById: a move of zero places does       *)
(* nothing, one beyond either end of the queue is refused.                 *)
MoveByIndex(index, indexDiff) ==
    /\ index \in 0..Len(queue) - 1
    /\ indexDiff < 0 => index >= -indexDiff
    /\ indexDiff > 0 => Len(queue) - 1 - indexDiff >= index
    /\ indexDiff # 0
    /\ LET newIndex == index + indexDiff
       IN  /\ queue' = Move(queue, index, newIndex)
           /\ Finish(FirstTrackAfterMove(index, newIndex),
                     EntryMoved(index, newIndex, queue[index + 1].queueID))
    /\ UNCHANGED <<idLookup, history, nextQueueID>>

(* What trim() emits: the entries go one by one, the last one first; when  *)
(* the first track goes, all later tracks went before it.                  *)
TrimSignals(length) ==
    LET n == Len(queue) - length
        Removal(k) == EntryRemoved(Len(queue) - k, queue[Len(queue) - k + 1].queueID)
        plain == [k \in 1..n |-> Removal(k)]
    IN  IF firstTrackIndex < length
        THEN plain
        ELSE Insert(plain, Len(queue) - firstTrackIndex,
                    FirstTrackChanged(NoFirstTrack))

(* trim(): removeAtIndex for the last entry until the queue is short       *)
(* enough.                                                                 *)
Trim(length) ==
    /\ Len(queue) > length
    /\ queue' = SubSeq(queue, 1, length)
    /\ idLookup' = idLookup \ {queue[i].queueID : i \in length + 1..Len(queue)}
    /\ firstTrackIndex' = IF firstTrackIndex < length THEN firstTrackIndex
                                                      ELSE NoIndex
    /\ firstTrackQueueId' = IF firstTrackIndex < length THEN firstTrackQueueId
                                                        ELSE NoQueueId
    /\ signals' = TrimSignals(length)
    /\ UNCHANGED <<history, nextQueueID>>

(* Mistake: the newest entry is the one that can no longer be looked up.   *)
AddToHistoryForgetsNewest(id) ==
    /\ IF Len(history) + 1 > HistoryLimit
       THEN /\ history' = Tail(Append(history, id))
            /\ idLookup' = idLookup \ {id}
       ELSE /\ history' = Append(history, id)
            /\ UNCHANGED idLookup
    /\ signals' = << >>
    /\ UNCHANGED <<queue, nextQueueID, firstTrackIndex, firstTrackQueueId>>

(* addToHistory: the oldest entry makes place and can then no longer be    *)
(* looked up.                                                              *)
AddToHistory(id) ==
    /\ IF Len(history) + 1 > HistoryLimit
       THEN LET all == Append(history, id)
            IN  /\ history' = Tail(all)
                /\ idLookup' = idLookup \ {Head(all)}
       ELSE /\ history' = Append(history, id)
            /\ UNCHANGED idLookup
    /\ signals' = << >>
    /\ UNCHANGED <<queue, nextQueueID, firstTrackIndex, firstTrackQueueId>>

-----------------------------------------------------------------------------
(* Mistake: the first entry gets the ID that stands for "no entry".        *)
QueueInitIdZero ==
    /\ queue = << >>
    /\ idLookup = {}
    /\ history = << >>
    /\ nextQueueID = NoQueueId
    /\ firstTrackIndex = NoIndex
    /\ firstTrackQueueId = NoQueueId
    /\ signals = << >>

QueueInit ==
    /\ queue = << >>
    /\ idLookup = {}
    /\ history = << >>
    /\ nextQueueID = 1
    /\ firstTrackIndex = NoIndex
    /\ firstTrackQueueId = NoQueueId
    /\ signals = << >>

(* The entries that left the front of the queue and are with the player.   *)
Dequeued == idLookup \ (InQueue \cup InHistory)

(* What the connected clients and the generator ask of the queue.          *)
UserOperation ==
    \/ \E index \in 0..Len(queue), kind \in Kinds : InsertAtIndex(index, kind)
    \/ InsertBreakAtFrontIfNotExists
    \/ \E index \in 0..Len(queue) - 1 : RemoveAtIndex(index)
    \/ \E index \in 0..Len(queue) - 1 :
          \E indexDiff \in -Len(queue)..Len(queue) : MoveByIndex(index, indexDiff)
    \/ Trim(TrimLength)

QueueNext ==
    \/ UserOperation
    \/ Dequeue
    \/ \E id \in Dequeued : AddToHistory(id)

QueueSpec == QueueInit /\ [][QueueNext]_queueVars

-----------------------------------------------------------------------------
(* Properties.                                                             *)

(* Every variable has its type.                                            *)
QueueTypeOK ==
    /\ queue \in Seq(Entry)
    /\ idLookup \in SUBSET (Nat \ {NoQueueId})
    /\ history \in Seq(Nat \ {NoQueueId})
    /\ nextQueueID \in Nat \ {NoQueueId}
    /\ firstTrackIndex \in Int
    /\ firstTrackQueueId \in Nat
    /\ signals \in Seq(Signal)

(* The cached position is that of the first track of the queue, after any  *)
(* mix of operations: the player and the preloader only look at the cache, *)
(* peekFirstTrackEntry() indexes the list with it without any check.       *)
FirstTrackIsCached ==
    firstTrack = FindFirstTrackBetween(queue, 0, Len(queue))

(* An ID belongs to one entry, which is in the queue, with the player or   *)
(* in the history but not in two of these, and lookup() finds every entry  *)
(* that is in the queue or in the history.                                 *)
LookupIsConsistent ==
    /\ \A i, j \in 1..Len(queue) :
          queue[i].queueID = queue[j].queueID => i = j
    /\ \A i, j \in 1..Len(history) : history[i] = history[j] => i = j
    /\ InQueue \cap InHistory = {}
    /\ InQueue \cup InHistory \subseteq idLookup
    /\ \A id \in idLookup : id < nextQueueID

(* What a listener that starts from the given view knows once it has       *)
(* processed one signal: connected clients and QueueMonitor keep such a    *)
(* view, the player and the preloader keep its first track.                *)
ViewAfter(view, signal) ==
    CASE signal.signal = "entryAdded" ->
            [view EXCEPT !.ids = Insert(@, signal.to, signal.queueID)]
      [] signal.signal = "entryRemoved" ->
            [view EXCEPT !.ids = DeleteAt(@, signal.from)]
      [] signal.signal = "entryMoved" ->
            [view EXCEPT !.ids = Insert(DeleteAt(@, signal.from), signal.to,
                                        signal.queueID)]
      [] signal.signal = "firstTrackChanged" ->
            [view EXCEPT !.first = [index |-> signal.to, id |-> signal.queueID]]

ViewAfterAll(view, sigs) ==
    LET after[n \in 0..Len(sigs)] ==
            IF n = 0 THEN view ELSE ViewAfter(after[n - 1], sigs[n])
    IN  after[Len(sigs)]

View == [ids |-> QueueIds, first |-> firstTrack]

(* The signals of an operation, replayed in the order of emission, turn a  *)
(* listener's view of the queue before it into the queue after it.         *)
SignalsDescribeTheChange ==
    [][ViewAfterAll(View, signals') = View']_queueVars
=============================================================================
