---------------------------- MODULE QueueMonitor ----------------------------
(***************************************************************************)
(* QueueMonitor (src/client/queuemonitor.cpp), the copy of the queue that  *)
(* a client makes from the events and the parts of the queue that the      *)
(* server sends.  Each operator gives the state after a function of the    *)
(* class that is called in state c; what the function asks of the server   *)
(* and the signals that it emits are collected in "requests" and           *)
(* "signals".  Indexes are those of the code, starting at 0.               *)
(***************************************************************************)
EXTENDS Integers, Sequences, SequencesExt

CONSTANTS
    InitialFetch,        \* initialQueueFetchLength (10)
    FetchMargin,         \* indexMarginForQueueFetch (5)
    ExtraFetch,          \* extraRaiseFetchUpTo (20)
    FetchBatch           \* queueFetchBatchSize (10)

ASSUME MonitorConstants ==
    /\ InitialFetch \in Nat \ {0} /\ FetchMargin \in 0..InitialFetch
    /\ ExtraFetch \in Nat \ {0} /\ FetchBatch \in Nat \ {0}

Nowhere == -1

NotCreated == [created |-> FALSE, queue |-> << >>, length |-> 0, known |-> FALSE,
               target |-> InitialFetch, limit |-> Nowhere, requested |-> 0,
               completed |-> FALSE, requests |-> << >>, signals |-> << >>]

FetchRequest(start, count) == [type |-> "fetch", start |-> start, count |-> count]

-----------------------------------------------------------------------------
SendFetch(c, start, count) ==
    [c EXCEPT !.requests = Append(@, FetchRequest(start, count))]

(* A signal, with knownQueuePart() as a listener would find it.            *)
Emit(c, type, from, to, ids) ==
    [c EXCEPT !.signals = Append(@, [type |-> type, from |-> from, to |-> to,
        ids |-> ids, length |-> c.length, known |-> c.queue])]

(* A signal without parameters.                                            *)
EmitNews(c, type) == Emit(c, type, Nowhere, Nowhere, << >>)

(* A number of entries, cut off at the fetch limit, if one is set.         *)
Limited(c, count) == IF c.limit # Nowhere /\ c.limit < count THEN c.limit ELSE count

SetFetchLimit(c, count) ==
    [c EXCEPT !.limit = count, !.target = IF @ > count THEN count ELSE @]

SendInitialFetch(c) ==
    LET length == IF Limited(c, InitialFetch) = 0 THEN 1 ELSE Limited(c, InitialFetch)
    IN  SendFetch([c EXCEPT !.requested = length], 0, length)

(* updateQueueLength and, when it has done something, queueLengthChanged.  *)
(* The length -1 stands for a lost connection, and counts as known.        *)
UpdateQueueLength(c, length, force) ==
    LET changed == [c EXCEPT !.known = @ \/ length >= 0, !.length = length]
        reset == IF force \/ c.queue # << >>
                 THEN SendInitialFetch([changed EXCEPT !.queue = << >>])
                 ELSE changed
        told == IF length = c.length /\ ~ force
                THEN changed
                ELSE Emit(reset, "queueResetted", Nowhere, Nowhere, << >>)
    IN  IF told = c THEN c ELSE EmitNews(told, "queueLengthChanged")

DoReset(c, length) == UpdateQueueLength([c EXCEPT !.completed = FALSE], length, TRUE)

(* checkFetchCompletedState: without a limit, the first call is enough.    *)
CheckFetchCompleted(c) ==
    IF ~ c.completed /\ (Len(c.queue) = c.length \/ Len(c.queue) >= c.limit)
    THEN EmitNews([c EXCEPT !.completed = TRUE], "fetchCompleted")
    ELSE c

(* checkIfWeNeedToFetchMore                                                *)
FetchMore(before) ==
    LET c == CheckFetchCompleted(before)
    IN  IF c.requested >= c.length THEN [c EXCEPT !.requested = c.length]
        ELSE IF c.requested >= c.target \/ c.requested > Len(c.queue) THEN c
        ELSE SendFetch([c EXCEPT !.requested = @ + FetchBatch], c.requested, FetchBatch)

AppendNewContents(c, ids) ==
    IF ids = << >> THEN c
    ELSE Emit([c EXCEPT !.queue = @ \o ids], "entriesReceived",
              Len(c.queue), Nowhere, ids)

(* verifyQueueContentsOldAndNew                                            *)
ContentsMatch(c, start, ids) ==
    \A i \in 1..Len(ids) : start + i <= Len(c.queue) => c.queue[start + i] = ids[i]

(* Mistake: contents that overlap with the list are appended as a whole.   *)
ReceivedContentsWithoutMerge(c, msg) ==
    LET u == UpdateQueueLength(c, msg.to, FALSE)
    IN  IF msg.ids = << >> THEN CheckFetchCompleted(u)
        ELSE IF msg.from > Len(u.queue)
        THEN FetchMore([u EXCEPT !.requested = Len(u.queue)])
        ELSE FetchMore(AppendNewContents(u, msg.ids))

ReceivedQueueContents(c, msg) ==
    LET u == UpdateQueueLength(c, msg.to, FALSE)
    IN  IF msg.ids = << >> THEN CheckFetchCompleted(u)
        ELSE IF msg.from > Len(u.queue)
        THEN FetchMore([u EXCEPT !.requested = Len(u.queue)])
        ELSE IF ~ ContentsMatch(u, msg.from, msg.ids)
        THEN DoReset(u, msg.to)
        ELSE FetchMore(AppendNewContents(u,
                SubSeq(msg.ids, Len(u.queue) - msg.from + 1, Len(msg.ids))))

(* An index out of range: find out what is going on.                       *)
Investigate(c, index) == IF index > 0 THEN SendFetch(c, c.length, 1) ELSE c

(* Mistake: an entry that is added beyond the list is not counted.         *)
QueueEntryAddedBeyondList(c, msg) ==
    IF msg.to > Len(c.queue) THEN c
    ELSE Emit([c EXCEPT !.length = @ + 1, !.queue = InsertAt(@, msg.to + 1, msg.id),
                  !.requested = IF msg.to < @ THEN @ + 1 ELSE @],
              "trackAdded", Nowhere, msg.to, <<msg.id>>)

QueueEntryAdded(c, msg) ==
    IF msg.to > c.length THEN Investigate(c, msg.to)
    ELSE EmitNews(Emit([c EXCEPT !.length = @ + 1,
                  !.queue = IF msg.to <= Len(@) THEN InsertAt(@, msg.to + 1, msg.id) ELSE @,
                  !.requested = IF msg.to < @ THEN @ + 1 ELSE @],
              "trackAdded", Nowhere, msg.to, <<msg.id>>), "queueLengthChanged")

QueueEntryRemoved(c, msg) ==
    IF msg.from >= c.length THEN Investigate(c, msg.from)
    ELSE IF msg.from < Len(c.queue) /\ c.queue[msg.from + 1] # msg.id
    THEN SendFetch([c EXCEPT !.length = @ - 1], msg.from, 1)
    ELSE LET removed == [c EXCEPT !.length = @ - 1,
                !.queue = IF msg.from < Len(@) THEN RemoveAt(@, msg.from + 1) ELSE @]
         IN  EmitNews(Emit(IF msg.from < c.requested
                           THEN FetchMore([removed EXCEPT !.requested = @ - 1])
                           ELSE removed,
                           "trackRemoved", msg.from, Nowhere, <<msg.id>>),
                      "queueLengthChanged")

(* Mistake: the entry is inserted before it is removed.                    *)
QueueEntryMovedWrongly(c, msg) ==
    IF msg.from >= c.length THEN Investigate(c, msg.from)
    ELSE IF msg.to >= c.length THEN Investigate(c, msg.to)
    ELSE IF msg.from >= Len(c.queue) \/ msg.to > Len(c.queue) THEN c
    ELSE Emit([c EXCEPT !.queue = RemoveAt(InsertAt(@, msg.to + 1, msg.id), msg.from + 1)],
              "trackMoved", msg.from, msg.to, <<msg.id>>)

QueueEntryMoved(c, msg) ==
    IF msg.from >= c.length THEN Investigate(c, msg.from)
    ELSE IF msg.to >= c.length THEN Investigate(c, msg.to)
    ELSE IF msg.from < Len(c.queue) /\ c.queue[msg.from + 1] # msg.id
    THEN SendFetch(c, msg.from, 1)
    ELSE LET without == IF msg.from < Len(c.queue)
                        THEN RemoveAt(c.queue, msg.from + 1) ELSE c.queue
             with == IF msg.to <= Len(without)
                     THEN InsertAt(without, msg.to + 1, msg.id) ELSE without
             diff == Len(with) - Len(c.queue)
             moved == [c EXCEPT !.queue = with, !.requested = @ + diff]
         IN  Emit(IF diff < 0 THEN FetchMore(moved) ELSE moved,
                  "trackMoved", msg.from, msg.to, <<msg.id>>)

Handle(c, msg) ==
    CASE msg.type = "contents" -> ReceivedQueueContents(c, msg)
      [] msg.type = "entryAdded" -> QueueEntryAdded(c, msg)
      [] msg.type = "entryRemoved" -> QueueEntryRemoved(c, msg)
      [] msg.type = "entryMoved" -> QueueEntryMoved(c, msg)

(* gotRequestForEntryAtIndex: raise the target when the index is near it.  *)
GotRequestForEntry(c, index) ==
    IF index < c.target - FetchMargin \/ Limited(c, c.target + 1) <= c.target THEN c
    ELSE FetchMore([c EXCEPT !.target = Limited(c, @ + ExtraFetch)])

(* queueEntry: the entry at an index, 0 if there is none or it is unknown. *)
EntryAt(c, index) == IF index \in 0..Len(c.queue) - 1 THEN c.queue[index + 1] ELSE 0

(* connectionBroken                                                        *)
LoseTheQueue(c) == UpdateQueueLength(c, Nowhere, FALSE)
=============================================================================
