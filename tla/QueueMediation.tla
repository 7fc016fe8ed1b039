--------------------------- MODULE QueueMediation ---------------------------
(***************************************************************************)
(* The queue that the desktop client shows                                 *)
(* (src/desktop-remote/queuemediator.cpp): the copy of QueueMonitor, to    *)
(* which the user's own removals and moves are applied at once, before the *)
(* server has confirmed them.  A change that comes from the server and is  *)
(* not the next one that is expected undoes everything that is pending.    *)
(* Every change that is made, undone or redone is passed on to the model   *)
(* of the view (QueueModel), which keeps a list of its own.                *)
(***************************************************************************)
EXTENDS QueueReplication, QueueModel

CONSTANTS
    StartLength,         \* the length of the queue when the client starts
    MaxLocalOperations,  \* bound on what the user does
    MaxOtherChanges      \* bound on what others do to the queue

ASSUME MediationConstants ==
    /\ StartLength \in 1..MaximumQueueLength
    /\ MaxLocalOperations \in Nat /\ MaxOtherChanges \in Nat

VARIABLES
    mediator,            \* _myQueue, _queueLength, _pendingOperations; the model
    localOperations,     \* number of operations of the user so far
    otherChanges         \* number of changes by others so far

mediationVars == <<vars, mediator, localOperations, otherChanges>>

(* An entry of the list of which the ID is not known yet.                  *)
Unknown == 0

Operation(type, from, to, id, ids) ==
    [type |-> type, from |-> from, to |-> to, id |-> id, ids |-> ids]

Removal(index, id) == Operation("remove", index, NoIndex, id, << >>)
Movement(from, to, id) == Operation("move", from, to, id, << >>)

-----------------------------------------------------------------------------
(* Operation::execute: whether it succeeds, and what it makes of the list. *)

FitsAt(m, index, id) == index < Len(m.queue) => m.queue[index + 1] = id

TakeFrom(list, index) == IF index < Len(list) THEN DeleteAt(list, index) ELSE list
PutInto(list, index, id) ==
    IF index <= Len(list) THEN Insert(list, index, id) ELSE list

(* The received entries before the first one that is in conflict with what *)
(* is known.                                                               *)
Received(m, op) ==
    LET size == Max({Len(m.queue), op.from + Len(op.ids)})
        list == [i \in 1..size |-> IF i <= Len(m.queue) THEN m.queue[i] ELSE Unknown]
        Conflicts == {k \in 1..Len(op.ids) : list[op.from + k] \notin {Unknown, op.ids[k]}}
        accepted == Min(Conflicts \cup {Len(op.ids) + 1}) - 1
    IN  [ok |-> Conflicts = {},
         list |-> [i \in 1..size |-> IF i \in op.from + 1..op.from + accepted
                                     THEN op.ids[i - op.from] ELSE list[i]]]

CanExecute(m, op) ==
    CASE op.type = "remove" -> op.from < m.length /\ FitsAt(m, op.from, op.id)
      [] op.type = "add" -> op.to <= m.length
      [] op.type = "move" -> /\ op.from < m.length /\ op.to < m.length
                             /\ FitsAt(m, op.from, op.id)
      [] op.type = "info" -> /\ op.from + Len(op.ids) <= m.length
                             /\ Received(m, op).ok

(* An operation that fails changes nothing, except that received entries   *)
(* are taken over up to the conflict.                                      *)
Executed(m, op) ==
    CASE op.type = "info" /\ op.from + Len(op.ids) <= m.length ->
            [m EXCEPT !.queue = Received(m, op).list,
                      !.model = IF Received(m, op).ok /\ Received(m, op).list # m.queue
                                THEN EntriesReceived(@, op.from, op.ids) ELSE @]
      [] op.type = "remove" /\ CanExecute(m, op) ->
            [m EXCEPT !.queue = TakeFrom(@, op.from), !.length = @ - 1,
                      !.model = TrackRemoved(@, op.from)]
      [] op.type = "add" /\ CanExecute(m, op) ->
            [m EXCEPT !.queue = PutInto(@, op.to, op.id), !.length = @ + 1,
                      !.model = TrackAdded(@, op.to, op.id)]
      [] op.type = "move" /\ CanExecute(m, op) ->
            [m EXCEPT !.queue = PutInto(TakeFrom(@, op.from), op.to, op.id),
                      !.model = TrackMoved(@, op.from, op.to, op.id)]
      [] OTHER -> m

(* Operation::rollback, for the operations that can be pending.            *)
CanRollBack(m, op) ==
    IF op.type = "remove" THEN op.from <= Len(m.queue)
    ELSE op.from < m.length /\ op.to < m.length /\ FitsAt(m, op.to, op.id)

RolledBack(m, op) ==
    IF op.type = "remove"
    THEN [m EXCEPT !.queue = Insert(@, op.from, op.id), !.length = @ + 1,
                   !.model = TrackAdded(@, op.from, op.id)]
    ELSE [m EXCEPT !.queue = PutInto(TakeFrom(@, op.to), op.from, op.id),
                   !.model = TrackMoved(@, op.to, op.from, op.id)]

-----------------------------------------------------------------------------
(* QueueMediator                                                           *)

(* doResetQueue and resetQueue: take over the state of the monitor.        *)
ResetTo(length, known) ==
    [queue |-> known, length |-> length, pending |-> << >>,
     model |-> QueueResetted(length, known)]

(* The state after the pending operations, the last one first, have been   *)
(* undone; ok is whether each of them could be.                            *)
AfterRollback(m) ==
    FoldRight(LAMBDA op, r :
                IF r.ok /\ CanRollBack(r.m, op)
                THEN [ok |-> TRUE, m |-> RolledBack(r.m, op)]
                ELSE [ok |-> FALSE, m |-> r.m],
              m.pending, [ok |-> TRUE, m |-> [m EXCEPT !.pending = << >>]])

(* Mistake: an operation from elsewhere is applied without a rollback.     *)
HandleServerOperationWithoutRollback(m, op, length, known) ==
    IF m.pending # << >> /\ Head(m.pending) = op
    THEN [m EXCEPT !.pending = Tail(@)]
    ELSE IF CanExecute(m, op) THEN Executed(m, op) ELSE ResetTo(length, known)

(* handleServerOperation, when the monitor has this length and list.       *)
HandleServerOperation(m, op, length, known) ==
    IF m.pending = << >> THEN Executed(m, op)
    ELSE IF Head(m.pending) = op THEN [m EXCEPT !.pending = Tail(@)]
    ELSE LET r == AfterRollback(m)
         IN  IF r.ok /\ r.m.length = length /\ CanExecute(r.m, op)
             THEN Executed(r.m, op)
             ELSE ResetTo(length, known)

(* The reaction to a signal of the monitor.                                *)
HandleSignal(m, s) ==
    LET Handled(op) == HandleServerOperation(m, op, s.length, s.known)
    IN  CASE s.type = "queueResetted" -> ResetTo(s.length, s.known)
          [] s.type = "entriesReceived" ->
                Handled(Operation("info", s.from, NoIndex, Unknown, s.ids))
          [] s.type = "trackAdded" ->
                Handled(Operation("add", NoIndex, s.to, s.ids[1], << >>))
          [] s.type = "trackRemoved" -> Handled(Removal(s.from, s.ids[1]))
          [] s.type = "trackMoved" -> Handled(Movement(s.from, s.to, s.ids[1]))
          [] OTHER -> m

(* doLocalOperation                                                        *)
DoLocalOperation(op, request) ==
    /\ monitor.created /\ localOperations < MaxLocalOperations
    /\ localOperations' = localOperations + 1
    /\ IF CanExecute(mediator, op)
       THEN /\ mediator' = [Executed(mediator, op) EXCEPT !.pending = Append(@, op)]
            /\ toServer' = Append(toServer, request)
       ELSE /\ mediator' = ResetTo(monitor.length, monitor.queue)
            /\ UNCHANGED toServer
    /\ QueueStays /\ emitted' = << >>
    /\ UNCHANGED <<subscribed, toClient, monitor, lastSeen, early, otherChanges>>

-----------------------------------------------------------------------------
(* The user removes or moves an entry that is shown.                       *)
RemoveTrack(index) ==
    /\ index < Len(mediator.queue) /\ mediator.queue[index + 1] # Unknown
    /\ LET id == mediator.queue[index + 1]
       IN  DoLocalOperation(Removal(index, id), [type |-> "remove", id |-> id])

MoveTrack(index, newIndex) ==
    /\ index < Len(mediator.queue) /\ mediator.queue[index + 1] # Unknown
    /\ newIndex < mediator.length
    /\ LET id == mediator.queue[index + 1]
       IN  DoLocalOperation(Movement(index, newIndex, id),
               [type |-> "move", id |-> id, diff |-> newIndex - index])

(* The server removes or moves the entry with the ID, if that is possible. *)
RequestedOperation(request, index) ==
    \/ request.type = "remove" /\ RemoveAtIndex(index)
    \/ request.type = "move" /\ MoveByIndex(index, request.diff)

Possible(request) ==
    \E i \in 1..Len(queue) :
        /\ queue[i].queueID = request.id
        /\ request.type = "move" => /\ request.diff # 0
                                    /\ i + request.diff \in 1..Len(queue)

HandleRequest ==
    /\ toServer # << >> /\ Head(toServer).type \in {"remove", "move"}
    /\ toServer' = Tail(toServer)
    /\ IF Possible(Head(toServer))
       THEN /\ \E i \in 1..Len(queue) :
                  /\ queue[i].queueID = Head(toServer).id
                  /\ RequestedOperation(Head(toServer), i - 1)
            /\ toClient' = toClient \o Messages(signals')
       ELSE QueueStays /\ UNCHANGED toClient
    /\ emitted' = << >>
    /\ UNCHANGED <<subscribed, monitor, lastSeen, early,
                   mediator, localOperations, otherChanges>>

ChangedByOthers ==
    /\ otherChanges < MaxOtherChanges
    /\ ChangeQueue
    /\ otherChanges' = otherChanges + 1
    /\ UNCHANGED <<mediator, localOperations>>

(* The mediator hears of everything that the monitor emits.                *)
ReceiveAndMediate ==
    /\ ReceiveMessage
    /\ mediator' = FoldLeft(HandleSignal, mediator, emitted')
    /\ UNCHANGED <<localOperations, otherChanges>>

-----------------------------------------------------------------------------
(* The client starts when there is something in the queue already.         *)
MediationInit ==
    /\ queue = [i \in 1..StartLength |-> [queueID |-> i, kind |-> "Track"]]
    /\ idLookup = 1..StartLength
    /\ history = << >>
    /\ nextQueueID = StartLength + 1
    /\ firstTrackIndex = 0 /\ firstTrackQueueId = 1
    /\ signals = << >>
    /\ ReplicationInit
    /\ mediator = ResetTo(0, << >>)
    /\ localOperations = 0 /\ otherChanges = 0

MediationNext ==
    \/ ChangedByOthers
    \/ /\ \/ EnableEvents \/ CreateMonitor \/ AnswerFetchRequest
          \/ \E index \in 0..MaximumQueueLength : LookAtEntry(index)
       /\ UNCHANGED <<mediator, localOperations, otherChanges>>
    \/ ReceiveAndMediate \/ HandleRequest
    \/ \E index \in 0..MaximumQueueLength : RemoveTrack(index)
    \/ \E index, newIndex \in 0..MaximumQueueLength : MoveTrack(index, newIndex)

MediationSpec == MediationInit /\ [][MediationNext]_mediationVars

-----------------------------------------------------------------------------
(* Properties.                                                             *)

(* Every part of the mediator has its type, and its list is not longer     *)
(* than the queue it shows.                                                *)
MediatorTypeOK ==
    /\ TypeOK
    /\ mediator.length \in 0..MaximumQueueLength
    /\ mediator.queue \in Seq(0..MaxQueueID)
    /\ Len(mediator.queue) <= mediator.length
    /\ Len(mediator.pending) <= localOperations

(* What the user sees is the confirmed queue with the user's own pending   *)
(* changes applied to it, whatever else happens to the queue meanwhile.    *)
Predicted ==
    FoldLeft(Executed, [ResetTo(monitor.length, monitor.queue)
                        EXCEPT !.pending = mediator.pending], mediator.pending)

ViewIsPredicted ==
    mediator.queue = Predicted.queue /\ mediator.length = Predicted.length

(* The rows that are shown are those of the mediator: as many, and with    *)
(* the same entries wherever both know the entry, also after moves across  *)
(* the end of the part that is known, and after changes are undone.        *)
RowsAreInStep ==
    LET tracks == mediator.model.tracks IN
    /\ mediator.model.rows = mediator.length
    /\ Len(tracks) <= mediator.length
    /\ \A i \in 1..Len(mediator.queue) :
          mediator.queue[i] # Unknown =>
              i <= Len(tracks) /\ tracks[i] = mediator.queue[i]

(* When nothing is in flight the user sees the queue as it is.             *)
ViewConverges ==
    Quiet => /\ mediator.length = Len(queue)
             /\ IsPrefix(mediator.queue, QueueIds)
=============================================================================
