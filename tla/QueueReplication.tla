-------------------------- MODULE QueueReplication --------------------------
(***************************************************************************)
(* The copy of the queue that a client keeps (QueueMonitor) and the        *)
(* messages that keep it up to date: the changes of the queue that the     *)
(* server sends as they happen, and the parts of the queue that the client *)
(* fetches (src/server/connectedclient.cpp).  Messages travel over one TCP *)
(* connection: in order, each way.                                         *)
(*                                                                         *)
(* The server's side of the queue is PlayerQueue; only tracks are inserted *)
(* because the messages do not tell the kinds of the entries, and dequeue  *)
(* is left out because it sends what the removal of the first entry sends. *)
(* Indexes are those of the code, starting at 0.                           *)
(***************************************************************************)
EXTENDS PlayerQueue, QueueMonitor, FiniteSetsExt

CONSTANTS
    MaxInFlight,         \* bound on the messages in flight to the client
    MaxEarlyEvents       \* bound on the events before the first contents

ASSUME ReplicationConstants ==
    /\ MaxInFlight \in Nat /\ MaxEarlyEvents \in Nat

VARIABLES
    subscribed,          \* ConnectedClient::_eventsEnabled
    toServer,            \* requests in flight
    toClient,            \* messages in flight
    monitor,             \* the state of QueueMonitor
    emitted,             \* what QueueMonitor emitted in the last step
    lastSeen,            \* the queue as it was when that message was sent
    early                \* number of events sent to a monitor that knows nothing

replicationVars ==
    <<subscribed, toServer, toClient, monitor, emitted, lastSeen, early>>

vars == <<queueVars, replicationVars>>

(* Every message carries the queue as it was when it was sent, which the   *)
(* properties use and the client does not.                                 *)
Message(type, from, to, id, ids, state) ==
    [type |-> type, from |-> from, to |-> to, id |-> id, ids |-> ids,
     state |-> state]

-----------------------------------------------------------------------------
(* The server.                                                             *)

(* The queue after the first n of the signals.                             *)
StateAfter(sigs, n) == ViewAfterAll(View, SubSeq(sigs, 1, n)).ids

(* What ConnectedClient makes of the signals: it is not told of the first  *)
(* track.                                                                  *)
Messages(sigs) ==
    LET sent[n \in 0..Len(sigs)] ==
            IF n = 0 THEN << >>
            ELSE IF sigs[n].signal = "firstTrackChanged" THEN sent[n - 1]
            ELSE Append(sent[n - 1],
                        Message(sigs[n].signal, sigs[n].from, sigs[n].to,
                                sigs[n].queueID, << >>, StateAfter(sigs, n)))
    IN  sent[Len(sigs)]

(* No signal is emitted.                                                   *)
QueueStays ==
    /\ UNCHANGED <<queue, idLookup, history, nextQueueID,
                   firstTrackIndex, firstTrackQueueId>>
    /\ signals' = << >>

QueueOperation ==
    \/ \E index \in 0..Len(queue) : InsertAtIndex(index, "Track")
    \/ \E index \in 0..Len(queue) - 1 : RemoveAtIndex(index)
    \/ \E index, newIndex \in 0..Len(queue) - 1 :
          MoveByIndex(index, newIndex - index)
    \/ Trim(TrimLength)

(* Contents have not been sent to the monitor yet.                         *)
WaitsForContents ==
    /\ monitor.created /\ ~ monitor.known
    /\ \A i \in 1..Len(toClient) : toClient[i].type # "contents"

(* Something changes the queue: another client, the player, the generator. *)
ChangeQueue ==
    /\ Len(toClient) < MaxInFlight
    /\ QueueOperation
    /\ toClient' = IF subscribed THEN toClient \o Messages(signals') ELSE toClient
    /\ early' = IF WaitsForContents THEN early + Len(Messages(signals')) ELSE early
    /\ early' <= MaxEarlyEvents
    /\ emitted' = << >>
    /\ UNCHANGED <<subscribed, toServer, monitor, lastSeen>>

(* The client has subscribed to events; its user still has to log in.      *)
EnableEvents ==
    /\ ~ subscribed
    /\ subscribed' = TRUE
    /\ QueueStays /\ emitted' = << >>
    /\ UNCHANGED <<toServer, toClient, monitor, lastSeen, early>>

(* sendQueueContentMessage                                                 *)
QueueContents(request) ==
    Message("contents", request.start, Len(queue), NoQueueId,
            SubSeq(QueueIds, request.start + 1,
                   Min({request.start + request.count, Len(queue)})), QueueIds)

AnswerFetchRequest ==
    /\ toServer # << >> /\ Head(toServer).type = "fetch"
    /\ Len(toClient) < MaxInFlight
    /\ toClient' = Append(toClient, QueueContents(Head(toServer)))
    /\ toServer' = Tail(toServer)
    /\ QueueStays /\ emitted' = << >>
    /\ UNCHANGED <<subscribed, monitor, lastSeen, early>>

-----------------------------------------------------------------------------
(* The monitor's state, what it asks of the server, and what it emits.     *)
MonitorBecomes(c) ==
    /\ monitor' = [c EXCEPT !.requests = << >>, !.signals = << >>]
    /\ toServer' = toServer \o c.requests
    /\ emitted' = c.signals

(* The user interface creates the monitor, once its user has logged in.    *)
CreateMonitor ==
    /\ subscribed /\ ~ monitor.created
    /\ MonitorBecomes(SendInitialFetch([monitor EXCEPT !.created = TRUE]))
    /\ early' = Len(toClient)
    /\ early' <= MaxEarlyEvents
    /\ QueueStays
    /\ UNCHANGED <<subscribed, toClient, lastSeen>>

ReceiveMessage ==
    /\ toClient # << >>
    /\ IF monitor.created
       THEN MonitorBecomes(Handle(monitor, Head(toClient)))
       ELSE emitted' = << >> /\ UNCHANGED <<monitor, toServer>>
    /\ lastSeen' = Head(toClient).state
    /\ toClient' = Tail(toClient)
    /\ QueueStays
    /\ UNCHANGED <<subscribed, early>>

(* The user interface looks at an entry of the queue.                      *)
LookAtEntry(index) ==
    /\ monitor.created /\ index < monitor.length
    /\ index >= monitor.target - FetchMargin
    /\ MonitorBecomes(GotRequestForEntry(monitor, index))
    /\ QueueStays
    /\ UNCHANGED <<subscribed, toClient, lastSeen, early>>

-----------------------------------------------------------------------------
ReplicationInit ==
    /\ subscribed = FALSE
    /\ toServer = << >> /\ toClient = << >>
    /\ monitor = NotCreated
    /\ emitted = << >> /\ lastSeen = << >>
    /\ early = 0

Init == QueueInit /\ ReplicationInit

Next ==
    \/ ChangeQueue \/ EnableEvents \/ AnswerFetchRequest
    \/ CreateMonitor \/ ReceiveMessage
    \/ \E index \in 0..MaximumQueueLength : LookAtEntry(index)

Spec == Init /\ [][Next]_vars

-----------------------------------------------------------------------------
(* Properties.                                                             *)

Quiet == monitor.created /\ toServer = << >> /\ toClient = << >>

(* Every part of the state has its type; the list of the monitor is not    *)
(* longer than the queue that it has heard of.                             *)
TypeOK ==
    /\ subscribed \in BOOLEAN
    /\ monitor.created \in BOOLEAN /\ monitor.known \in BOOLEAN
    /\ monitor.queue \in Seq(1..MaxQueueID)
    /\ monitor.length \in 0..MaximumQueueLength
    /\ monitor.known => Len(monitor.queue) <= monitor.length
    /\ monitor.target \in Nat /\ monitor.requested \in Nat
    /\ Len(toClient) <= MaxInFlight + MaximumQueueLength

(* Once the monitor has received the length of the queue, its list is what *)
(* the queue started with, and its length that of the queue, at the time   *)
(* that the last message was sent: no mix of events and overlapping        *)
(* fetches, and no event from before the first fetch, confuses it.         *)
ListIsPrefix ==
    monitor.known => /\ IsPrefix(monitor.queue, lastSeen)
                     /\ monitor.length = Len(lastSeen)

(* The client sees every state of the queue, in order, and shows a part of *)
(* it that starts at the front (MirroredQueue).                            *)
Promise == INSTANCE MirroredQueue WITH
    unseen <- [i \in 1..Len(toClient) |-> toClient[i].state],
    seen <- lastSeen,
    view <- IF monitor.known THEN monitor.queue ELSE << >>

MirrorsTheQueue == Promise!Mirror

(* When nothing is in flight the client has what it needs to show: the     *)
(* length of the queue, and its entries as far as they were asked for.     *)
EverythingIsFetched ==
    Quiet => Len(monitor.queue) >= Min({Len(queue), monitor.target})

(* An inconsistency triggers a reset: when nothing is in flight the list   *)
(* of the client is again a part of the queue.                             *)
InconsistencyIsRepaired == Quiet => IsPrefix(monitor.queue, QueueIds)
=============================================================================
