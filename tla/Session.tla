------------------------------ MODULE Session ------------------------------
(***************************************************************************)
(* One connection from its start to its end: a client program and the      *)
(* server, two channels that keep messages in order, and a network that    *)
(* may fall silent.  Both ends handle one message per step; timers, work   *)
(* that the server does later, changes by others and the user of the       *)
(* client come in between.                                                 *)
(*                                                                         *)
(* The contents of the queue have modules of their own (QueueReplication,  *)
(* QueueMediation), and so has the collection; here only the length of the *)
(* queue and the protocol of the collection fetch take part.               *)
(***************************************************************************)
EXTENDS ServerEnd, ClientEnd

CONSTANTS
    SharedTopics,       \* topics that others change
    OwnTopics,          \* topics that the user of the client changes
    RequestKinds,       \* requests with a reference that this user makes
    MaxMoves,           \* bound on what users, others and the network do
    MayOvertake         \* a login may begin before another one has ended

ASSUME SessionConstants ==
    /\ SharedTopics \subseteq Topics /\ OwnTopics \subseteq Topics
    /\ RequestKinds \subseteq {"indexing", "scanning", "delay", "undelay", "insert",
                              "hash info", "collection", "reload", "history"}
    /\ MaxMoves \in Nat /\ MayOvertake \in BOOLEAN

VARIABLES
    client,         \* ServerConnection and controllers
    server,         \* ConnectedClient and ServerInterface
    world,          \* the topics, the users and the salts of the server
    up, down,       \* messages on their way to the server and to the client
    network,        \* "Up" or "Silent"
    subscription,   \* the events that the client program asks for
    moves           \* what users, others and the network have done so far

vars == <<client, server, world, up, down, network, subscription, moves>>

ServerSide == [s |-> server, w |-> world.topics, users |-> world.users,
               salts |-> world.salts, out |-> down]

ClientSide == [c |-> client, out |-> up]

(* What was on its way to an end that has closed its socket is lost.       *)
ServerBecomes(x) ==
    /\ server' = x.s
    /\ world' = [topics |-> x.w, users |-> x.users, salts |-> x.salts]
    /\ down' = x.out

ClientBecomes(y) ==
    /\ client' = y.c
    /\ up' = y.out

OneMove ==
    /\ moves < MaxMoves
    /\ moves' = moves + 1

Init ==
    /\ client = NewClientEnd
    /\ server = NewServerEnd
    /\ world \in [topics : {[t \in Topics |-> IF t = "delayed" THEN d ELSE 0] :
                               d \in {0, 1}},
                  users : {FirstUsers}, salts : {0}]
    /\ up = << >> /\ down = << >>
    /\ network = "Up"
    /\ subscription \in {"All", "Health"}
    /\ moves = 0

-----------------------------------------------------------------------------
(* Connecting and closing.                                                 *)

ConnectToHost ==
    /\ client.state = "NotConnected"
    /\ client' = [client EXCEPT !.state = "Connecting"]
    /\ UNCHANGED <<server, world, up, down, network, subscription, moves>>

(* newConnectionReceived, and onConnected at the client.                   *)
Accept ==
    /\ client.state = "Connecting"
    /\ ServerBecomes(NewConnection(ServerSide))
    /\ client' = [client EXCEPT !.state = "Handshake"]
    /\ UNCHANGED <<up, network, subscription, moves>>

(* onSocketError: the server cannot be reached, or has closed its socket   *)
(* and everything that it sent before was read.                            *)
OnSocketError ==
    /\ \/ client.state = "Connecting"
       \/ client.state \notin {"NotConnected", "Connecting", "Closed"}
          /\ ~ server.open /\ down = << >> /\ network = "Up"
    /\ ClientBecomes(BreakConnection(ClientSide))
    /\ UNCHANGED <<server, world, down, network, subscription, moves>>

(* disconnect: the user, or the end of the client program.                 *)
Disconnect ==
    /\ OneMove
    /\ client.state \notin {"NotConnected", "Closed"}
    /\ ClientBecomes(BreakConnection(ClientSide))
    /\ UNCHANGED <<server, world, down, network, subscription>>

(* TcpServer::shutdown.                                                    *)
ServerShutdown ==
    /\ OneMove
    /\ server.open
    /\ ServerBecomes(TerminateConnection(ServerSide))
    /\ UNCHANGED <<client, up, network, subscription>>

(* The server learns that the client has closed its socket.                *)
SocketDisconnected ==
    /\ server.open /\ client.state = "Closed" /\ network = "Up"
    /\ ServerBecomes(TerminateConnection(ServerSide))
    /\ UNCHANGED <<client, up, network, subscription, moves>>

(* From now on nothing arrives, and neither end is told.                   *)
NetworkFallsSilent ==
    /\ OneMove
    /\ network = "Up" /\ server.open
    /\ network' = "Silent"
    /\ UNCHANGED <<client, server, world, up, down, subscription>>

-----------------------------------------------------------------------------
(* Messages.                                                               *)

ServerReads ==
    /\ network = "Up" /\ server.open /\ up # << >>
    /\ ServerBecomes(DataArrived(ServerSide, Head(up)))
    /\ up' = Tail(up)
    /\ UNCHANGED <<client, network, subscription, moves>>

ClientReads ==
    /\ network = "Up" /\ down # << >>
    /\ client.state \notin {"NotConnected", "Connecting", "Closed"}
    /\ ClientBecomes(OnReadyRead(ClientSide, Head(down), subscription))
    /\ down' = Tail(down)
    /\ UNCHANGED <<server, world, network, subscription, moves>>

-----------------------------------------------------------------------------
(* The server: work that was put off, and changes by others.               *)

PlayerStateTimer ==
    /\ server.pendingStatus
    /\ ServerBecomes(SendStateInfoAfterTimeout(ServerSide))
    /\ UNCHANGED <<client, up, network, subscription, moves>>

RunTask(task) ==
    /\ ServerBecomes(FinishTask(ServerSide, task))
    /\ UNCHANGED <<client, up, network, subscription, moves>>

OthersChange(t) ==
    /\ OneMove
    /\ t \in {"indexing", "scanning"} /\ ~ On(world.topics[t]) =>
          ~ Scanning(world.topics)
    /\ ServerBecomes(IF t = "player" THEN StartPlaying(ServerSide)
                                     ELSE Change(ServerSide, t))
    /\ UNCHANGED <<client, up, network, subscription>>

DelayedStartTimer ==
    /\ OneMove
    /\ On(world.topics["delayed"])
    /\ ServerBecomes(DoStart(ServerSide))
    /\ UNCHANGED <<client, up, network, subscription>>

OtherUserRegisters(user) ==
    /\ OneMove
    /\ user \notin world.users
    /\ world' = [world EXCEPT !.users = @ \cup {user}]
    /\ UNCHANGED <<client, server, up, down, network, subscription>>

-----------------------------------------------------------------------------
(* The client: timers and the user.                                        *)

KeepAliveTimeout ==
    /\ client.keepAlive /\ IsConnected(ClientSide) /\ ~ client.replyCheck
    /\ \/ network = "Up" /\ OneMove
       \/ network = "Silent" /\ UNCHANGED moves
    /\ ClientBecomes(OnKeepAliveTimerTimeout(ClientSide))
    /\ UNCHANGED <<server, world, down, network, subscription>>

ReplyTimeout ==
    /\ client.replyCheck
    /\ ClientBecomes(CheckKeepAliveReply(ClientSide))
    /\ UNCHANGED <<server, world, down, network, subscription, moves>>

UserDoes(y) ==
    /\ OneMove
    /\ IsConnected(ClientSide)
    /\ ClientBecomes(y)
    /\ UNCHANGED <<server, world, down, network, subscription>>

(* The user interface offers no login to a user who is logged in.          *)
LoginAs(user, right) ==
    /\ client.loggedIn = Nobody
    /\ client.loggingIn = Nobody \/ MayOvertake
    /\ UserDoes(Login(ClientSide, user, right))

Register(user) ==
    /\ client.registering = Nobody
    /\ UserDoes(CreateNewUserAccount(ClientSide, user))

GiveCommand(t) == UserDoes(SendBinary(ClientSide, CommandFor(t)))

Insert(possible) ==
    /\ "insert" \in RequestKinds
    /\ UserDoes(SendInsertionRequest(ClientSide, possible))

MakeRequest(kind) ==
    UserDoes(CASE kind \in {"hash info", "history"} -> SendHashRequest(ClientSide, kind)
               [] kind = "collection" -> SendCollectionFetchRequest(ClientSide)
               [] OTHER -> SendActionRequest(ClientSide, kind))

Authenticate == UserDoes(AuthenticateScrobbling(ClientSide))

SwitchScrobbling == UserDoes(SetScrobblingEnabled(ClientSide))

(* The controller for scrobbling is created when its dialog is opened.     *)
OpenScrobblingDialog == UserDoes(RequestScrobblingProviderInfo(ClientSide))

AskFor(kind) == UserDoes(AskOnce(ClientSide, kind))

ShutdownByClient == UserDoes(SendBinary(ClientSide, [type |-> "Shutdown"]))

User ==
    \/ \E user \in Users, right \in BOOLEAN : LoginAs(user, right)
    \/ \E user \in Users : Register(user)
    \/ \E t \in OwnTopics : GiveCommand(t)
    \/ \E possible \in BOOLEAN : Insert(possible)
    \/ \E kind \in RequestKinds \ {"insert"} : MakeRequest(kind)
    \/ Authenticate \/ SwitchScrobbling \/ OpenScrobblingDialog
    \/ \E kind \in {"users", "version"} : AskFor(kind)
    \/ ShutdownByClient
    \/ Disconnect

Timers == PlayerStateTimer \/ KeepAliveTimeout \/ ReplyTimeout

Others ==
    \/ \E t \in SharedTopics : OthersChange(t)
    \/ \E user \in Users : OtherUserRegisters(user)
    \/ DelayedStartTimer
    \/ ServerShutdown \/ NetworkFallsSilent

Next ==
    \/ ConnectToHost \/ Accept \/ OnSocketError \/ SocketDisconnected
    \/ ServerReads \/ ClientReads
    \/ Timers
    \/ \E task \in server.tasks : RunTask(task)
    \/ Others
    \/ User

(* Timers fire; nothing else is needed to notice a silent server.          *)
FairSpec ==
    /\ Init /\ [][Next]_vars
    /\ WF_vars(KeepAliveTimeout) /\ WF_vars(ReplyTimeout)

-----------------------------------------------------------------------------
(* Properties.                                                             *)

BothOpen == server.open /\ IsConnected(ClientSide)

Quiet ==
    /\ BothOpen /\ network = "Up"
    /\ up = << >> /\ down = << >>
    /\ ~ server.pendingStatus

(* Whether the client holds the value of a topic that the server has.  The *)
(* end of a delayed start is of interest only while it is active, and the  *)
(* health only as good or bad.                                             *)
Current(t) ==
    LET known == client.view[t]
        value == world.topics[t]
    IN  CASE t = "delayed" ->
               IF On(value) THEN known = value ELSE known # Unknown /\ ~ Active(known)
          [] t = "health" -> On(known) = On(value)
          [] t = "scrobbling" ->
               client.loggedIn # Nobody /\ known # Unknown => known = value
          [] OTHER -> known = value

(* What the user of a client sees is what the server has, as soon as       *)
(* nothing is on its way: whatever changes while the connection is set up, *)
(* while answers to the opening questions and events overlap, or while the *)
(* message on the state of the player is put off, no change is missed and  *)
(* no older value is written over a newer one.  A program that has asked   *)
(* for the health alone is right about the health.                         *)
CopiesAreCurrent ==
    Quiet => \A t \in IF subscription = "All" THEN Topics ELSE {"health"} : Current(t)

InTransit(channel, Wanted(_)) ==
    Cardinality({i \in DOMAIN channel : Wanted(channel[i])})

IsAnswer(m) == m.type \in {"Result", "AdditionConfirmation", "Reply"}

(* While both ends are connected, each result handler of the client waits  *)
(* for exactly one thing: its request is on its way, or the server is at   *)
(* work on it, or one answer is on its way; so no request of the user      *)
(* interface waits forever and none is answered twice.  The same holds for *)
(* the questions that have no reference, of which one is asked at a time.  *)
(* (An insertion is confirmed by an event, which only a client that has    *)
(* asked for all events receives.)                                         *)
EachRequestIsAnswered ==
    BothOpen =>
        /\ \A h \in client.handlers :
              h.kind # "insert" \/ subscription = "All" =>
              1 = InTransit(up, LAMBDA m : m.type = "Request" /\ m.ref = h.ref)
                  + Cardinality({task \in server.tasks : task.ref = h.ref})
                  + InTransit(down, LAMBDA m : IsAnswer(m) /\ m.ref = h.ref)
        /\ \A kind \in client.promises :
              1 = InTransit(up, LAMBDA m : m.type = "Ask" /\ m.kind = kind)
                  + InTransit(down, LAMBDA m : m.type = "Info" /\ m.kind = kind)

(* A client that takes its user for logged in has a server that does, with *)
(* the same user, also when a second login was begun before the first had  *)
(* ended.  Without such an overlap both ends agree whenever nothing is on  *)
(* its way: a refused login or a salt that is too old leaves neither end   *)
(* waiting.                                                                *)
LoginIsMutual ==
    BothOpen =>
        /\ client.loggedIn # Nobody => server.loggedIn = client.loggedIn
        /\ Quiet /\ ~ client.overtaken =>
              /\ client.loggedIn = server.loggedIn
              /\ client.loggingIn = Nobody /\ server.loggingIn = Nobody

(* A client whose server has fallen silent does not stay connected: the    *)
(* timer asks for a sign of life and the connection is given up when there *)
(* is none.                                                                *)
SilentServerIsNoticed ==
    network = "Silent" /\ IsConnected(ClientSide) ~> ~ IsConnected(ClientSide)
=============================================================================
