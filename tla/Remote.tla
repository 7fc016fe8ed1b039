------------------------------- MODULE Remote -------------------------------
(***************************************************************************)
(* A client program at work: the command line remote with the line that    *)
(* was typed, or the objects of the library that the desktop remote uses,  *)
(* at the server of RemoteServer, to which other clients are connected     *)
(* too.  Messages travel in order in both directions; the connection can   *)
(* be lost once.                                                           *)
(*                                                                         *)
(* An action of the client is one turn of its event loop: a message that   *)
(* is read, a timer, or a call that was postponed.                         *)
(***************************************************************************)
EXTENDS CommandLine, Commands, RemoteServer

CONSTANTS
    Beginnings,          \* the lines (empty for the desktop remote), each with what is
                         \* entered for a login, what the user of the desktop remote is
                         \* busy with, and the server that is met
    WishedVolumes,       \* where the slider of the desktop remote may be moved to
    MaxWishes(_, _),     \* bound on what the user of the desktop remote does, for each
                         \* kind of wish
    OtherRequests(_),    \* what other clients may ask for while a program runs
    MaxOtherChanges(_),  \* bound on what they do
    CanLose              \* the programs during which the connection may be lost

ASSUME BeginningsAssumption ==
    \A b \in Beginnings : b.lines \in 0..2 /\ b.credentials \in {"right", "wrong", "empty"}

VARIABLES
    server,
    client,
    toServer,            \* requests on their way
    toClient,            \* messages on their way, and the states they were sent in
    link,                \* "none", "unreachable", "up", "lost" or, when the client
                         \* knows, "down"
    lastSeen,            \* the state of the server in the last message that was read, or
                         \* in the answer to the request with a future
    excused,             \* what the desktop client is known not to notice
    otherChanges,        \* number of changes by others so far
    ended                \* the process of the client has ended

vars == <<server, client, toServer, toClient, link, lastSeen, excused, otherChanges,
          ended>>

IsCommand == client.words # << >>

(* The desktop remote has been told about the player before the login.     *)
KnowsThePlayer(c, s) ==
    LET told == SendUserPlayingFor(SendPlayerState(s))
        messages == (IF s.delayed THEN SendDelayedStartInfo(told) ELSE told).out
        knows == FoldLeft(LAMBDA x, m : PlayerHears(x, m.msg),
                          [c EXCEPT !.objects = <<"player">>], messages)
    IN  [knows EXCEPT !.out = << >>, !.news = << >>]

(* A command line remote that has not looked at its line yet, or a desktop *)
(* remote that is logged in.                                               *)
NewRemote(b) ==
    LET fresh == NewClient @@ [words |-> b.words, lines |-> b.lines, login |-> FALSE,
                               credentials |-> b.credentials, program |-> NoCommand,
                               window |-> NoWindow, stage |-> "start", command |-> NotStarted, connected |-> FALSE]
    IN  IF b.words # << >> THEN fresh
        ELSE [KnowsThePlayer(fresh, b.server)
                 EXCEPT !.program = [Plain("desktop") EXCEPT !.kind = b.busyWith],
                        !.stage = "ready", !.connected = TRUE]

Init ==
    \E b \in Beginnings :
        /\ server = [b.server EXCEPT !.loggedIn = b.words = << >>] /\ lastSeen = server
        /\ client = NewRemote(b)
        /\ toServer = << >> /\ toClient = << >>
        /\ link = IF b.words = << >> THEN "up" ELSE IF b.reachable THEN "none"
                  ELSE "unreachable"
        /\ excused = {} /\ otherChanges = 0 /\ ended = FALSE

-----------------------------------------------------------------------------
(* main(): the program ends at once if it does not understand its line or  *)
(* cannot get the credentials.                                             *)
Understood(c, parsed) ==
    LET credentials == Credentials(parsed, c.lines, c.credentials)
    IN  IF parsed.command = NoCommand \/ credentials = "error"
        THEN [c EXCEPT !.stage = "failed", !.command.code = 1]
        ELSE [c EXCEPT !.stage = "connecting", !.program = parsed.command,
                       !.login = credentials = "given"]

StartProgram ==
    /\ client.stage = "start"
    /\ client' = Understood(client, Parse(client.words))
    /\ UNCHANGED <<server, toServer, toClient, link, lastSeen, excused, otherChanges, ended>>

(* Nobody answers, or what answers is not a PMP server.                    *)
CannotConnect ==
    /\ client.stage = "connecting" /\ link = "unreachable"
    /\ client' = [client EXCEPT !.stage = "failed", !.command.code = 2]
    /\ UNCHANGED <<server, toServer, toClient, link, lastSeen, excused, otherChanges, ended>>

-----------------------------------------------------------------------------
(* The client has done something that leaves it in state c.                *)
ClientBecomes(c) ==
    /\ client' = [c EXCEPT !.out = << >>]
    /\ toServer' = IF link = "up" THEN toServer \o c.out ELSE toServer

ClientDoes(c) ==
    /\ ~ ended
    /\ ClientBecomes(Deliver(c))
    /\ UNCHANGED <<server, otherChanges, ended>>

ClientStays == UNCHANGED <<toClient, link, lastSeen, excused>>

(* connected(): the user is logged in first, if there is one.              *)
FirstRequests(c) == client' = [c EXCEPT !.out = << >>] /\ toServer' = c.out

Connect ==
    /\ client.stage = "connecting" /\ link = "none"
    /\ link' = "up"
    /\ LET c == [client EXCEPT !.connected = TRUE]
       IN  FirstRequests(IF c.login
                         THEN Ask([c EXCEPT !.stage = "loggingIn"],
                                  LoginRequest(c.credentials = "right"))
                         ELSE Execute([c EXCEPT !.stage = "ready"]))
    /\ UNCHANGED <<server, toClient, lastSeen, excused, otherChanges, ended>>

(* The answer to the login: the command is executed, or the program ends.  *)
LoginAnswered(c, success) ==
    IF success THEN Execute([c EXCEPT !.stage = "ready"])
    ELSE [c EXCEPT !.stage = "failed", !.command.code = 2]

(* The desktop client opens its main window.  It may take another user for *)
(* its own (userforstatisticsdisplay.cpp).                                 *)
OpenMainWindow ==
    /\ ~ IsCommand /\ ~ client.window.open /\ link = "up"
    /\ ClientDoes(OpenWindow(client))
    /\ excused' = IF InitialUser(client) = client.player.user THEN excused
                  ELSE excused \cup {<<"user", 0>>}
    /\ UNCHANGED <<toClient, link, lastSeen>>

(* An answer to a request that has a future completes it; its handler runs *)
(* later.                                                                  *)
Read(c, msg) ==
    IF msg.type = "loginResult" THEN LoginAnswered(c, msg.success)
    ELSE IF IsOutcome(msg) /\ IsCommand THEN [c EXCEPT !.command.due = Append(@, Outcome(msg))]
    ELSE ReceiveAll(c, msg)

(* The IDs of an answer that is discarded are not asked for again; nor are *)
(* those of entries that move up, when one is removed, to where the        *)
(* fetcher looks after them.  The hashes monitor does not hear of entries  *)
(* that are moved from the unknown part of the queue to the known part.    *)
ExcusedBy(c, msg) ==
    CASE msg.type = "bulkInfo" ->
            IF \E e \in ToSet(msg.entries) : e.type = "UnknownId"
            THEN {"info"} \X {e.id : e \in ToSet(msg.entries)} ELSE {}
      [] msg.type = "entryRemoved" /\ msg.from < FetcherZone ->
            {<<"info", EntryAt(c.monitor, FetcherZone)>>}
      [] msg.type = "entryMoved" ->
            {"presence"} \X (ToSet(ReceiveAll(c, msg).monitor.queue) \ ToSet(c.monitor.queue))
      [] OTHER -> {}

ReceiveMessage ==
    /\ toClient # << >> /\ link = "up"
    /\ ClientDoes(Read(client, Head(toClient).msg))
    /\ toClient' = Tail(toClient)
    /\ lastSeen' = IF client.command.code = Success \/ client.command.due # << >>
                   THEN lastSeen ELSE Head(toClient).at
    /\ excused' = excused \cup ExcusedBy(client, Head(toClient).msg)
    /\ UNCHANGED link

CallListener ==
    /\ client.command.calls > 0
    /\ ClientDoes(ListenerSlot([client EXCEPT !.command.calls = @ - 1]))
    /\ ClientStays

HandleFuture ==
    /\ client.command.due # << >>
    /\ ClientDoes(HandleOutcome([client EXCEPT !.command.due = Tail(@)],
                                Head(client.command.due)))
    /\ ClientStays

CommandTimesOut ==
    /\ client.command.timer
    /\ ClientDoes(TimeOut(client))
    /\ ClientStays

TracksChangedTimer ==
    /\ client.storage.changed # {}
    /\ ClientDoes(EmitTracksChanged(client))
    /\ ClientStays

UserDataTimer ==
    /\ \/ client.userData.toFetch # {} /\ ClientDoes(SendPendingRequests(client))
       \/ client.userData.toTell /\ ClientDoes(SendPendingNotifications(client))
    /\ ClientStays

(* The desktop client shows an entry of the queue.                         *)
ShowEntry(index) ==
    /\ ~ IsCommand /\ index < Len(client.monitor.queue)
    /\ LET looked == LookAt(client, index)
       IN  ClientDoes(LookUp(looked, EntryAt(looked.monitor, index)))
    /\ ClientStays

(* It shows a row of the history.                                          *)
ShowHistoryRow(row) ==
    /\ row \in DOMAIN client.window.history
    /\ ClientDoes(ShowRow(client, row))
    /\ ClientStays

(* Its user does something.                                                *)
UserWishes(kind, c) ==
    /\ client.window.open /\ client.window.wishes < MaxWishes(client.program, kind)
    /\ ClientDoes([c EXCEPT !.window.wishes = @ + 1])
    /\ ClientStays

ClickButton ==
    \E button \in Clickable(client.window) :
        UserWishes("click", Click(client, button))

MoveSlider ==
    /\ client.window.volume.shown >= 0
    /\ \E volume \in WishedVolumes : UserWishes("slider", WishVolume(client, volume))

EnqueueFromHistory ==
    \E row \in DOMAIN client.window.history, where \in {"front", "end"} :
        UserWishes("enqueue", EnqueueAgain(client, row, where))

VolumeTimer ==
    /\ client.window.volume.timers > 0
    /\ ClientDoes(SendVolumeChangeRequest(client))
    /\ ClientStays

-----------------------------------------------------------------------------
(* The server has done something that leaves it in state s.                *)
ServerDoes(s) ==
    /\ ~ ended
    /\ server' = [s EXCEPT !.out = << >>]
    /\ toClient' = IF link = "up" THEN toClient \o s.out ELSE toClient
    /\ UNCHANGED <<client, link, lastSeen, excused, ended>>

HandleRequest ==
    /\ toServer # << >> /\ ~ server.gone
    /\ ServerDoes(HandleMessage(server, Head(toServer)))
    /\ toServer' = Tail(toServer)
    /\ UNCHANGED otherChanges

FinishLaterWork ==
    /\ \E i \in DOMAIN server.later :
          /\ CanComeBack(server, i)
          /\ ServerDoes(HandleLater([server EXCEPT !.later = RemoveAt(@, i)], server.later[i]))
    /\ UNCHANGED <<toServer, otherChanges>>

(* sendStateInfoAfterTimeout                                               *)
SendStateInfoAfterTimeout ==
    /\ server.notify
    /\ ServerDoes(SendPlayerState([server EXCEPT !.notify = FALSE]))
    /\ UNCHANGED <<toServer, otherChanges>>

(* The deadline of a delayed start.                                        *)
DelayedStartTimer ==
    /\ server.delayed
    /\ ServerDoes(DoStart(server))
    /\ UNCHANGED <<toServer, otherChanges>>

(* Another client, or the user of another client, has changed something.   *)
ChangeByOthers ==
    /\ link = "up" /\ ~ server.gone
    /\ otherChanges < MaxOtherChanges(client.program)
    /\ \E r \in OtherRequests(client.program) :
          /\ Change(server, r) # server
          /\ ServerDoes(Change(server, r))
    /\ otherChanges' = otherChanges + 1
    /\ UNCHANGED toServer

-----------------------------------------------------------------------------
(* The connection is lost, with all that is on its way.  The program       *)
(* reports it first, unless its command expects it; then the objects       *)
(* forget what they know.                                                  *)
LoseConnection ==
    /\ ~ ended /\ link = "up"
    /\ server.gone \/ client.program.cmd \in CanLose
    /\ link' = "lost"
    /\ LET expected == client.command.started /\ client.program.cmd = "shutdown"
           reported == IF IsCommand /\ ~ expected
                       THEN [client EXCEPT !.command.code = 2] ELSE client
       IN  client' = [LoseAll(reported) EXCEPT !.out = << >>]
    /\ toServer' = << >> /\ toClient' = << >>
    /\ UNCHANGED <<server, lastSeen, excused, otherChanges, ended>>

(* connectedChanged of the server interface                                *)
ConnectedChanges ==
    /\ link = "lost" /\ link' = "down"
    /\ LET c == [client EXCEPT !.connected = FALSE]
       IN  ClientDoes(IF client.program.cmd = "shutdown" /\ client.command.started
                      THEN ListenerSlot(c) ELSE ForgetHistory(c))
    /\ UNCHANGED <<toClient, lastSeen, excused>>

(* The exit code is set: the event loop ends after this turn.              *)
EndProcess ==
    /\ ~ ended /\ client.command.code # NoCode
    /\ ended' = TRUE
    /\ UNCHANGED <<server, client, toServer, toClient, link, lastSeen, excused, otherChanges>>

Next ==
    \/ StartProgram
    \/ CannotConnect
    \/ Connect
    \/ OpenMainWindow
    \/ ReceiveMessage
    \/ CallListener
    \/ HandleFuture
    \/ CommandTimesOut
    \/ TracksChangedTimer
    \/ UserDataTimer
    \/ \E index \in 0..Len(client.monitor.queue) - 1 : ShowEntry(index)
    \/ \E row \in DOMAIN client.window.history : ShowHistoryRow(row)
    \/ ClickButton
    \/ MoveSlider
    \/ EnqueueFromHistory
    \/ VolumeTimer
    \/ HandleRequest
    \/ FinishLaterWork
    \/ SendStateInfoAfterTimeout
    \/ DelayedStartTimer
    \/ ChangeByOthers
    \/ LoseConnection
    \/ ConnectedChanges
    \/ EndProcess

Spec == Init /\ [][Next]_vars

-----------------------------------------------------------------------------
(* What a command has reached when this is the state of the server.        *)

PrintsQueue(s, output) ==
    \A i \in DOMAIN output : output[i] \in {0} \cup (IF i \in DOMAIN s.queue
                                                    THEN {s.queue[i]} ELSE {})

ActionReached(p, s) ==
    CASE p.kind \in {"indexation", "scan"} -> s.running = p.kind
      [] p.kind = "delayedstart" -> s.delayed
      [] p.kind = "cancel" -> ~ s.delayed
      [] p.kind = "authenticate" -> s.authenticated
      [] OTHER -> TRUE

(* The goal of a command that asks for something.                          *)
Reached(c, s) ==
    LET p == c.program
    IN  CASE p.cmd = "play" -> s.state = "Playing"
          [] p.cmd = "pause" -> s.state = "Paused"
          [] p.cmd = "skip" -> c.command.step = 2 /\ s.current # c.command.skipped
          [] p.cmd = "personal" -> s.user = Me
          [] p.cmd = "public" -> s.user = 0
          [] p.cmd = "dynamic" -> s.dynamic = p.enabled
          [] p.cmd = "scrobbling" -> s.scrobbling = p.enabled
          [] p.cmd = "setvolume" -> s.volume = p.volume
          [] p.cmd = "break" -> s.queue # << >> /\ s.entry[Head(s.queue)] = 0
          [] p.cmd \in {"insert", "insertreversed"} ->
                \E i \in DOMAIN s.queue : s.entry[s.queue[i]] = p.entry
          [] p.cmd = "delete" -> p.id \notin ToSet(s.queue)
          [] p.cmd = "move" -> c.command.happened
          [] p.cmd = "shutdown" -> ~ c.connected
          [] p.cmd = "action" -> ActionReached(p, s)
          [] OTHER -> TRUE

(* The output of a command that shows something.                           *)
IsTrueOf(c, s) ==
    LET p == c.program
        output == c.command.output
    IN  CASE p.cmd = "nowplaying" -> output[1] = s.current
                /\ (s.current # 0 => output[2] = s.entry[s.current])
          [] p.cmd = "status" -> output = <<s.state, s.user, s.dynamic>>
          [] p.cmd = "volume" -> output = <<s.volume>>
          [] p.cmd = "scrobblingstatus" -> output = <<s.scrobbling>>
          [] p.cmd = "queue" -> PrintsQueue(s, output)
          [] p.kind = "trackinfo" -> output = <<Tags[p.hash]>>
          [] OTHER -> TRUE

(* A command that reports success has told the truth: what it asked for    *)
(* has happened, and what it prints was so, when the server sent the last  *)
(* message that the client had read.  Not so for a skip, which a lost      *)
(* connection makes believe that the track has changed, and for a reversed *)
(* insertion that has not been sent yet, which takes any entry that is     *)
(* added for its own (queuecommands.cpp).                                  *)
SuccessIsTrue ==
    client.command.code = Success =>
        \/ Reached(client, lastSeen) /\ IsTrueOf(client, lastSeen)
        \/ client.program.cmd = "skip" /\ link # "up"
        \/ client.program.cmd = "insertreversed" /\ client.command.request = 0

(* Nothing is going to happen but the timeout.                             *)
AtRest ==
    /\ link = "up" /\ ~ server.gone /\ ~ server.notify
    /\ toServer = << >> /\ toClient = << >> /\ server.later = << >>
    /\ client.command.calls = 0 /\ client.command.due = << >>
    /\ client.storage.changed = {} /\ client.userData.toFetch = {}
    /\ ~ client.userData.toTell /\ client.window.volume.timers = 0

(* A command that can end: what it asked for is there to be seen, or, for  *)
(* an insertion and for a question, there is an answer.  The removal of an *)
(* entry is only seen when it happens, not when it has happened before;    *)
(* for a track without any tags no file name is asked for when its hash is *)
(* known before its tags (queueentryinfostorageimpl.cpp); and a break that *)
(* is inserted into an empty queue is not looked at (queuecommands.cpp).   *)
CanEnd(c) ==
    CASE c.program.cmd \in {"insert", "insertreversed"} -> TRUE
      [] c.program.cmd = "delete" -> c.command.happened
      [] c.program.cmd = "break" ->
            /\ Reached(c, server)
            /\ Head(server.queue) \in DOMAIN c.storage.entries
      [] c.program.cmd = "nowplaying" ->
            server.current # 0 => Tags[server.entry[server.current]] # "none"
      [] OTHER -> Reached(c, server)

(* A command does not wait for ever: when everything that was on its way   *)
(* has arrived, and the server is in the state that was asked for, the     *)
(* command has noticed it.  Nor does the server wait for a login that the  *)
(* program has not asked for.                                              *)
CommandsGetDone ==
    AtRest /\ IsCommand /\ client.command.code = NoCode =>
        client.command.started /\ ~ CanEnd(client)

(* The program tries to do what its line says if, and only if, the usage   *)
(* text documents such a line and the credentials that the line, or its    *)
(* command, makes it ask for are there; but what comes after "full" or     *)
(* "new" of "start indexation" is never looked at (commandparser.cpp).     *)
HasExtraWords(words) ==
    \E i \in 1..Len(words) - 3 :
        /\ SubSeq(words, i, i + 1) = <<"start", "indexation">>
        /\ words[i + 2] \in {"full", "new"}

(* By the usage text: which commands do not ask for credentials, and how   *)
(* many lines a login reads from the standard input.                       *)
WithoutCredentials(words) ==
    Head(words) \in {"status", "nowplaying", "trackinfo", "serverversion"}
        \/ words = <<"volume">>

LinesToRead(words) ==
    CASE Head(words) # "login" \/ Len(words) < 3 -> 0
      [] words[2] = "-" -> 2
      [] words[3] = "-" -> 1
      [] OTHER -> 0

CredentialsAreThere(words) ==
    \/ WithoutCredentials(words)
    \/ client.credentials # "empty" /\ client.lines >= LinesToRead(words)

OnlyDocumentedCommandsRun ==
    IsCommand /\ client.stage # "start" =>
        \/ client.command.code = 1 <=> \/ ~ Documented(client.words)
                                       \/ ~ CredentialsAreThere(Split(client.words))
        \/ HasExtraWords(Split(client.words))

(* The entries that the desktop client has to know about: the current      *)
(* track, those at the front of the queue, and those it has shown.         *)
ToBeKnown ==
    DOMAIN client.storage.entries \cup ({server.current} \ {0})
        \cup {client.monitor.queue[i] :
                 i \in DOMAIN client.monitor.queue \cap (1..FetcherZone)}

(* When everything that was on its way has arrived, the desktop client     *)
(* knows the type, the hash and the tags of these entries, in spite of     *)
(* what has been added, removed or moved while it was asking.              *)
InfoIsShown ==
    AtRest /\ client.window.open =>
        \A id \in ToBeKnown :
            LET entry == EntryOf(client, id)
            IN  CanLookUp(server, id) /\ <<"info", id>> \notin excused =>
                    /\ entry.type = TypeOf(server, id) /\ entry.hash = server.entry[id]
                    /\ entry.tags = InfoOf(server, id).tags

(* When everything that was on its way has arrived, the hashes monitor     *)
(* shows exactly the tracks of the part of the queue that is known, apart  *)
(* from those that it has not heard of.                                    *)
PresenceIsTrue ==
    AtRest /\ client.window.open =>
        \A hash \in DOMAIN Tags :
            \A id \in ToSet(client.monitor.queue) \cup DOMAIN client.hashes.byId :
                \/ id \in IdsWithHash(client.hashes, hash)
                       <=> /\ id \in ToSet(client.monitor.queue)
                           /\ EntryOf(client, id).hash = hash
                \/ <<"presence", id>> \in excused

(* When everything that was on its way has arrived, the main window shows  *)
(* the player as it is, whatever its user and others have asked for, and   *)
(* in whichever order answers and events have come: the tracks that were   *)
(* played, the volume, the mode that can be chosen, the check box, the     *)
(* title of the current track, and whether one can play or pause.          *)
LabelOf(s) ==
    LET hash == s.entry[s.current]
    IN  CASE s.current = 0 -> "no track"
          [] s.current # 0 /\ Tags[hash] = "title" -> "title"
          [] OTHER -> IF hash \in WithFile THEN "file name" ELSE "no title"

ShownButtons(s) ==
    {b \in {"play", "pause", "toPublicMode", "toPersonalMode", "dynamicMode"} :
        CASE b = "play" -> s.state # "Playing" /\ s.queue # << >>
          [] b = "pause" -> s.state = "Playing"
          [] b = "toPublicMode" -> s.user # 0
          [] b = "toPersonalMode" -> s.user # Me
          [] b = "dynamicMode" -> TRUE}

MainWindowIsCurrent ==
    AtRest /\ client.window.open =>
        LET w == client.window
        IN  /\ w.history = server.history
            /\ w.volume.shown = server.volume
            /\ w.checked = (server.dynamic = "on")
            /\ w.notice = IF server.delayed THEN "until" ELSE "none"
            /\ w.radio = PersonalOrPublic(w.user)
            /\ w.wishes = 0 /\ <<"user", 0>> \notin excused => w.user = server.user
            /\ w.enabled \ {"skip", "trackInfo"} = ShownButtons(server)
            /\ <<"info", server.current>> \notin excused => w.label = LabelOf(server)
=============================================================================
