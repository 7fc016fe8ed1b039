------------------------------ MODULE ServerEnd ------------------------------
(***************************************************************************)
(* The server's end of one connection: ConnectedClient (src/server/        *)
(* connectedclient.cpp) with its ServerInterface.  Both run in the main    *)
(* thread, each handler to its end, so a handler is an operator here: it   *)
(* takes and returns a record x of                                         *)
(*   x.s      the state of the two objects,                                *)
(*   x.w      the values of the topics,                                    *)
(*   x.users  the user accounts, x.salts the number of salts so far,       *)
(*   x.out    the messages written to the socket.                          *)
(***************************************************************************)
EXTENDS Protocol

CONSTANTS
    FirstUsers,         \* the accounts that exist from the start
    CollectionBatches   \* batches of 30 hashes in the collection

ASSUME ServerEndConstants ==
    /\ FirstUsers \subseteq Users
    /\ CollectionBatches \in Nat

NewServerEnd ==
    [open |-> FALSE, binary |-> FALSE, header |-> FALSE, events |-> FALSE,
     health |-> FALSE, extensions |-> FALSE, pendingStatus |-> FALSE,
     loggingIn |-> Nobody, sessionSalt |-> NoSalt, loggedIn |-> Nobody,
     registering |-> Nobody, registrationSalt |-> NoSalt, tasks |-> {}]

IsLoggedIn(x) == x.s.loggedIn # Nobody

-----------------------------------------------------------------------------
(* Sending.                                                                *)

SendBinaryMessage(x, message) ==
    IF x.s.open /\ x.s.binary THEN [x EXCEPT !.out = Append(@, message)] ELSE x

Status(x, topics) == [type |-> "Status", values |-> [t \in topics |-> x.w[t]]]

SendPlayerStateMessage(x) ==
    SendBinaryMessage(x, Status(x, {"player", "length", "volume", "delayed"}))

SendVolumeMessage(x) == SendBinaryMessage(x, Status(x, {"volume"}))

SendDynamicModeStatusMessage(x) == SendBinaryMessage(x, Status(x, {"dynamic"}))

SendUserPlayingForModeMessage(x) == SendBinaryMessage(x, Status(x, {"user"}))

SendGeneratorWaveStatusMessage(x) == SendBinaryMessage(x, Status(x, {"wave"}))

SendIndexationStatusMessage(x, t) == SendBinaryMessage(x, Status(x, {t}))

SendServerHealthMessage(x) == SendBinaryMessage(x, Status(x, {"health"}))

SendServerHealthMessageIfNotEverythingOkay(x) ==
    IF On(x.w["health"]) THEN SendServerHealthMessage(x) ELSE x

(* The scrobbling messages belong to an extension of the protocol.         *)
SendScrobblingMessage(x) ==
    IF x.s.extensions
    THEN SendBinaryMessage(x, [type |-> "Scrobbling", user |-> x.s.loggedIn,
                                values |-> [t \in {"scrobbling"} |-> x.w[t]]])
    ELSE x

SendDelayedStartInfoMessage(x) ==
    SendBinaryMessage(x, [type |-> "DelayedStartInfo", start |-> x.w["delayed"]])

(* Answers to requests without a reference: versions, names, accounts.     *)
SendInfo(x, kind) == SendBinaryMessage(x, [type |-> "Info", kind |-> kind])

SendKeepAliveReply(x) == SendBinaryMessage(x, [type |-> "KeepAlive"])

SendProtocolExtensionsMessage(x) == SendBinaryMessage(x, [type |-> "Extensions"])

SendResultMessage(x, code, ref, user) ==
    SendBinaryMessage(x, [type |-> "Result", code |-> code, ref |-> ref, user |-> user])

SendResult(x, code, ref) == SendResultMessage(x, code, ref, Nobody)

SendSuccess(x, ref) == SendResult(x, "NoError", ref)

SendQueueEntryAdditionConfirmationMessage(x, ref) ==
    SendBinaryMessage(x, [type |-> "AdditionConfirmation", ref |-> ref])

(* Replies that carry data, with the reference of their request.           *)
SendReply(x, ref) == SendBinaryMessage(x, [type |-> "Reply", ref |-> ref])

SendTrackInfoBatchMessage(x, ref) ==
    SendBinaryMessage(x, [type |-> "TrackInfoBatch", ref |-> ref])

-----------------------------------------------------------------------------
(* Events: what connected signals do when a topic changes.                 *)

SchedulePlayerStateNotification(x) == [x EXCEPT !.s.pendingStatus = TRUE]

SendStateInfoAfterTimeout(x) ==
    SendPlayerStateMessage([x EXCEPT !.s.pendingStatus = FALSE])

OnDelayedStartActiveChanged(x) ==
    IF On(x.w["delayed"]) THEN SendDelayedStartInfoMessage(x)
                          ELSE SendPlayerStateMessage(x)

(* Mistake: the length of the queue is sent by no one.                     *)
OnEventUnscheduled(x, t) ==
    CASE t = "player" -> SendPlayerStateMessage(x)
      [] t = "length" -> x
      [] t = "volume" -> SendVolumeMessage(x)
      [] t = "delayed" -> OnDelayedStartActiveChanged(x)
      [] t = "user" -> SendUserPlayingForModeMessage(x)
      [] t = "dynamic" -> SendDynamicModeStatusMessage(x)
      [] t = "wave" -> SendGeneratorWaveStatusMessage(x)
      [] t \in {"indexing", "scanning"} -> SendIndexationStatusMessage(x, t)

OnEvent(x, t) ==
    CASE t = "player" -> SendPlayerStateMessage(x)
      [] t = "length" -> SchedulePlayerStateNotification(x)
      [] t = "volume" -> SendVolumeMessage(x)
      [] t = "delayed" -> OnDelayedStartActiveChanged(x)
      [] t = "user" -> SendUserPlayingForModeMessage(x)
      [] t = "dynamic" -> SendDynamicModeStatusMessage(x)
      [] t = "wave" -> SendGeneratorWaveStatusMessage(x)
      [] t \in {"indexing", "scanning"} -> SendIndexationStatusMessage(x, t)

(* A topic changes: health is signalled to those who asked for health, the *)
(* scrobbling of a user to that user, the rest to those who asked for all. *)
Change(x, t) ==
    LET y == [x EXCEPT !.w[t] = @ + 1]
    IN  IF t = "health" THEN IF x.s.health THEN SendServerHealthMessage(y) ELSE y
        ELSE IF t = "scrobbling"
             THEN IF IsLoggedIn(x) THEN SendScrobblingMessage(y) ELSE y
        ELSE IF x.s.events THEN OnEvent(y, t) ELSE y

(* The player starts: a delayed start is not needed any more, and the      *)
(* object for it hears of this before the connections do.                  *)
StartPlaying(x) ==
    Change(IF On(x.w["delayed"]) THEN Change(x, "delayed") ELSE x, "player")

(* scheduleTimer, doStart: the delayed start is already inactive when the  *)
(* player is started, but this is signalled afterwards.                    *)
DoStart(x) ==
    LET y == Change([x EXCEPT !.w["delayed"] = @ + 1], "player")
    IN  IF y.s.events THEN OnDelayedStartActiveChanged(y) ELSE y

EnableHealthEvents(x) ==
    IF x.s.health THEN x
    ELSE SendServerHealthMessageIfNotEverythingOkay([x EXCEPT !.s.health = TRUE])

(* enableEvents: the health first; the clock is left out.                  *)
EnableEvents(x) ==
    IF x.s.events THEN x ELSE [EnableHealthEvents(x) EXCEPT !.s.events = TRUE]

-----------------------------------------------------------------------------
(* Commands: one byte, no reference.  Without a user they do nothing.      *)

Command(x, t) ==
    IF ~ IsLoggedIn(x) THEN x
    ELSE IF t = "player" THEN StartPlaying(x) ELSE Change(x, t)

(* requestDynamicModeStatus and requestIndexationStatus emit the signals   *)
(* of the events: only a client that has these receives the answer.        *)
RequestDynamicModeStatus(x) ==
    IF x.s.events
    THEN SendGeneratorWaveStatusMessage(SendDynamicModeStatusMessage(x)) ELSE x

RequestIndexationStatus(x) ==
    IF x.s.events
    THEN SendIndexationStatusMessage(SendIndexationStatusMessage(x, "indexing"),
                                     "scanning")
    ELSE x

SendDelayedStartInfoIfActive(x) ==
    IF On(x.w["delayed"]) THEN SendDelayedStartInfoMessage(x) ELSE x

RequestScrobblingInfo(x) == IF IsLoggedIn(x) THEN SendScrobblingMessage(x) ELSE x

(* terminateConnection: what was going on for this client goes with it.    *)
TerminateConnection(x) == [x EXCEPT !.s = NewServerEnd]

HandleSingleByteAction(x, action) ==
    CASE action = "player state" -> SendPlayerStateMessage(x)
      [] action = "user playing for" -> SendUserPlayingForModeMessage(x)
      [] action = "dynamic mode status" -> RequestDynamicModeStatus(x)
      [] action = "indexation status" -> RequestIndexationStatus(x)
      [] action = "delayed start info" -> SendDelayedStartInfoIfActive(x)
      [] action = "extensions" -> SendProtocolExtensionsMessage(x)
      [] action = "all events" -> EnableEvents(x)
      [] action = "health events" -> EnableHealthEvents(x)
      [] OTHER -> x

-----------------------------------------------------------------------------
(* Requests: they carry a reference that comes back with the result.       *)

(* startFullIndexation and startQuickScanForNewFiles: not when one of them *)
(* is running.                                                             *)
Scanning(w) == On(w["indexing"]) \/ On(w["scanning"])

StartScan(x, t, ref) ==
    IF ~ IsLoggedIn(x) THEN SendResult(x, "NotLoggedIn", ref)
    ELSE IF Scanning(x.w) THEN SendResult(x, "OperationAlreadyRunning", ref)
    ELSE SendSuccess(Change(x, t), ref)

(* DelayedStart::activate and deactivate.                                  *)
SwitchDelayedStart(x, on, ref) ==
    IF ~ IsLoggedIn(x) THEN SendResult(x, "NotLoggedIn", ref)
    ELSE IF On(x.w["delayed"]) = on
    THEN SendResult(x, IF on THEN "OperationAlreadyRunning" ELSE "AlreadyDone", ref)
    ELSE SendSuccess(Change(x, "delayed"), ref)

(* insertTrack, insertSpecialQueueItem, duplicateQueueEntry: the success   *)
(* is only reported by the event for the new entry, with the reference     *)
(* (createQueueInsertionIdNotifier, onQueueEntryAdded).                    *)
InsertIntoQueue(x, possible, ref) ==
    IF ~ IsLoggedIn(x) THEN SendResult(x, "NotLoggedIn", ref)
    ELSE IF ~ possible THEN SendResult(x, "InvalidQueueIndex", ref)
    ELSE LET y == [x EXCEPT !.w["length"] = @ + 1]
         IN  IF y.s.events
             THEN SchedulePlayerStateNotification(
                      SendQueueEntryAdditionConfirmationMessage(y, ref))
             ELSE y

(* Work that is done later, in the event loop or in another thread; whether *)
(* it is permitted is decided now.                                         *)
Later(x, m, permitted) ==
    [x EXCEPT !.s.tasks = @ \cup {[kind |-> m.kind, ref |-> m.ref, step |-> 0,
                                   permitted |-> permitted]}]

(* handleCollectionFetchRequest                                            *)
FetchCollection(x, m) ==
    IF IsLoggedIn(x) THEN Later(x, m, TRUE) ELSE SendResult(x, "NotLoggedIn", m.ref)

(* Needs no user.                                                          *)
GetHashInfo(x, m) == Later(x, m, TRUE)

GetPersonalTrackHistory(x, m) == Later(x, m, IsLoggedIn(x))

AuthenticateScrobblingProvider(x, m) == Later(x, m, IsLoggedIn(x))

HandleParameterlessAction(x, m) ==
    CASE m.kind \in {"indexing", "scanning"} -> StartScan(x, m.kind, m.ref)
      [] m.kind = "undelay" -> SwitchDelayedStart(x, FALSE, m.ref)
      [] m.kind = "reload" -> Later(x, m, IsLoggedIn(x))

HandleRequest(x, m) ==
    CASE m.kind = "delay" -> SwitchDelayedStart(x, TRUE, m.ref)
      [] m.kind = "insert" -> InsertIntoQueue(x, m.possible, m.ref)
      [] m.kind = "hash info" -> GetHashInfo(x, m)
      [] m.kind = "collection" -> FetchCollection(x, m)
      [] m.kind = "history" -> GetPersonalTrackHistory(x, m)
      [] m.kind = "authenticate" -> AuthenticateScrobblingProvider(x, m)
      [] OTHER -> HandleParameterlessAction(x, m)

(* Mistake: the last batch is not followed by a result.                    *)
CollectionFinished(x, task) == x

(* CollectionSender::allSent.                                              *)
OnCollectionTrackInfoCompleted(x, task) == SendSuccess(x, task.ref)

(* CollectionSender::sendNextBatch.                                        *)
SendNextBatch(x, task) ==
    LET y == [x EXCEPT !.s.tasks = @ \ {task}]
    IN  IF task.step = CollectionBatches
        THEN OnCollectionTrackInfoCompleted(y, task)
        ELSE SendTrackInfoBatchMessage(
                 [y EXCEPT !.s.tasks = @ \cup {[task EXCEPT !.step = @ + 1]}], task.ref)

(* The answer to a request for a history or a track is data, that to the   *)
(* others a code.                                                          *)
FinishTask(x, task) ==
    LET y == [x EXCEPT !.s.tasks = @ \ {task}]
    IN  IF task.kind = "collection" THEN SendNextBatch(x, task)
        ELSE IF ~ task.permitted THEN SendResult(y, "NotLoggedIn", task.ref)
        ELSE IF task.kind \in {"history", "hash info"} THEN SendReply(y, task.ref)
        ELSE SendSuccess(y, task.ref)

-----------------------------------------------------------------------------
(* Users.  A salt is a number that was not used before; what is sent of a  *)
(* password is a record that tells which salt it was hashed with.          *)

WithNewSalt(x) == [x EXCEPT !.salts = @ + 1]

InitiateLogin(x, m) ==
    IF IsLoggedIn(x) THEN SendResult(x, "AlreadyLoggedIn", m.ref)
    ELSE IF m.login \notin x.users
    THEN SendResult(x, "AuthenticationFailed", m.ref)
    ELSE SendBinaryMessage(
             [WithNewSalt(x) EXCEPT !.s.loggingIn = m.login,
                                    !.s.sessionSalt = x.salts + 1],
             [type |-> "LoginSalt", login |-> m.login, salt |-> x.salts + 1])

(* Mistake: the user stays the one who was logged in.                      *)
SetLoggedInNobody(s, m) == s

(* setLoggedIn.                                                            *)
SetLoggedIn(s, m) == [s EXCEPT !.loggedIn = m.login]

FinishLogin(x, m) ==
    LET y == [x EXCEPT !.s.loggingIn = Nobody, !.s.sessionSalt = NoSalt]
    IN  IF m.login \notin x.users
        THEN SendResult(x, "AuthenticationFailed", m.ref)
        ELSE IF m.login # x.s.loggingIn \/ m.salt # x.s.sessionSalt
        THEN SendResult(x, "LoginMismatch", m.ref)
        ELSE IF ~ m.right THEN SendResult(y, "AuthenticationFailed", m.ref)
        ELSE SendResultMessage([y EXCEPT !.s = SetLoggedIn(@, m)],
                               "NoError", m.ref, m.login)

(* registerNewAccount looks again whether the account exists.              *)
RegisterNewAccount(x, m) ==
    IF m.login \in x.users
    THEN SendResult(x, "UserAccountAlreadyExists", m.ref)
    ELSE SendResultMessage([x EXCEPT !.users = @ \cup {m.login}],
                           "NoError", m.ref, m.login)

InitiateNewUserAccount(x, m) ==
    IF m.login \in x.users
    THEN SendResult(x, "UserAccountAlreadyExists", m.ref)
    ELSE SendBinaryMessage(
             [WithNewSalt(x) EXCEPT !.s.registering = m.login,
                                    !.s.registrationSalt = x.salts + 1],
             [type |-> "NewAccountSalt", login |-> m.login, salt |-> x.salts + 1])

FinishNewUserAccount(x, m) ==
    LET y == [x EXCEPT !.s.registering = Nobody, !.s.registrationSalt = NoSalt]
    IN  IF m.login # x.s.registering \/ m.salt # x.s.registrationSalt
        THEN SendResult(x, "RegistrationMismatch", m.ref)
        ELSE RegisterNewAccount(y, m)

-----------------------------------------------------------------------------
(* Reading.                                                                *)

(* handleBinaryModeSwitchRequest: "binary" and the header.                 *)
HandleBinaryModeSwitchRequest(x) ==
    IF x.s.binary THEN x
    ELSE [x EXCEPT !.s.binary = TRUE,
                   !.out = @ \o << [type |-> "TextBinary"], [type |-> "Header"] >>]

HandleStandardBinaryMessage(x, m) ==
    CASE m.type = "KeepAlive" -> SendKeepAliveReply(x)
      [] m.type = "Extensions" -> [x EXCEPT !.s.extensions = TRUE]
      [] m.type = "Action" -> HandleSingleByteAction(x, m.action)
      [] m.type = "Ask" -> SendInfo(x, m.kind)
      [] m.type = "Command" -> Command(x, m.topic)
      [] m.type = "Shutdown" -> IF IsLoggedIn(x) THEN TerminateConnection(x) ELSE x
      [] m.type = "ScrobblingInfo" -> RequestScrobblingInfo(x)
      [] m.type = "Request" -> HandleRequest(x, m)
      [] m.type = "InitiateLogin" -> InitiateLogin(x, m)
      [] m.type = "FinishLogin" -> FinishLogin(x, m)
      [] m.type = "InitiateAccount" -> InitiateNewUserAccount(x, m)
      [] m.type = "FinishAccount" -> FinishNewUserAccount(x, m)

DataArrived(x, m) ==
    CASE m.type = "TextBinary" -> HandleBinaryModeSwitchRequest(x)
      [] m.type = "Header" -> [x EXCEPT !.s.header = TRUE]
      [] OTHER -> HandleStandardBinaryMessage(x, m)

(* newConnectionReceived and the constructor: the greeting.                *)
NewConnection(x) ==
    [x EXCEPT !.s = [NewServerEnd EXCEPT !.open = TRUE],
              !.out = Append(@, [type |-> "Greeting"])]
=============================================================================
