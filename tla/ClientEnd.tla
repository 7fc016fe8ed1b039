------------------------------ MODULE ClientEnd ------------------------------
(***************************************************************************)
(* The client's end of one connection: ServerConnection (src/client/       *)
(* serverconnection.cpp), which exists for one connection only, and the    *)
(* controllers that keep what the server tells for the user interface      *)
(* (player, dynamic mode, general, authentication, scrobbling).  All of it *)
(* runs in one thread; a handler is an operator on a record y of           *)
(*   y.c    the state of these objects,                                    *)
(*   y.out  the messages written to the socket.                            *)
(***************************************************************************)
EXTENDS Protocol

Unknown == -1       \* nothing was received yet
NoDeadline == -2    \* delayed start: active, its deadline was not received yet

(* What the controllers hold; the health is fine unless the server says    *)
(* otherwise.                                                              *)
NothingKnown == [t \in Topics |-> IF t = "health" THEN 0 ELSE Unknown]

NewClientEnd ==
    [state |-> "NotConnected", extensions |-> FALSE, nextRef |-> 1,
     loginRef |-> NoRef, loggingIn |-> Nobody, right |-> FALSE,
     loggedIn |-> Nobody, overtaken |-> FALSE, accountRef |-> NoRef,
     registering |-> Nobody, handlers |-> {}, promises |-> {}, cached |-> {},
     view |-> NothingKnown, keepAlive |-> FALSE, replyCheck |-> FALSE,
     heard |-> FALSE]

IsConnected(y) == y.c.state = "BinaryMode"

-----------------------------------------------------------------------------
(* Sending.                                                                *)

SendBinary(y, message) == [y EXCEPT !.out = Append(@, message)]

SendSingleByteAction(y, action) == SendBinary(y, Action(action))

SendKeepAlive(y) == SendBinary(y, [type |-> "KeepAlive"])

SendExtensions(y) == SendBinary(y, [type |-> "Extensions"])

(* getNewClientReference                                                   *)
WithNewReference(y) == [y EXCEPT !.c.nextRef = @ + 1]

(* registerResultHandler, and a request with the new reference.            *)
SendRequest(y, kind, possible) ==
    LET ref == y.c.nextRef
    IN  SendBinary([WithNewReference(y) EXCEPT
                        !.c.handlers = @ \cup {[ref |-> ref, kind |-> kind]}],
                   Request(kind, ref, possible))

(* reloadServerSettings, startFullIndexation, activateDelayedStart, ...     *)
SendActionRequest(y, kind) == SendRequest(y, kind, TRUE)

(* The place in the queue may be gone when the request arrives.            *)
SendInsertionRequest(y, possible) == SendRequest(y, "insert", possible)

(* sendHashInfoRequest, sendHashHistoryRequest                             *)
SendHashRequest(y, kind) == SendRequest(y, kind, TRUE)

SendCollectionFetchRequest(y) == SendRequest(y, "collection", TRUE)

(* The scrobbling extension is only used when the server has announced it; *)
(* without it the future of the request is finished at once.               *)
AuthenticateScrobbling(y) ==
    IF y.c.extensions THEN SendRequest(y, "authenticate", TRUE) ELSE y

RequestScrobblingProviderInfo(y) ==
    IF y.c.extensions THEN SendBinary(y, [type |-> "ScrobblingInfo"]) ELSE y

SetScrobblingEnabled(y) ==
    IF y.c.extensions THEN SendBinary(y, CommandFor("scrobbling")) ELSE y

(* getUserAccounts, LazyPromisedValue::future: one request at a time.  The *)
(* version is kept once it is known.                                       *)
AskOnce(y, kind) ==
    IF kind \in y.c.promises \cup y.c.cached THEN y
    ELSE SendBinary([y EXCEPT !.c.promises = @ \cup {kind}], Ask(kind))

-----------------------------------------------------------------------------
(* Users.                                                                  *)

Login(y, user, right) ==
    SendBinary([WithNewReference(y) EXCEPT
                    !.c.overtaken = @ \/ y.c.loggingIn # Nobody,
                    !.c.loginRef = y.c.nextRef, !.c.loggingIn = user,
                    !.c.right = right],
               Initiate("InitiateLogin", user, y.c.nextRef))

(* createNewUserAccount                                                    *)
CreateNewUserAccount(y, user) ==
    SendBinary([WithNewReference(y) EXCEPT !.c.accountRef = y.c.nextRef,
                                           !.c.registering = user],
               Initiate("InitiateAccount", user, y.c.nextRef))

HandleLoginSalt(y, m) ==
    IF m.login # y.c.loggingIn THEN y
    ELSE SendBinary(y, Finish("FinishLogin", m.login, y.c.loginRef, m.salt,
                              y.c.right))

HandleNewUserSalt(y, m) ==
    IF m.login # y.c.registering THEN y
    ELSE SendBinary(y, Finish("FinishAccount", m.login, y.c.accountRef, m.salt,
                              TRUE))

HandleUserLoginResult(y, m) ==
    [y EXCEPT !.c.right = FALSE, !.c.loggingIn = Nobody,
              !.c.loggedIn = IF m.code = "NoError" THEN m.user ELSE @]

HandleUserRegistrationResult(y, m) == [y EXCEPT !.c.registering = Nobody]

-----------------------------------------------------------------------------
(* Receiving.                                                              *)

Active(deadline) ==
    deadline = NoDeadline \/ (deadline # Unknown /\ On(deadline))

(* A status message for some topics; that on the state of the player says  *)
(* of the delayed start whether it is active, not when it ends, and the    *)
(* client asks for that when it did not know (receivedPlayerState).        *)
UpdateView(y, values) ==
    [y EXCEPT !.c.view = [t \in Topics |->
        IF t \in DOMAIN values \ {"delayed"} THEN values[t] ELSE @[t]]]

ReceivedPlayerState(y, values) ==
    LET z == UpdateView(y, values)
    IN  IF ~ On(values["delayed"])
        THEN [z EXCEPT !.c.view["delayed"] = values["delayed"]]
        ELSE IF Active(y.c.view["delayed"]) THEN z
        ELSE SendSingleByteAction([z EXCEPT !.c.view["delayed"] = NoDeadline],
                                  "delayed start info")

ReceivedStatus(y, values) ==
    IF "delayed" \in DOMAIN values THEN ReceivedPlayerState(y, values)
                                   ELSE UpdateView(y, values)

ReceivedDelayedStartInfo(y, m) == [y EXCEPT !.c.view["delayed"] = m.start]

(* The answer to a request without a reference.                            *)
ReceivedInfo(y, m) ==
    [y EXCEPT !.c.promises = @ \ {m.kind},
              !.c.cached = @ \cup ({m.kind} \cap {"version"})]

TakeHandler(y, ref) ==
    [y EXCEPT !.c.handlers = {h \in @ : h.ref # ref}]

ReceivedAdditionConfirmation(y, m) == TakeHandler(y, m.ref)

(* The answer to a request for data.                                       *)
ReceivedReply(y, m) == TakeHandler(y, m.ref)

(* What concerns another user is ignored.                                  *)
ReceivedScrobbling(y, m) ==
    IF m.user = y.c.loggedIn THEN UpdateView(y, m.values) ELSE y

HandleResultMessage(y, m) ==
    IF m.ref = y.c.loginRef THEN HandleUserLoginResult(y, m)
    ELSE IF m.ref = y.c.accountRef THEN HandleUserRegistrationResult(y, m)
    ELSE TakeHandler(y, m.ref)

(* "connected" makes the controllers ask for what they have to know, except *)
(* that for scrobbling: nobody is logged in yet.                           *)
OpeningQuestions ==
    << Action("player state"), Action("user playing for"),
       Action("dynamic mode status"), Action("indexation status") >>

(* What is written in BinaryHandshake.                                     *)
EventRequest(subscription) ==
    Action(IF subscription = "All" THEN "all events" ELSE "health events")

(* Mistake: the state is requested before the events.                      *)
OpeningMessagesEventsLast(subscription) ==
    << Action("extensions"), [type |-> "Extensions"] >> \o OpeningQuestions
    \o << EventRequest(subscription) >>

OpeningMessages(subscription) ==
    << Action("extensions"), [type |-> "Extensions"], EventRequest(subscription) >>
    \o OpeningQuestions

(* Mistake: the keep-alive timer waits for the first message.              *)
EnterBinaryModeUntimed(y, subscription) ==
    [y EXCEPT !.c.state = "BinaryMode",
              !.out = @ \o OpeningMessages(subscription)]

EnterBinaryMode(y, subscription) ==
    [y EXCEPT !.c.state = "BinaryMode", !.c.keepAlive = TRUE,
              !.out = @ \o OpeningMessages(subscription)]

HandleStandardMessage(y, m) ==
    CASE m.type = "Status" -> ReceivedStatus(y, m.values)
      [] m.type = "Scrobbling" -> ReceivedScrobbling(y, m)
      [] m.type = "DelayedStartInfo" -> ReceivedDelayedStartInfo(y, m)
      [] m.type = "Info" -> ReceivedInfo(y, m)
      [] m.type = "Extensions" -> [y EXCEPT !.c.extensions = TRUE]
      [] m.type = "LoginSalt" -> HandleLoginSalt(y, m)
      [] m.type = "NewAccountSalt" -> HandleNewUserSalt(y, m)
      [] m.type = "Result" -> HandleResultMessage(y, m)
      [] m.type = "AdditionConfirmation" -> ReceivedAdditionConfirmation(y, m)
      [] m.type = "Reply" -> ReceivedReply(y, m)
      [] OTHER -> y

(* handleBinaryMessage: every message restarts the keep-alive timer.       *)
HandleBinaryMessage(y, m) ==
    HandleStandardMessage([y EXCEPT !.c.heard = TRUE, !.c.keepAlive = TRUE], m)

(* The greeting is answered with "binary" and the header.                  *)
OnReadyRead(y, m, subscription) ==
    CASE m.type = "Greeting" ->
            [y EXCEPT !.c.state = "TextMode",
                      !.out = @ \o << [type |-> "TextBinary"], [type |-> "Header"] >>]
      [] m.type = "TextBinary" -> [y EXCEPT !.c.state = "BinaryHandshake"]
      [] m.type = "Header" -> EnterBinaryMode(y, subscription)
      [] OTHER -> HandleBinaryMessage(y, m)

-----------------------------------------------------------------------------
(* The end of the connection.                                              *)

(* connectionBroken of the controllers, only after a connection that was   *)
(* complete; the health is kept.                                           *)
ConnectionBroken(c) ==
    [c EXCEPT !.promises = {}, !.cached = {},
              !.view = [NothingKnown EXCEPT !["health"] = c.view["health"]]]

(* breakConnection: the socket is aborted, which calls onDisconnected.     *)
BreakConnection(y) ==
    LET c == [y.c EXCEPT !.state = "Closed", !.keepAlive = FALSE]
    IN  [y EXCEPT !.c = IF IsConnected(y) THEN ConnectionBroken(c) ELSE c]

(* onKeepAliveTimerTimeout; the check comes five seconds later.            *)
OnKeepAliveTimerTimeout(y) ==
    SendKeepAlive([y EXCEPT !.c.keepAlive = FALSE, !.c.replyCheck = TRUE,
                            !.c.heard = FALSE])

CheckKeepAliveReply(y) ==
    LET z == [y EXCEPT !.c.replyCheck = FALSE]
    IN  IF y.c.heard \/ ~ IsConnected(y) THEN z ELSE BreakConnection(z)
=============================================================================
