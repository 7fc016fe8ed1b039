---------------------------- MODULE SessionProofs ----------------------------
(***************************************************************************)
(* Proofs about the login on a connection, for any users, requests and     *)
(* changes, and for any number of logins, also such that overlap; and      *)
(* about the requests and the questions of a client, of which there may be *)
(* any number under way.                                                   *)
(***************************************************************************)
EXTENDS Session, FiniteSetTheorems, SequenceTheorems, TLAPS

-----------------------------------------------------------------------------
(* Types.                                                                  *)

Names == Users \cup {Nobody}
Questions == {"users", "version"}
Kinds == {"indexing", "scanning", "delay", "undelay", "insert", "hash info",
          "collection", "reload", "history", "authenticate"}
Actions == {"player state", "user playing for", "dynamic mode status",
            "indexation status", "delayed start info", "extensions", "all events",
            "health events"}
Codes == {"NoError", "NotLoggedIn", "OperationAlreadyRunning", "AlreadyDone",
          "InvalidQueueIndex", "AlreadyLoggedIn", "AuthenticationFailed",
          "LoginMismatch", "UserAccountAlreadyExists", "RegistrationMismatch"}
Values == UNION {[topics -> Nat] : topics \in SUBSET Topics}

Task == [kind : Kinds, ref : Nat, step : Nat, permitted : BOOLEAN]

UpMessage ==
    [type : {"TextBinary", "Header", "KeepAlive", "Extensions", "Shutdown",
             "ScrobblingInfo"}]
    \cup [type : {"Action"}, action : Actions]
    \cup [type : {"Ask"}, kind : Questions]
    \cup [type : {"Command"}, topic : Topics]
    \cup [type : {"Request"}, kind : Kinds, ref : Nat, possible : BOOLEAN]
    \cup [type : {"InitiateLogin", "InitiateAccount"}, login : Users, ref : Nat]
    \cup [type : {"FinishLogin", "FinishAccount"}, login : Users, ref : Nat,
          salt : Nat, right : BOOLEAN]

DownMessage ==
    [type : {"Greeting", "TextBinary", "Header", "KeepAlive", "Extensions"}]
    \cup [type : {"Status"}, values : Values]
    \cup [type : {"Scrobbling"}, user : Names, values : Values]
    \cup [type : {"DelayedStartInfo"}, start : Nat]
    \cup [type : {"Info"}, kind : Questions]
    \cup [type : {"LoginSalt", "NewAccountSalt"}, login : Users, salt : Nat]
    \cup [type : {"Result"}, code : Codes, ref : Nat, user : Names]
    \cup [type : {"AdditionConfirmation", "Reply", "TrackInfoBatch"}, ref : Nat]

ServerEnds ==
    [open : BOOLEAN, binary : BOOLEAN, header : BOOLEAN, events : BOOLEAN,
     health : BOOLEAN, extensions : BOOLEAN, pendingStatus : BOOLEAN,
     loggingIn : Names, sessionSalt : Nat, loggedIn : Names,
     registering : Names, registrationSalt : Nat, tasks : SUBSET Task]

ServerSides ==
    [s : ServerEnds, w : [Topics -> Nat], users : SUBSET Users, salts : Nat,
     out : Seq(DownMessage)]

ClientEnds ==
    [state : {"NotConnected", "Connecting", "Handshake", "TextMode",
              "BinaryHandshake", "BinaryMode", "Closed"},
     extensions : BOOLEAN, nextRef : Nat, loginRef : Nat, loggingIn : Names,
     right : BOOLEAN, loggedIn : Names, overtaken : BOOLEAN, accountRef : Nat,
     registering : Names, handlers : SUBSET [ref : Nat, kind : Kinds],
     promises : SUBSET Questions, cached : SUBSET Questions, view : [Topics -> Int],
     keepAlive : BOOLEAN, replyCheck : BOOLEAN, heard : BOOLEAN]

ClientSides == [c : ClientEnds, out : Seq(UpMessage)]

SessionTypeOK ==
    /\ server \in ServerEnds /\ client \in ClientEnds
    /\ world \in [topics : [Topics -> Nat], users : SUBSET Users, salts : Nat]
    /\ up \in Seq(UpMessage) /\ down \in Seq(DownMessage)

-----------------------------------------------------------------------------
(* Messages of a login, and lists of messages that hold none or one.       *)

OfLogin(m, ref) ==
    \/ m.type \in {"InitiateLogin", "FinishLogin", "LoginSalt"}
    \/ m.type = "Result" /\ m.ref = ref

NoLogin(ms, ref) == \A i \in 1..Len(ms) : ~ OfLogin(ms[i], ref)

OneLogin(ms, ref, m) ==
    \E i \in 1..Len(ms) :
        /\ ms[i] = m /\ OfLogin(m, ref)
        /\ \A j \in 1..Len(ms) : j # i => ~ OfLogin(ms[j], ref)

-----------------------------------------------------------------------------
(* The invariant, of a client c, a server s with its user accounts, and    *)
(* the messages on their way from the one (us) and from the other (ds).    *)

(* References are handed out in order, and what is not part of the current *)
(* login has another one than the login.                                   *)
UsedRefs(c) == {ref \in Nat : ref > 0 /\ ref < c.nextRef}
OtherRefs(c) == UsedRefs(c) \ {c.loginRef}

RefsOK(c) ==
    /\ c.loginRef < c.nextRef /\ c.accountRef < c.nextRef
    /\ c.loggingIn # Nobody => c.loginRef > 0
    /\ c.registering # Nobody => c.accountRef \in OtherRefs(c)

UpOK(m, c) ==
    /\ m.type \in {"InitiateLogin", "FinishLogin"} => m.ref \in UsedRefs(c)
    /\ m.type \in {"Request", "InitiateAccount", "FinishAccount"} => m.ref \in OtherRefs(c)

TasksOK(c, tasks) == \A task \in tasks : task.ref \in OtherRefs(c)

ReferencesOK(c, s, us) ==
    /\ RefsOK(c)
    /\ TasksOK(c, s.tasks)
    /\ \A i \in 1..Len(us) : UpOK(us[i], c)

(* A success that the client hears of is that of the user who is logged in. *)
ResultOK(m, c, s) ==
    m.type = "Result" =>
        /\ m.ref \in UsedRefs(c)
        /\ m.ref = c.loginRef /\ m.code = "NoError" /\ s.open =>
              m.user = s.loggedIn /\ m.user # Nobody

ResultsOK(c, s, ds) == \A i \in 1..Len(ds) : ResultOK(ds[i], c, s)

LoggedInOK(c, s) ==
    /\ s.loggedIn # Nobody => s.loggingIn = Nobody
    /\ s.open /\ c.loggedIn # Nobody => s.loggedIn = c.loggedIn

(* A client in binary mode is so because of the header that the server has *)
(* sent when it was there itself.                                          *)
NoHeader(ms) == \A i \in 1..Len(ms) : ms[i].type # "Header"

BinaryOK(c, s, ds) ==
    s.open => \/ s.binary
              \/ /\ c.state # "BinaryMode" /\ c.loggingIn = Nobody
                 /\ NoHeader(ds)

BeforeTheConnection(c, s, us, ds) ==
    c.state \in {"NotConnected", "Connecting"} =>
        /\ ~ s.open
        /\ c.loggedIn = Nobody /\ c.loggingIn = Nobody
        /\ NoLogin(us, c.loginRef) /\ NoLogin(ds, c.loginRef)
        /\ NoHeader(ds)

(* The phases of a login.                                                  *)
NoneUnderWay(c, s, us, ds) ==
    /\ c.loggingIn = Nobody /\ s.loggingIn = Nobody
    /\ c.loggedIn = s.loggedIn
    /\ NoLogin(us, c.loginRef) /\ NoLogin(ds, c.loginRef)

Initiated(c, s, us, ds) ==
    /\ c.loggingIn # Nobody /\ c.loggedIn = Nobody
    /\ s.loggingIn = Nobody /\ s.loggedIn = Nobody
    /\ OneLogin(us, c.loginRef, Initiate("InitiateLogin", c.loggingIn, c.loginRef))
    /\ NoLogin(ds, c.loginRef)

LoginSalt(login, salt) == [type |-> "LoginSalt", login |-> login, salt |-> salt]

Salted(c, s, users, us, ds) ==
    /\ c.loggingIn # Nobody /\ c.loggedIn = Nobody
    /\ s.loggingIn = c.loggingIn /\ s.loggedIn = Nobody
    /\ s.loggingIn \in users
    /\ NoLogin(us, c.loginRef)
    /\ OneLogin(ds, c.loginRef, LoginSalt(c.loggingIn, s.sessionSalt))

Finishing(c, s, users, us, ds) ==
    /\ c.loggingIn # Nobody /\ c.loggedIn = Nobody
    /\ s.loggingIn = c.loggingIn /\ s.loggedIn = Nobody
    /\ s.loggingIn \in users
    /\ OneLogin(us, c.loginRef,
                Finish("FinishLogin", c.loggingIn, c.loginRef, s.sessionSalt, c.right))
    /\ NoLogin(ds, c.loginRef)

Answers(m, s) ==
    /\ m.type = "Result"
    /\ m.code # "NoError" => s.loggedIn = Nobody

Answered(c, s, us, ds) ==
    /\ c.loggingIn # Nobody /\ c.loggedIn = Nobody
    /\ s.loggingIn = Nobody
    /\ NoLogin(us, c.loginRef)
    /\ \E m \in DownMessage : Answers(m, s) /\ OneLogin(ds, c.loginRef, m)

Phases(c, s, users, us, ds) ==
    \/ NoneUnderWay(c, s, us, ds) \/ Initiated(c, s, us, ds)
    \/ Salted(c, s, users, us, ds) \/ Finishing(c, s, users, us, ds)
    \/ Answered(c, s, us, ds)

LoginPhases(c, s, users, us, ds) ==
    s.open /\ ~ c.overtaken => Phases(c, s, users, us, ds)

Consistent(c, s, users, us, ds) ==
    /\ ReferencesOK(c, s, us) /\ ResultsOK(c, s, ds) /\ LoggedInOK(c, s)
    /\ BinaryOK(c, s, ds) /\ BeforeTheConnection(c, s, us, ds)
    /\ LoginPhases(c, s, users, us, ds)

SessionInv ==
    /\ SessionTypeOK
    /\ Consistent(client, server, world.users, up, down)

-----------------------------------------------------------------------------
(* Lists of messages.  What handlers write comes at the end.               *)

Grown(a, b, S) ==
    /\ Len(a) <= Len(b)
    /\ \A i \in 1..Len(a) : b[i] = a[i]
    /\ \A i \in Len(a)+1..Len(b) : b[i] \in S

(* A list that stays as it is, grows by one message, or grows twice.       *)
LEMMA GrownSame ==
    ASSUME NEW M, NEW S, NEW a \in Seq(M)
    PROVE  Grown(a, a, S)
  BY DEF Grown

LEMMA GrownAppend ==
    ASSUME NEW M, NEW S, NEW a \in Seq(M), NEW m \in M, m \in S
    PROVE  Grown(a, Append(a, m), S)
  BY DEF Grown

LEMMA GrownConcat ==
    ASSUME NEW M, NEW S, NEW a \in Seq(M), NEW b \in Seq(M),
           \A i \in 1..Len(b) : b[i] \in S
    PROVE  Grown(a, a \o b, S)
  <1>1. ASSUME NEW i \in Len(a)+1..Len(a \o b)
        PROVE  (a \o b)[i] \in S
    <2>1. i - Len(a) \in 1..Len(b) /\ (a \o b)[i] = b[i - Len(a)]
      OBVIOUS
    <2> QED BY <2>1
  <1> QED BY <1>1 DEF Grown

LEMMA GrownTwice ==
    ASSUME NEW M, NEW S, NEW a \in Seq(M), NEW b \in Seq(M), NEW d \in Seq(M),
           Grown(a, b, S), Grown(b, d, S)
    PROVE  Grown(a, d, S)
  <1>1. Len(a) \in Nat /\ Len(b) \in Nat /\ Len(d) \in Nat /\ Len(a) <= Len(d)
    BY DEF Grown
  <1>2. \A i \in 1..Len(a) : d[i] = a[i]
    BY <1>1 DEF Grown
  <1>3. ASSUME NEW i \in Len(a)+1..Len(d)
        PROVE  d[i] \in S
    <2>1. CASE i \in Len(b)+1..Len(d)
      BY <2>1 DEF Grown
    <2>2. CASE i \in Len(a)+1..Len(b)
      <3>1. i \in 1..Len(b) /\ b[i] \in S
        BY <1>1, <2>2 DEF Grown
      <3> QED BY <3>1 DEF Grown
    <2> QED BY <1>1, <1>3, <2>1, <2>2
  <1> QED BY <1>1, <1>2, <1>3 DEF Grown

LEMMA GrownByMore ==
    ASSUME NEW M, NEW S, NEW T, NEW a \in Seq(M), NEW b \in Seq(M),
           Grown(a, b, S), S \subseteq T
    PROVE  Grown(a, b, T)
  BY DEF Grown

(* The first message is read.                                              *)
LEMMA TailOfList ==
    ASSUME NEW M, NEW a \in Seq(M), a # << >>
    PROVE  /\ Tail(a) \in Seq(M) /\ Head(a) \in M /\ Head(a) = a[1] /\ Len(a) >= 1
           /\ Len(Tail(a)) = Len(a) - 1
           /\ \A i \in 1..Len(Tail(a)) : Tail(a)[i] = a[i + 1]
  OBVIOUS

LEMMA NoLoginTail ==
    ASSUME NEW M, NEW a \in Seq(M), a # << >>, NEW ref, NoLogin(a, ref)
    PROVE  NoLogin(Tail(a), ref) /\ ~ OfLogin(Head(a), ref)
  BY TailOfList DEF NoLogin

LEMMA OneLoginTail ==
    ASSUME NEW M, NEW a \in Seq(M), a # << >>, NEW ref, NEW m, OneLogin(a, ref, m),
           ~ OfLogin(Head(a), ref)
    PROVE  OneLogin(Tail(a), ref, m)
  <1>1. PICK i \in 1..Len(a) : /\ a[i] = m /\ OfLogin(m, ref)
                               /\ \A j \in 1..Len(a) : j # i => ~ OfLogin(a[j], ref)
    BY DEF OneLogin
  <1>2. i # 1
    BY <1>1, TailOfList
  <1>3. i - 1 \in 1..Len(Tail(a)) /\ Tail(a)[i - 1] = m
    BY <1>1, <1>2, TailOfList
  <1>4. ASSUME NEW j \in 1..Len(Tail(a)), j # i - 1
        PROVE  ~ OfLogin(Tail(a)[j], ref)
    <2>1. j + 1 \in 1..Len(a) /\ j + 1 # i /\ Tail(a)[j] = a[j + 1]
      BY <1>4, TailOfList
    <2> QED BY <2>1, <1>1
  <1> QED BY <1>1, <1>3, <1>4 DEF OneLogin

LEMMA OneLoginHead ==
    ASSUME NEW M, NEW a \in Seq(M), a # << >>, NEW ref, NEW m, OneLogin(a, ref, m),
           OfLogin(Head(a), ref)
    PROVE  Head(a) = m /\ NoLogin(Tail(a), ref)
  <1>1. PICK i \in 1..Len(a) : /\ a[i] = m /\ OfLogin(m, ref)
                               /\ \A j \in 1..Len(a) : j # i => ~ OfLogin(a[j], ref)
    BY DEF OneLogin
  <1>2. i = 1
    BY <1>1, TailOfList
  <1>3. ASSUME NEW j \in 1..Len(Tail(a))
        PROVE  ~ OfLogin(Tail(a)[j], ref)
    <2>1. j + 1 \in 1..Len(a) /\ j + 1 # i /\ Tail(a)[j] = a[j + 1]
      BY <1>2, TailOfList
    <2> QED BY <2>1, <1>1
  <1> QED BY <1>1, <1>2, <1>3, TailOfList DEF NoLogin

LEMMA NoLoginGrown ==
    ASSUME NEW M, NEW a \in Seq(M), NEW b \in Seq(M), NEW S, NEW ref, Grown(a, b, S),
           \A m \in S : ~ OfLogin(m, ref), NoLogin(a, ref)
    PROVE  NoLogin(b, ref)
  BY DEF Grown, NoLogin

LEMMA OneLoginGrown ==
    ASSUME NEW M, NEW a \in Seq(M), NEW b \in Seq(M), NEW S, NEW ref, NEW m,
           Grown(a, b, S), \A n \in S : ~ OfLogin(n, ref), OneLogin(a, ref, m)
    PROVE  OneLogin(b, ref, m)
  <1>1. PICK i \in 1..Len(a) : /\ a[i] = m /\ OfLogin(m, ref)
                               /\ \A j \in 1..Len(a) : j # i => ~ OfLogin(a[j], ref)
    BY DEF OneLogin
  <1>2. i \in 1..Len(b) /\ b[i] = m
    BY <1>1 DEF Grown
  <1>3. ASSUME NEW j \in 1..Len(b), j # i
        PROVE  ~ OfLogin(b[j], ref)
    BY <1>1, <1>3 DEF Grown
  <1> QED BY <1>1, <1>2, <1>3 DEF OneLogin

LEMMA OneLoginAppended ==
    ASSUME NEW M, NEW a \in Seq(M), NEW m \in M, NEW ref, NoLogin(a, ref), OfLogin(m, ref)
    PROVE  OneLogin(Append(a, m), ref, m)
  <1> DEFINE b == Append(a, m)
  <1>1. Len(b) \in 1..Len(b) /\ b[Len(b)] = m
    OBVIOUS
  <1>2. ASSUME NEW j \in 1..Len(b), j # Len(b)
        PROVE  ~ OfLogin(b[j], ref)
    <2>1. j \in 1..Len(a) /\ b[j] = a[j]
      BY <1>2
    <2> QED BY <2>1 DEF NoLogin
  <1> QED BY <1>1, <1>2 DEF OneLogin

-----------------------------------------------------------------------------
(* The server.  Most of what it does leaves logins alone: it writes        *)
(* messages that are not about a login of this client, and begins tasks    *)
(* whose references are those of requests.                                 *)

SameLogin(s, t) ==
    /\ t.open = s.open /\ t.binary = s.binary
    /\ t.loggingIn = s.loggingIn /\ t.sessionSalt = s.sessionSalt
    /\ t.loggedIn = s.loggedIn
    /\ s.events => t.events

(* What a step is about: requests, by their references, questions, and     *)
(* logins or new accounts, by their references.                            *)
Nothing == [requests |-> {}, questions |-> {}, accounts |-> {}]
About(ref) == [requests |-> {ref}, questions |-> {}, accounts |-> {}]
AboutQuestion(kind) == [requests |-> {}, questions |-> {kind}, accounts |-> {}]
AboutAccount(ref) == [requests |-> {}, questions |-> {}, accounts |-> {ref}]

Sparing(concern) ==
    {m \in DownMessage : /\ IsAnswer(m) => m.ref \in concern.requests
                         /\ m.type = "Info" => m.kind \in concern.questions}

Harmless(concern) ==
    {m \in Sparing(concern) : m.type \notin {"LoginSalt", "Header"}}

(* Tasks, or result handlers, of other requests stay.                      *)
OthersStay(S, T, refs) == \A t \in S \cup T : t.ref \in refs \/ t \in S \cap T

Serves(x, y, concern) ==
    /\ y \in ServerSides
    /\ SameLogin(x.s, y.s)
    /\ x.users \subseteq y.users
    /\ OthersStay(x.s.tasks, y.s.tasks, concern.requests)
    /\ Grown(x.out, y.out, Harmless(concern))

LEMMA ServesSame ==
    ASSUME NEW x \in ServerSides, NEW concern
    PROVE  Serves(x, x, concern)
  <1>1. Grown(x.out, x.out, Harmless(concern))
    BY GrownSame DEF ServerSides
  <1> QED BY <1>1 DEF Serves, SameLogin, OthersStay

LEMMA ServesTwice ==
    ASSUME NEW x \in ServerSides, NEW y, NEW z, NEW concern,
           Serves(x, y, concern), Serves(y, z, concern)
    PROVE  Serves(x, z, concern)
  <1>1. y \in ServerSides /\ z \in ServerSides
    BY DEF Serves
  <1>2. Grown(x.out, z.out, Harmless(concern))
    <2>1. x.out \in Seq(DownMessage) /\ y.out \in Seq(DownMessage) /\ z.out \in Seq(DownMessage)
      BY <1>1 DEF ServerSides
    <2> QED BY <2>1, GrownTwice DEF Serves
  <1>3. SameLogin(x.s, z.s)
    BY Zenon DEF Serves, SameLogin
  <1>4. OthersStay(x.s.tasks, z.s.tasks, concern.requests)
    BY Zenon DEF Serves, OthersStay
  <1>5. x.users \subseteq z.users
    BY Zenon DEF Serves
  <1> QED BY Zenon, <1>1, <1>2, <1>3, <1>4, <1>5 DEF Serves

(* Only the state, the topics, the users and the salts change.             *)
LEMMA ServesSilently ==
    ASSUME NEW x \in ServerSides, NEW y \in ServerSides, NEW concern,
           SameLogin(x.s, y.s), OthersStay(x.s.tasks, y.s.tasks, concern.requests),
           x.users \subseteq y.users, y.out = x.out
    PROVE  Serves(x, y, concern)
  <1>1. Grown(x.out, y.out, Harmless(concern))
    BY GrownSame DEF ServerSides
  <1> QED BY Zenon, <1>1 DEF Serves

LEMMA SendingIsTyped ==
    ASSUME NEW x \in ServerSides, NEW m \in DownMessage
    PROVE  SendBinaryMessage(x, m) \in ServerSides
  <1>1. Append(x.out, m) \in Seq(DownMessage)
    BY DEF ServerSides
  <1> QED BY Zenon, <1>1 DEF ServerSides, SendBinaryMessage

LEMMA ServesSend ==
    ASSUME NEW x \in ServerSides, NEW concern, NEW m \in Harmless(concern)
    PROVE  Serves(x, SendBinaryMessage(x, m), concern)
  <1>0. m \in DownMessage
    BY DEF Harmless, Sparing
  <1>1. CASE x.s.open /\ x.s.binary
    <2> DEFINE y == [x EXCEPT !.out = Append(x.out, m)]
    <2>1. SendBinaryMessage(x, m) = y
      BY Zenon, <1>1 DEF SendBinaryMessage
    <2>2. y \in ServerSides
      BY <1>0, <2>1, SendingIsTyped
    <2>3. y.s = x.s /\ y.users = x.users /\ y.out = Append(x.out, m)
      BY Zenon DEF ServerSides
    <2>4. Grown(x.out, Append(x.out, m), Harmless(concern))
      BY <1>0, GrownAppend DEF ServerSides
    <2> QED BY Zenon, <2>1, <2>2, <2>3, <2>4 DEF Serves, SameLogin, OthersStay
  <1>2. CASE ~ (x.s.open /\ x.s.binary)
    BY Zenon, <1>2, ServesSame DEF SendBinaryMessage
  <1> QED BY <1>1, <1>2

(* The kinds of messages that are harmless.                                *)
LEMMA StatusIsHarmless ==
    ASSUME NEW x \in ServerSides, NEW topics \in SUBSET Topics, NEW concern
    PROVE  Status(x, topics) \in Harmless(concern)
  <1>1. [t \in topics |-> x.w[t]] \in [topics -> Nat]
    BY DEF ServerSides
  <1>2. [t \in topics |-> x.w[t]] \in Values
    BY Zenon, <1>1 DEF Values
  <1> QED BY <1>2 DEF Status, Harmless, Sparing, IsAnswer, DownMessage

LEMMA ScrobblingIsHarmless ==
    ASSUME NEW x \in ServerSides, NEW user \in Names, NEW concern
    PROVE  [type |-> "Scrobbling", user |-> user,
            values |-> [t \in {"scrobbling"} |-> x.w[t]]] \in Harmless(concern)
  <1>1. [t \in {"scrobbling"} |-> x.w[t]] \in [{"scrobbling"} -> Nat]
    BY DEF ServerSides, Topics
  <1>2. {"scrobbling"} \in SUBSET Topics
    BY DEF Topics
  <1>3. [t \in {"scrobbling"} |-> x.w[t]] \in Values
    BY Zenon, <1>1, <1>2 DEF Values
  <1> QED BY <1>3 DEF Harmless, Sparing, IsAnswer, DownMessage

LEMMA PlainIsHarmless ==
    ASSUME NEW concern
    PROVE  /\ [type |-> "KeepAlive"] \in Harmless(concern)
           /\ [type |-> "Extensions"] \in Harmless(concern)
           /\ [type |-> "Greeting"] \in Harmless(concern)
           /\ [type |-> "TextBinary"] \in Harmless(concern)
           /\ \A start \in Nat : [type |-> "DelayedStartInfo", start |-> start] \in Harmless(concern)
           /\ \A kind \in Questions : kind \in concern.questions =>
                 [type |-> "Info", kind |-> kind] \in Harmless(concern)
           /\ \A user \in Users, salt \in Nat :
                 [type |-> "NewAccountSalt", login |-> user, salt |-> salt] \in Harmless(concern)
           /\ \A ref \in Nat :
                 [type |-> "TrackInfoBatch", ref |-> ref] \in Harmless(concern)
           /\ \A ref \in Nat : ref \in concern.requests =>
                 /\ [type |-> "AdditionConfirmation", ref |-> ref] \in Harmless(concern)
                 /\ [type |-> "Reply", ref |-> ref] \in Harmless(concern)
  BY DEF Harmless, Sparing, IsAnswer, DownMessage

LEMMA ResultIsHarmless ==
    ASSUME NEW concern, NEW ref \in concern.requests, ref \in Nat, NEW code \in Codes, NEW user \in Names
    PROVE  [type |-> "Result", code |-> code, ref |-> ref, user |-> user] \in Harmless(concern)
  BY DEF Harmless, Sparing, IsAnswer, DownMessage

(* What events write, and the changes of topics that cause them.           *)
LEMMA ServesTyped ==
    ASSUME NEW x, NEW y, NEW concern, Serves(x, y, concern)
    PROVE  y \in ServerSides
  BY DEF Serves

LEMMA ServesStatus ==
    ASSUME NEW x \in ServerSides, NEW topics \in SUBSET Topics, NEW concern
    PROVE  Serves(x, SendBinaryMessage(x, Status(x, topics)), concern)
  <1> DEFINE m == Status(x, topics)
  <1>1. m \in Harmless(concern)
    BY Zenon, StatusIsHarmless
  <1> HIDE DEF m
  <1>2. Serves(x, SendBinaryMessage(x, m), concern)
    BY Zenon, <1>1, ServesSend
  <1> QED BY Zenon, <1>2 DEF m

LEMMA SendingStatus ==
    ASSUME NEW x \in ServerSides, NEW concern
    PROVE  /\ Serves(x, SendPlayerStateMessage(x), concern)
           /\ Serves(x, SendVolumeMessage(x), concern)
           /\ Serves(x, SendDynamicModeStatusMessage(x), concern)
           /\ Serves(x, SendUserPlayingForModeMessage(x), concern)
           /\ Serves(x, SendGeneratorWaveStatusMessage(x), concern)
           /\ Serves(x, SendServerHealthMessage(x), concern)
           /\ Serves(x, SendServerHealthMessageIfNotEverythingOkay(x), concern)
           /\ \A t \in Topics : Serves(x, SendIndexationStatusMessage(x, t), concern)
  <1>0. /\ {"player", "length", "volume", "delayed"} \in SUBSET Topics
        /\ {"volume"} \in SUBSET Topics /\ {"dynamic"} \in SUBSET Topics
        /\ {"user"} \in SUBSET Topics /\ {"wave"} \in SUBSET Topics
        /\ {"health"} \in SUBSET Topics
    BY DEF Topics
  <1>1. Serves(x, SendPlayerStateMessage(x), concern)
    BY Zenon, <1>0, ServesStatus DEF SendPlayerStateMessage
  <1>2. Serves(x, SendVolumeMessage(x), concern)
    BY Zenon, <1>0, ServesStatus DEF SendVolumeMessage
  <1>3. Serves(x, SendDynamicModeStatusMessage(x), concern)
    BY Zenon, <1>0, ServesStatus DEF SendDynamicModeStatusMessage
  <1>4. Serves(x, SendUserPlayingForModeMessage(x), concern)
    BY Zenon, <1>0, ServesStatus DEF SendUserPlayingForModeMessage
  <1>5. Serves(x, SendGeneratorWaveStatusMessage(x), concern)
    BY Zenon, <1>0, ServesStatus DEF SendGeneratorWaveStatusMessage
  <1>6. Serves(x, SendServerHealthMessage(x), concern)
    BY Zenon, <1>0, ServesStatus DEF SendServerHealthMessage
  <1>7. Serves(x, SendServerHealthMessageIfNotEverythingOkay(x), concern)
    BY Zenon, <1>6, ServesSame DEF SendServerHealthMessageIfNotEverythingOkay
  <1>8. \A t \in Topics : Serves(x, SendIndexationStatusMessage(x, t), concern)
    BY Zenon, ServesStatus DEF SendIndexationStatusMessage
  <1> QED BY <1>1, <1>2, <1>3, <1>4, <1>5, <1>6, <1>7, <1>8

LEMMA SendingScrobbling ==
    ASSUME NEW x \in ServerSides, NEW concern
    PROVE  Serves(x, SendScrobblingMessage(x), concern)
  <1> DEFINE m == [type |-> "Scrobbling", user |-> x.s.loggedIn,
                   values |-> [t \in {"scrobbling"} |-> x.w[t]]]
  <1>1. x.s.loggedIn \in Names
    BY Zenon DEF ServerSides, ServerEnds
  <1>2. m \in Harmless(concern)
    BY Zenon, <1>1, ScrobblingIsHarmless
  <1>3. SendScrobblingMessage(x) = IF x.s.extensions THEN SendBinaryMessage(x, m) ELSE x
    BY Zenon DEF SendScrobblingMessage
  <1> HIDE DEF m
  <1>4. Serves(x, SendBinaryMessage(x, m), concern)
    BY Zenon, <1>2, ServesSend
  <1> QED BY Zenon, <1>3, <1>4, ServesSame

LEMMA SendingDelayedStartInfo ==
    ASSUME NEW x \in ServerSides, NEW concern
    PROVE  /\ Serves(x, SendDelayedStartInfoMessage(x), concern)
           /\ Serves(x, OnDelayedStartActiveChanged(x), concern)
           /\ Serves(x, SendDelayedStartInfoIfActive(x), concern)
  <1> DEFINE m == [type |-> "DelayedStartInfo", start |-> x.w["delayed"]]
  <1>1. x.w["delayed"] \in Nat
    BY DEF ServerSides, Topics
  <1>2. m \in Harmless(concern)
    BY Zenon, <1>1, PlainIsHarmless
  <1>3. SendDelayedStartInfoMessage(x) = SendBinaryMessage(x, m)
    BY Zenon DEF SendDelayedStartInfoMessage
  <1> HIDE DEF m
  <1>4. Serves(x, SendDelayedStartInfoMessage(x), concern)
    BY Zenon, <1>2, <1>3, ServesSend
  <1>5. Serves(x, OnDelayedStartActiveChanged(x), concern)
    BY Zenon, <1>4, SendingStatus DEF OnDelayedStartActiveChanged
  <1>6. Serves(x, SendDelayedStartInfoIfActive(x), concern)
    BY Zenon, <1>4, ServesSame DEF SendDelayedStartInfoIfActive
  <1> QED BY <1>4, <1>5, <1>6

LEMMA ServesPending ==
    ASSUME NEW x \in ServerSides, NEW concern, NEW b \in BOOLEAN
    PROVE  Serves(x, [x EXCEPT !.s.pendingStatus = b], concern)
  <1> DEFINE y == [x EXCEPT !.s.pendingStatus = b]
  <1>1. y \in ServerSides
    BY Zenon DEF ServerSides, ServerEnds
  <1>2. y.out = x.out /\ y.users = x.users /\ y.s.tasks = x.s.tasks
    BY Zenon DEF ServerSides, ServerEnds
  <1>3. SameLogin(x.s, y.s)
    BY Zenon DEF ServerSides, ServerEnds, SameLogin
  <1> HIDE DEF y
  <1>4. Serves(x, y, concern)
    BY Zenon, <1>1, <1>2, <1>3, ServesSilently DEF OthersStay
  <1> QED BY Zenon, <1>4 DEF y

LEMMA ServesFlag ==
    ASSUME NEW x \in ServerSides, NEW concern
    PROVE  /\ Serves(x, [x EXCEPT !.s.health = TRUE], concern)
           /\ Serves(x, [x EXCEPT !.s.events = TRUE], concern)
           /\ Serves(x, [x EXCEPT !.s.extensions = TRUE], concern)
           /\ Serves(x, [x EXCEPT !.s.header = TRUE], concern)
  <1>1. Serves(x, [x EXCEPT !.s.health = TRUE], concern)
    <2> DEFINE y == [x EXCEPT !.s.health = TRUE]
    <2>1. y \in ServerSides
      BY Zenon DEF ServerSides, ServerEnds
    <2>2. y.out = x.out /\ y.users = x.users /\ y.s.tasks = x.s.tasks
      BY Zenon DEF ServerSides, ServerEnds
    <2>3. SameLogin(x.s, y.s)
      BY Zenon DEF ServerSides, ServerEnds, SameLogin
    <2> HIDE DEF y
    <2>4. Serves(x, y, concern)
      BY Zenon, <2>1, <2>2, <2>3, ServesSilently DEF OthersStay
    <2> QED BY Zenon, <2>4 DEF y
  <1>2. Serves(x, [x EXCEPT !.s.events = TRUE], concern)
    <2> DEFINE y == [x EXCEPT !.s.events = TRUE]
    <2>1. y \in ServerSides
      BY Zenon DEF ServerSides, ServerEnds
    <2>2. y.out = x.out /\ y.users = x.users /\ y.s.tasks = x.s.tasks
      BY Zenon DEF ServerSides, ServerEnds
    <2>3. SameLogin(x.s, y.s)
      BY Zenon DEF ServerSides, ServerEnds, SameLogin
    <2> HIDE DEF y
    <2>4. Serves(x, y, concern)
      BY Zenon, <2>1, <2>2, <2>3, ServesSilently DEF OthersStay
    <2> QED BY Zenon, <2>4 DEF y
  <1>3. Serves(x, [x EXCEPT !.s.extensions = TRUE], concern)
    <2> DEFINE y == [x EXCEPT !.s.extensions = TRUE]
    <2>1. y \in ServerSides
      BY Zenon DEF ServerSides, ServerEnds
    <2>2. y.out = x.out /\ y.users = x.users /\ y.s.tasks = x.s.tasks
      BY Zenon DEF ServerSides, ServerEnds
    <2>3. SameLogin(x.s, y.s)
      BY Zenon DEF ServerSides, ServerEnds, SameLogin
    <2> HIDE DEF y
    <2>4. Serves(x, y, concern)
      BY Zenon, <2>1, <2>2, <2>3, ServesSilently DEF OthersStay
    <2> QED BY Zenon, <2>4 DEF y
  <1>4. Serves(x, [x EXCEPT !.s.header = TRUE], concern)
    <2> DEFINE y == [x EXCEPT !.s.header = TRUE]
    <2>1. y \in ServerSides
      BY Zenon DEF ServerSides, ServerEnds
    <2>2. y.out = x.out /\ y.users = x.users /\ y.s.tasks = x.s.tasks
      BY Zenon DEF ServerSides, ServerEnds
    <2>3. SameLogin(x.s, y.s)
      BY Zenon DEF ServerSides, ServerEnds, SameLogin
    <2> HIDE DEF y
    <2>4. Serves(x, y, concern)
      BY Zenon, <2>1, <2>2, <2>3, ServesSilently DEF OthersStay
    <2> QED BY Zenon, <2>4 DEF y
  <1> QED BY <1>1, <1>2, <1>3, <1>4

LEMMA ServesTopic ==
    ASSUME NEW x \in ServerSides, NEW concern, NEW t \in Topics
    PROVE  Serves(x, [x EXCEPT !.w[t] = @ + 1], concern)
  <1> DEFINE y == [x EXCEPT !.w[t] = @ + 1]
  <1>1. [x.w EXCEPT ![t] = x.w[t] + 1] \in [Topics -> Nat]
    BY DEF ServerSides
  <1>2. y = [x EXCEPT !.w = [x.w EXCEPT ![t] = x.w[t] + 1]]
    BY Zenon DEF ServerSides
  <1>3. y \in ServerSides
    BY Zenon, <1>1, <1>2 DEF ServerSides
  <1>4. y.out = x.out /\ y.users = x.users /\ y.s = x.s
    BY Zenon DEF ServerSides
  <1> HIDE DEF y
  <1>5. Serves(x, y, concern)
    BY Zenon, <1>3, <1>4, ServesSilently DEF OthersStay, SameLogin
  <1> QED BY Zenon, <1>5 DEF y

(* The events, and what commands, questions and timers do.                 *)
EventTopics == Topics \ {"health", "scrobbling"}

LEMMA ServesEvent ==
    ASSUME NEW x \in ServerSides, NEW concern, NEW t \in EventTopics
    PROVE  Serves(x, OnEvent(x, t), concern)
  <1>1. CASE t = "player"
    BY Zenon, <1>1, SendingStatus DEF OnEvent
  <1>2. CASE t = "length"
    <2>1. OnEvent(x, t) = [x EXCEPT !.s.pendingStatus = TRUE]
      BY Zenon, <1>2 DEF OnEvent, SchedulePlayerStateNotification
    <2> QED BY Zenon, <2>1, ServesPending
  <1>3. CASE t = "volume"
    BY Zenon, <1>3, SendingStatus DEF OnEvent
  <1>4. CASE t = "delayed"
    BY Zenon, <1>4, SendingDelayedStartInfo DEF OnEvent
  <1>5. CASE t = "user"
    BY Zenon, <1>5, SendingStatus DEF OnEvent
  <1>6. CASE t = "dynamic"
    BY Zenon, <1>6, SendingStatus DEF OnEvent
  <1>7. CASE t = "wave"
    BY Zenon, <1>7, SendingStatus DEF OnEvent
  <1>8. CASE t \in {"indexing", "scanning"}
    <2>1. t \in Topics
      BY DEF EventTopics
    <2>2. OnEvent(x, t) = SendIndexationStatusMessage(x, t)
      BY Zenon, <1>8 DEF OnEvent
    <2> QED BY Zenon, <2>1, <2>2, SendingStatus
  <1> QED BY Zenon, <1>1, <1>2, <1>3, <1>4, <1>5, <1>6, <1>7, <1>8 DEF EventTopics, Topics

LEMMA ServesChange ==
    ASSUME NEW x \in ServerSides, NEW concern, NEW t \in Topics
    PROVE  Serves(x, Change(x, t), concern)
  <1> DEFINE y == [x EXCEPT !.w[t] = @ + 1]
  <1>1. Serves(x, y, concern)
    BY Zenon, ServesTopic
  <1>2. Change(x, t) = IF t = "health" THEN IF x.s.health THEN SendServerHealthMessage(y) ELSE y
                       ELSE IF t = "scrobbling"
                            THEN IF IsLoggedIn(x) THEN SendScrobblingMessage(y) ELSE y
                       ELSE IF x.s.events THEN OnEvent(y, t) ELSE y
    BY Zenon DEF Change
  <1> HIDE DEF y
  <1>3. y \in ServerSides
    BY Zenon, <1>1, ServesTyped
  <1>4. CASE t = "health"
    <2>1. Serves(y, SendServerHealthMessage(y), concern)
      BY Zenon, <1>3, SendingStatus
    <2> QED BY Zenon, <1>1, <1>2, <1>4, <2>1, ServesTwice
  <1>5. CASE t = "scrobbling"
    <2>1. Serves(y, SendScrobblingMessage(y), concern)
      BY Zenon, <1>3, SendingScrobbling
    <2> QED BY Zenon, <1>1, <1>2, <1>5, <2>1, ServesTwice
  <1>6. CASE t \in EventTopics
    <2>1. Serves(y, OnEvent(y, t), concern)
      BY Zenon, <1>3, <1>6, ServesEvent
    <2>2. t # "health" /\ t # "scrobbling"
      BY <1>6 DEF EventTopics
    <2> QED BY Zenon, <1>1, <1>2, <2>1, <2>2, ServesTwice
  <1> QED BY <1>4, <1>5, <1>6 DEF EventTopics

LEMMA ServesPlaying ==
    ASSUME NEW x \in ServerSides, NEW concern
    PROVE  Serves(x, StartPlaying(x), concern)
  <1>0. "player" \in Topics /\ "delayed" \in Topics
    BY DEF Topics
  <1> DEFINE y == IF On(x.w["delayed"]) THEN Change(x, "delayed") ELSE x
  <1>1. Serves(x, y, concern)
    BY Zenon, <1>0, ServesChange, ServesSame
  <1>2. StartPlaying(x) = Change(y, "player")
    BY Zenon DEF StartPlaying
  <1> HIDE DEF y
  <1>3. Serves(y, Change(y, "player"), concern)
    BY Zenon, <1>0, <1>1, ServesChange, ServesTyped
  <1> QED BY Zenon, <1>1, <1>2, <1>3, ServesTwice

LEMMA ServesStart ==
    ASSUME NEW x \in ServerSides, NEW concern
    PROVE  Serves(x, DoStart(x), concern)
  <1>0. "player" \in Topics /\ "delayed" \in Topics
    BY DEF Topics
  <1> DEFINE y == [x EXCEPT !.w["delayed"] = @ + 1]
             z == Change(y, "player")
  <1>1. Serves(x, y, concern)
    BY Zenon, <1>0, ServesTopic
  <1>2. DoStart(x) = IF z.s.events THEN OnDelayedStartActiveChanged(z) ELSE z
    BY Zenon DEF DoStart
  <1> HIDE DEF y
  <1>3. Serves(y, z, concern)
    BY Zenon, <1>0, <1>1, ServesChange, ServesTyped
  <1> HIDE DEF z
  <1>4. Serves(x, z, concern)
    BY Zenon, <1>1, <1>3, ServesTwice
  <1>5. Serves(z, OnDelayedStartActiveChanged(z), concern)
    BY Zenon, <1>4, SendingDelayedStartInfo, ServesTyped
  <1> QED BY Zenon, <1>2, <1>4, <1>5, ServesTwice

LEMMA ServesTimeout ==
    ASSUME NEW x \in ServerSides, NEW concern
    PROVE  Serves(x, SendStateInfoAfterTimeout(x), concern)
  <1> DEFINE y == [x EXCEPT !.s.pendingStatus = FALSE]
  <1>1. Serves(x, y, concern)
    BY Zenon, ServesPending
  <1>2. SendStateInfoAfterTimeout(x) = SendPlayerStateMessage(y)
    BY Zenon DEF SendStateInfoAfterTimeout
  <1> HIDE DEF y
  <1>3. Serves(y, SendPlayerStateMessage(y), concern)
    BY Zenon, <1>1, SendingStatus, ServesTyped
  <1> QED BY Zenon, <1>1, <1>2, <1>3, ServesTwice

LEMMA ServesEnabling ==
    ASSUME NEW x \in ServerSides, NEW concern
    PROVE  Serves(x, EnableHealthEvents(x), concern) /\ Serves(x, EnableEvents(x), concern)
  <1> DEFINE y == [x EXCEPT !.s.health = TRUE]
             z == EnableHealthEvents(x)
  <1>1. Serves(x, y, concern)
    BY Zenon, ServesFlag
  <1>2. z = IF x.s.health THEN x ELSE SendServerHealthMessageIfNotEverythingOkay(y)
    BY Zenon DEF EnableHealthEvents
  <1> HIDE DEF y
  <1>3. Serves(y, SendServerHealthMessageIfNotEverythingOkay(y), concern)
    BY Zenon, <1>1, SendingStatus, ServesTyped
  <1> HIDE DEF z
  <1>4. Serves(x, z, concern)
    BY Zenon, <1>1, <1>2, <1>3, ServesTwice, ServesSame
  <1>5. Serves(z, [z EXCEPT !.s.events = TRUE], concern)
    BY Zenon, <1>4, ServesFlag, ServesTyped
  <1>6. EnableEvents(x) = IF x.s.events THEN x ELSE [z EXCEPT !.s.events = TRUE]
    BY Zenon DEF EnableEvents, z
  <1>7. Serves(x, EnableEvents(x), concern)
    BY Zenon, <1>4, <1>5, <1>6, ServesTwice, ServesSame
  <1> QED BY Zenon, <1>4, <1>7 DEF z

LEMMA ServesCommand ==
    ASSUME NEW x \in ServerSides, NEW concern, NEW t \in Topics
    PROVE  Serves(x, Command(x, t), concern)
  BY Zenon, ServesPlaying, ServesChange, ServesSame DEF Command

LEMMA ServesQuestion ==
    ASSUME NEW x \in ServerSides, NEW concern
    PROVE  /\ Serves(x, RequestDynamicModeStatus(x), concern)
           /\ Serves(x, RequestIndexationStatus(x), concern)
           /\ Serves(x, SendProtocolExtensionsMessage(x), concern)
           /\ Serves(x, SendKeepAliveReply(x), concern)
           /\ Serves(x, RequestScrobblingInfo(x), concern)
           /\ \A kind \in Questions : kind \in concern.questions =>
                 Serves(x, SendInfo(x, kind), concern)
  <1>1. Serves(x, RequestDynamicModeStatus(x), concern)
    <2> DEFINE y == SendDynamicModeStatusMessage(x)
    <2>1. Serves(x, y, concern)
      BY Zenon, SendingStatus
    <2>2. RequestDynamicModeStatus(x)
          = IF x.s.events THEN SendGeneratorWaveStatusMessage(y) ELSE x
      BY Zenon DEF RequestDynamicModeStatus
    <2> HIDE DEF y
    <2>3. Serves(y, SendGeneratorWaveStatusMessage(y), concern)
      BY Zenon, <2>1, SendingStatus, ServesTyped
    <2> QED BY Zenon, <2>1, <2>2, <2>3, ServesTwice, ServesSame
  <1>2. Serves(x, RequestIndexationStatus(x), concern)
    <2> DEFINE y == SendIndexationStatusMessage(x, "indexing")
    <2>0. "indexing" \in Topics /\ "scanning" \in Topics
      BY DEF Topics
    <2>1. Serves(x, y, concern)
      BY Zenon, <2>0, SendingStatus
    <2>2. RequestIndexationStatus(x)
          = IF x.s.events THEN SendIndexationStatusMessage(y, "scanning") ELSE x
      BY Zenon DEF RequestIndexationStatus
    <2> HIDE DEF y
    <2>3. Serves(y, SendIndexationStatusMessage(y, "scanning"), concern)
      BY Zenon, <2>0, <2>1, SendingStatus, ServesTyped
    <2> QED BY Zenon, <2>1, <2>2, <2>3, ServesTwice, ServesSame
  <1>3. Serves(x, SendProtocolExtensionsMessage(x), concern)
    BY Zenon, PlainIsHarmless, ServesSend DEF SendProtocolExtensionsMessage
  <1>4. Serves(x, SendKeepAliveReply(x), concern)
    BY Zenon, PlainIsHarmless, ServesSend DEF SendKeepAliveReply
  <1>5. Serves(x, RequestScrobblingInfo(x), concern)
    BY Zenon, SendingScrobbling, ServesSame DEF RequestScrobblingInfo
  <1>6. \A kind \in Questions : kind \in concern.questions =>
            Serves(x, SendInfo(x, kind), concern)
    BY Zenon, PlainIsHarmless, ServesSend DEF SendInfo
  <1> QED BY <1>1, <1>2, <1>3, <1>4, <1>5, <1>6

LEMMA ServesAction ==
    ASSUME NEW x \in ServerSides, NEW concern, NEW action
    PROVE  Serves(x, HandleSingleByteAction(x, action), concern)
  <1>1. CASE action = "player state"
    BY Zenon, <1>1, SendingStatus DEF HandleSingleByteAction
  <1>2. CASE action = "user playing for"
    BY Zenon, <1>2, SendingStatus DEF HandleSingleByteAction
  <1>3. CASE action = "dynamic mode status"
    BY Zenon, <1>3, ServesQuestion DEF HandleSingleByteAction
  <1>4. CASE action = "indexation status"
    BY Zenon, <1>4, ServesQuestion DEF HandleSingleByteAction
  <1>5. CASE action = "delayed start info"
    BY Zenon, <1>5, SendingDelayedStartInfo DEF HandleSingleByteAction
  <1>6. CASE action = "extensions"
    BY Zenon, <1>6, ServesQuestion DEF HandleSingleByteAction
  <1>7. CASE action = "all events"
    BY Zenon, <1>7, ServesEnabling DEF HandleSingleByteAction
  <1>8. CASE action = "health events"
    BY Zenon, <1>8, ServesEnabling DEF HandleSingleByteAction
  <1>9. CASE action \notin {"player state", "user playing for", "dynamic mode status",
                            "indexation status", "delayed start info", "extensions",
                            "all events", "health events"}
    BY Zenon, <1>9, ServesSame DEF HandleSingleByteAction
  <1> QED BY Zenon, <1>1, <1>2, <1>3, <1>4, <1>5, <1>6, <1>7, <1>8, <1>9

(* Requests, the tasks that they begin, and accounts.                      *)
LEMMA ServesResult ==
    ASSUME NEW x \in ServerSides, NEW concern, NEW ref \in concern.requests, ref \in Nat,
           NEW code \in Codes
    PROVE  /\ \A user \in Names : Serves(x, SendResultMessage(x, code, ref, user), concern)
           /\ Serves(x, SendResult(x, code, ref), concern)
  <1>1. ASSUME NEW user \in Names
        PROVE  Serves(x, SendResultMessage(x, code, ref, user), concern)
    <2> DEFINE m == [type |-> "Result", code |-> code, ref |-> ref, user |-> user]
    <2>1. m \in Harmless(concern)
      BY Zenon, ResultIsHarmless
    <2>2. SendResultMessage(x, code, ref, user) = SendBinaryMessage(x, m)
      BY Zenon DEF SendResultMessage
    <2> HIDE DEF m
    <2> QED BY Zenon, <2>1, <2>2, ServesSend
  <1>2. Nobody \in Names
    BY DEF Names
  <1> QED BY Zenon, <1>1, <1>2 DEF SendResult

LEMMA ServesSuccess ==
    ASSUME NEW x \in ServerSides, NEW concern, NEW ref \in concern.requests, ref \in Nat
    PROVE  Serves(x, SendSuccess(x, ref), concern)
  <1>1. "NoError" \in Codes
    BY DEF Codes
  <1> QED BY Zenon, <1>1, ServesResult DEF SendSuccess

(* The tasks are replaced by others.                                       *)
LEMMA ServesTasks ==
    ASSUME NEW x \in ServerSides, NEW concern, NEW T \in SUBSET Task,
           OthersStay(x.s.tasks, T, concern.requests)
    PROVE  Serves(x, [x EXCEPT !.s.tasks = T], concern)
  <1> DEFINE y == [x EXCEPT !.s.tasks = T]
  <1>1. y \in ServerSides
    BY Zenon DEF ServerSides, ServerEnds
  <1>2. y.out = x.out /\ y.users = x.users /\ y.s.tasks = T
    BY Zenon DEF ServerSides, ServerEnds
  <1>3. SameLogin(x.s, y.s)
    BY Zenon DEF ServerSides, ServerEnds, SameLogin
  <1> HIDE DEF y
  <1>4. Serves(x, y, concern)
    BY Zenon, <1>1, <1>2, <1>3, ServesSilently
  <1> QED BY Zenon, <1>4 DEF y

LEMMA ServesLater ==
    ASSUME NEW x \in ServerSides, NEW concern, NEW m, m.kind \in Kinds, m.ref \in Nat,
           m.ref \in concern.requests, NEW permitted \in BOOLEAN
    PROVE  Serves(x, Later(x, m, permitted), concern)
  <1> DEFINE task == [kind |-> m.kind, ref |-> m.ref, step |-> 0, permitted |-> permitted]
             T == x.s.tasks \cup {task}
  <1>1. task \in Task
    BY DEF Task
  <1>2. x.s.tasks \in SUBSET Task
    BY Zenon DEF ServerSides, ServerEnds
  <1>3. OthersStay(x.s.tasks, T, concern.requests)
    BY DEF OthersStay
  <1>4. Later(x, m, permitted) = [x EXCEPT !.s.tasks = T]
    BY Zenon DEF Later
  <1>5. T \in SUBSET Task
    BY Zenon, <1>1, <1>2
  <1> HIDE DEF T
  <1>6. Serves(x, [x EXCEPT !.s.tasks = T], concern)
    BY Zenon, <1>3, <1>5, ServesTasks
  <1> QED BY Zenon, <1>4, <1>6

LEMMA ServesScan ==
    ASSUME NEW x \in ServerSides, NEW concern, NEW ref \in concern.requests, ref \in Nat, NEW t \in Topics
    PROVE  Serves(x, StartScan(x, t, ref), concern)
  <1> DEFINE y == Change(x, t)
  <1>1. Serves(x, y, concern)
    BY Zenon, ServesChange
  <1>2. StartScan(x, t, ref) = IF ~ IsLoggedIn(x) THEN SendResult(x, "NotLoggedIn", ref)
                               ELSE IF Scanning(x.w)
                               THEN SendResult(x, "OperationAlreadyRunning", ref)
                               ELSE SendSuccess(y, ref)
    BY Zenon DEF StartScan
  <1> HIDE DEF y
  <1>3. Serves(x, SendSuccess(y, ref), concern)
    BY Zenon, <1>1, ServesSuccess, ServesTwice, ServesTyped
  <1>4. "NotLoggedIn" \in Codes /\ "OperationAlreadyRunning" \in Codes
    BY DEF Codes
  <1> QED BY Zenon, <1>2, <1>3, <1>4, ServesResult

LEMMA ServesSwitch ==
    ASSUME NEW x \in ServerSides, NEW concern, NEW ref \in concern.requests, ref \in Nat, NEW on
    PROVE  Serves(x, SwitchDelayedStart(x, on, ref), concern)
  <1> DEFINE y == Change(x, "delayed")
             code == IF on THEN "OperationAlreadyRunning" ELSE "AlreadyDone"
  <1>0. "delayed" \in Topics
    BY DEF Topics
  <1>1. Serves(x, y, concern)
    BY Zenon, <1>0, ServesChange
  <1>2. SwitchDelayedStart(x, on, ref)
        = IF ~ IsLoggedIn(x) THEN SendResult(x, "NotLoggedIn", ref)
          ELSE IF On(x.w["delayed"]) = on THEN SendResult(x, code, ref)
          ELSE SendSuccess(y, ref)
    BY Zenon DEF SwitchDelayedStart
  <1>3. "NotLoggedIn" \in Codes /\ code \in Codes
    BY DEF Codes
  <1> HIDE DEF y, code
  <1>4. Serves(x, SendSuccess(y, ref), concern)
    BY Zenon, <1>1, ServesSuccess, ServesTwice, ServesTyped
  <1> QED BY Zenon, <1>2, <1>3, <1>4, ServesResult

LEMMA ServesInsertion ==
    ASSUME NEW x \in ServerSides, NEW concern, NEW ref \in concern.requests, ref \in Nat, NEW possible
    PROVE  Serves(x, InsertIntoQueue(x, possible, ref), concern)
  <1> DEFINE y == [x EXCEPT !.w["length"] = @ + 1]
             z == SendQueueEntryAdditionConfirmationMessage(y, ref)
  <1>0. "length" \in Topics
    BY DEF Topics
  <1>1. Serves(x, y, concern)
    BY Zenon, <1>0, ServesTopic
  <1>2. InsertIntoQueue(x, possible, ref)
        = IF ~ IsLoggedIn(x) THEN SendResult(x, "NotLoggedIn", ref)
          ELSE IF ~ possible THEN SendResult(x, "InvalidQueueIndex", ref)
          ELSE IF y.s.events THEN SchedulePlayerStateNotification(z) ELSE y
    BY Zenon DEF InsertIntoQueue
  <1> HIDE DEF y
  <1>3. Serves(y, z, concern)
    BY Zenon, <1>1, PlainIsHarmless, ServesSend, ServesTyped
          DEF SendQueueEntryAdditionConfirmationMessage
  <1> HIDE DEF z
  <1>4. Serves(x, z, concern)
    BY Zenon, <1>1, <1>3, ServesTwice
  <1>5. Serves(z, SchedulePlayerStateNotification(z), concern)
    BY Zenon, <1>4, ServesPending, ServesTyped DEF SchedulePlayerStateNotification
  <1>6. Serves(x, SchedulePlayerStateNotification(z), concern)
    BY Zenon, <1>4, <1>5, ServesTwice
  <1>7. "NotLoggedIn" \in Codes /\ "InvalidQueueIndex" \in Codes
    BY DEF Codes
  <1> QED BY Zenon, <1>1, <1>2, <1>6, <1>7, ServesResult

LEMMA ServesRequest ==
    ASSUME NEW x \in ServerSides, NEW concern, NEW m, m.kind \in Kinds, m.ref \in Nat,
           m.ref \in concern.requests
    PROVE  Serves(x, HandleRequest(x, m), concern)
  <1>0. IsLoggedIn(x) \in BOOLEAN
    BY DEF IsLoggedIn
  <1>1. CASE m.kind = "delay"
    BY Zenon, <1>1, ServesSwitch DEF HandleRequest
  <1>2. CASE m.kind = "insert"
    BY Zenon, <1>2, ServesInsertion DEF HandleRequest
  <1>3. CASE m.kind = "hash info"
    BY Zenon, <1>3, ServesLater DEF HandleRequest, GetHashInfo
  <1>4. CASE m.kind = "collection"
    <2>1. "NotLoggedIn" \in Codes
      BY DEF Codes
    <2> QED BY Zenon, <1>4, <2>1, ServesLater, ServesResult DEF HandleRequest, FetchCollection
  <1>5. CASE m.kind = "history"
    BY Zenon, <1>0, <1>5, ServesLater DEF HandleRequest, GetPersonalTrackHistory
  <1>6. CASE m.kind = "authenticate"
    BY Zenon, <1>0, <1>6, ServesLater DEF HandleRequest, AuthenticateScrobblingProvider
  <1>7. CASE m.kind \in {"indexing", "scanning"}
    <2>1. m.kind \in Topics
      BY <1>7 DEF Topics
    <2>2. HandleRequest(x, m) = StartScan(x, m.kind, m.ref)
      BY Zenon, <1>7 DEF HandleRequest, HandleParameterlessAction
    <2> QED BY Zenon, <2>1, <2>2, ServesScan
  <1>8. CASE m.kind = "undelay"
    BY Zenon, <1>8, ServesSwitch DEF HandleRequest, HandleParameterlessAction
  <1>9. CASE m.kind = "reload"
    BY Zenon, <1>0, <1>9, ServesLater DEF HandleRequest, HandleParameterlessAction
  <1> QED BY Zenon, <1>1, <1>2, <1>3, <1>4, <1>5, <1>6, <1>7, <1>8, <1>9 DEF Kinds

LEMMA ServesTask ==
    ASSUME NEW x \in ServerSides, NEW concern, NEW task \in x.s.tasks, task.ref \in concern.requests
    PROVE  Serves(x, FinishTask(x, task), concern)
  <1> DEFINE T == x.s.tasks \ {task}
             next == [task EXCEPT !.step = @ + 1]
             U == T \cup {next}
             y == [x EXCEPT !.s.tasks = T]
             z == [y EXCEPT !.s.tasks = @ \cup {next}]
  <1>1. x.s.tasks \in SUBSET Task
    BY Zenon DEF ServerSides, ServerEnds
  <1>2. task \in Task
    BY Zenon, <1>1
  <1>3. task.ref \in Nat
    BY Zenon, <1>2 DEF Task
  <1>4. next \in Task /\ next.ref = task.ref
    <2>1. task.step + 1 \in Nat
      BY <1>2 DEF Task
    <2> QED BY Zenon, <1>2, <2>1 DEF Task
  <1>5. T \in SUBSET Task /\ OthersStay(x.s.tasks, T, concern.requests)
    BY <1>1 DEF OthersStay
  <1>6. U \in SUBSET Task /\ OthersStay(T, U, concern.requests)
    <2> HIDE DEF next
    <2> QED BY <1>4, <1>5 DEF OthersStay
  <1>7. Serves(x, y, concern)
    <2> HIDE DEF T
    <2> QED BY Zenon, <1>5, ServesTasks
  <1>8. y.s.tasks = T
    BY Zenon DEF ServerSides, ServerEnds
  <1>9. Serves(x, z, concern)
    <2>1. z = [y EXCEPT !.s.tasks = U]
      <3> HIDE DEF y, next
      <3>1. y \in ServerSides
        BY Zenon, <1>7, ServesTyped
      <3> QED BY Zenon, <1>8, <3>1 DEF ServerSides, ServerEnds
    <2> HIDE DEF U, y, T, z
    <2>2. Serves(y, [y EXCEPT !.s.tasks = U], concern)
      BY Zenon, <1>6, <1>7, <1>8, ServesTasks, ServesTyped
    <2> QED BY Zenon, <1>7, <2>1, <2>2, ServesTwice
  <1>10. FinishTask(x, task)
         = IF task.kind = "collection"
           THEN IF task.step = CollectionBatches THEN SendSuccess(y, task.ref)
                                                 ELSE SendTrackInfoBatchMessage(z, task.ref)
           ELSE IF ~ task.permitted THEN SendResult(y, "NotLoggedIn", task.ref)
           ELSE IF task.kind \in {"history", "hash info"} THEN SendReply(y, task.ref)
           ELSE SendSuccess(y, task.ref)
    BY Zenon DEF FinishTask, SendNextBatch, OnCollectionTrackInfoCompleted
  <1> HIDE DEF y, z
  <1>11. y \in ServerSides /\ z \in ServerSides
    BY Zenon, <1>7, <1>9, ServesTyped
  <1>12. Serves(x, SendSuccess(y, task.ref), concern)
    BY Zenon, <1>3, <1>7, <1>11, ServesSuccess, ServesTwice
  <1>13. Serves(x, SendResult(y, "NotLoggedIn", task.ref), concern)
    <2>1. "NotLoggedIn" \in Codes
      BY DEF Codes
    <2>2. Serves(y, SendResult(y, "NotLoggedIn", task.ref), concern)
      BY Zenon, <1>3, <1>11, <2>1, ServesResult
    <2> QED BY Zenon, <1>7, <2>2, ServesTwice
  <1>14. Serves(x, SendReply(y, task.ref), concern)
    <2>1. Serves(y, SendReply(y, task.ref), concern)
      BY Zenon, <1>3, <1>11, PlainIsHarmless, ServesSend DEF SendReply
    <2> QED BY Zenon, <1>7, <2>1, ServesTwice
  <1>15. Serves(x, SendTrackInfoBatchMessage(z, task.ref), concern)
    <2>1. Serves(z, SendTrackInfoBatchMessage(z, task.ref), concern)
      BY Zenon, <1>3, <1>11, PlainIsHarmless, ServesSend DEF SendTrackInfoBatchMessage
    <2> QED BY Zenon, <1>9, <2>1, ServesTwice
  <1> QED BY Zenon, <1>10, <1>12, <1>13, <1>14, <1>15

LEMMA ServesRegistration ==
    ASSUME NEW x \in ServerSides, NEW concern, NEW m, m.login \in Users, m.ref \in Nat,
           m.ref \in concern.requests
    PROVE  Serves(x, RegisterNewAccount(x, m), concern)
  <1> DEFINE y == [x EXCEPT !.users = @ \cup {m.login}]
  <1>1. y \in ServerSides
    BY Zenon DEF ServerSides
  <1>2. y.out = x.out /\ x.users \subseteq y.users /\ y.s = x.s
    BY Zenon DEF ServerSides
  <1>3. RegisterNewAccount(x, m)
        = IF m.login \in x.users
          THEN SendResult(x, "UserAccountAlreadyExists", m.ref)
          ELSE SendResultMessage(y, "NoError", m.ref, m.login)
    BY Zenon DEF RegisterNewAccount
  <1> HIDE DEF y
  <1>4. Serves(x, y, concern)
    BY Zenon, <1>1, <1>2, ServesSilently DEF OthersStay, SameLogin
  <1>5. "NoError" \in Codes /\ "UserAccountAlreadyExists" \in Codes
    BY DEF Codes
  <1>6. m.login \in Names
    BY DEF Names
  <1>7. Serves(y, SendResultMessage(y, "NoError", m.ref, m.login), concern)
    BY Zenon, <1>1, <1>5, <1>6, ServesResult
  <1> QED BY Zenon, <1>3, <1>4, <1>5, <1>7, ServesResult, ServesTwice

LEMMA ServesNewAccount ==
    ASSUME NEW x \in ServerSides, NEW concern, NEW m, m.login \in Users, m.ref \in Nat,
           m.ref \in concern.requests
    PROVE  Serves(x, InitiateNewUserAccount(x, m), concern)
  <1> DEFINE salt == x.salts + 1
             y == [WithNewSalt(x) EXCEPT !.s.registering = m.login,
                                         !.s.registrationSalt = salt]
             n == [type |-> "NewAccountSalt", login |-> m.login, salt |-> salt]
  <1>1. salt \in Nat /\ m.login \in Names
    BY DEF ServerSides, Names
  <1>2. InitiateNewUserAccount(x, m)
        = IF m.login \in x.users
          THEN SendResult(x, "UserAccountAlreadyExists", m.ref)
          ELSE SendBinaryMessage(y, n)
    BY Zenon DEF InitiateNewUserAccount
  <1>3. WithNewSalt(x) = [x EXCEPT !.salts = salt]
    BY Zenon DEF WithNewSalt
  <1>4. n \in Harmless(concern)
    BY Zenon, <1>1, PlainIsHarmless
  <1> HIDE DEF salt, n
  <1>5. y \in ServerSides
    BY Zenon, <1>1, <1>3 DEF ServerSides, ServerEnds
  <1>6. y.out = x.out /\ y.users = x.users /\ y.s.tasks = x.s.tasks
    BY Zenon, <1>1, <1>3 DEF ServerSides, ServerEnds
  <1>7. SameLogin(x.s, y.s)
    BY Zenon, <1>1, <1>3 DEF ServerSides, ServerEnds, SameLogin
  <1> HIDE DEF y
  <1>8. Serves(x, y, concern)
    BY Zenon, <1>5, <1>6, <1>7, ServesSilently DEF OthersStay
  <1>9. Serves(y, SendBinaryMessage(y, n), concern)
    BY Zenon, <1>4, <1>5, ServesSend
  <1>10. "UserAccountAlreadyExists" \in Codes
    BY DEF Codes
  <1>11. Serves(x, SendResult(x, "UserAccountAlreadyExists", m.ref), concern)
    BY Zenon, <1>10, ServesResult
  <1>12. Serves(x, SendBinaryMessage(y, n), concern)
    BY Zenon, <1>8, <1>9, ServesTwice
  <1> QED BY Zenon, <1>2, <1>11, <1>12

LEMMA ServesAccount ==
    ASSUME NEW x \in ServerSides, NEW concern, NEW m, m.login \in Users, m.ref \in Nat,
           m.ref \in concern.requests
    PROVE  Serves(x, FinishNewUserAccount(x, m), concern)
  <1> DEFINE y == [x EXCEPT !.s.registering = Nobody, !.s.registrationSalt = NoSalt]
  <1>1. Nobody \in Names /\ NoSalt \in Nat
    BY DEF Names, NoSalt
  <1>2. y \in ServerSides
    BY Zenon, <1>1 DEF ServerSides, ServerEnds
  <1>3. y.out = x.out /\ y.users = x.users /\ y.s.tasks = x.s.tasks
    BY Zenon DEF ServerSides, ServerEnds
  <1>4. SameLogin(x.s, y.s)
    BY Zenon DEF ServerSides, ServerEnds, SameLogin
  <1>5. FinishNewUserAccount(x, m)
        = IF m.login # x.s.registering \/ m.salt # x.s.registrationSalt
          THEN SendResult(x, "RegistrationMismatch", m.ref)
          ELSE RegisterNewAccount(y, m)
    BY Zenon DEF FinishNewUserAccount
  <1> HIDE DEF y
  <1>6. Serves(x, y, concern)
    BY Zenon, <1>2, <1>3, <1>4, ServesSilently DEF OthersStay
  <1>7. Serves(y, RegisterNewAccount(y, m), concern)
    BY Zenon, <1>2, ServesRegistration
  <1>8. "RegistrationMismatch" \in Codes
    BY DEF Codes
  <1>9. Serves(x, SendResult(x, "RegistrationMismatch", m.ref), concern)
    BY Zenon, <1>8, ServesResult
  <1>10. Serves(x, RegisterNewAccount(y, m), concern)
    BY Zenon, <1>6, <1>7, ServesTwice
  <1> QED BY Zenon, <1>5, <1>9, <1>10

-----------------------------------------------------------------------------
(* Such steps of the server preserve the invariant.                        *)

LEMMA HarmlessIsNoLogin ==
    ASSUME NEW c \in ClientEnds, NEW concern, concern.requests \subseteq OtherRefs(c)
    PROVE  /\ \A m \in Harmless(concern) : ~ OfLogin(m, c.loginRef) /\ m.type # "Header"
           /\ \A m \in Harmless(concern) : \A s : ResultOK(m, c, s)
  <1>1. ASSUME NEW m \in Harmless(concern)
        PROVE  ~ OfLogin(m, c.loginRef) /\ m.type # "Header"
    BY DEF Harmless, Sparing, IsAnswer, OfLogin, OtherRefs, DownMessage
  <1>2. ASSUME NEW m \in Harmless(concern), NEW s
        PROVE  ResultOK(m, c, s)
    BY DEF Harmless, Sparing, IsAnswer, ResultOK, OtherRefs
  <1> QED BY Zenon, <1>1, <1>2

LEMMA NoHeaderGrown ==
    ASSUME NEW M, NEW a \in Seq(M), NEW b \in Seq(M), NEW S, Grown(a, b, S),
           \A m \in S : m.type # "Header", NoHeader(a)
    PROVE  NoHeader(b)
  BY DEF Grown, NoHeader

LEMMA NoHeaderTail ==
    ASSUME NEW M, NEW a \in Seq(M), a # << >>, NoHeader(a)
    PROVE  NoHeader(Tail(a))
  BY TailOfList DEF NoHeader

LEMMA ServerServes ==
    ASSUME NEW c \in ClientEnds, NEW x \in ServerSides, NEW y, NEW us, NEW concern,
           concern.requests \subseteq OtherRefs(c), Serves(x, y, concern),
           Consistent(c, x.s, x.users, us, x.out)
    PROVE  Consistent(c, y.s, y.users, us, y.out)
  <1>1. y \in ServerSides
    BY ServesTyped
  <1>2. x.out \in Seq(DownMessage) /\ y.out \in Seq(DownMessage)
    BY <1>1 DEF ServerSides
  <1>3. Grown(x.out, y.out, Harmless(concern)) /\ SameLogin(x.s, y.s)
    BY Zenon DEF Serves
  <1>4. \A m \in Harmless(concern) : ~ OfLogin(m, c.loginRef) /\ m.type # "Header"
    BY Zenon, HarmlessIsNoLogin
  <1>5. NoLogin(x.out, c.loginRef) => NoLogin(y.out, c.loginRef)
    BY Zenon, <1>2, <1>3, <1>4, NoLoginGrown
  <1>6. NoHeader(x.out) => NoHeader(y.out)
    BY Zenon, <1>2, <1>3, <1>4, NoHeaderGrown
  <1>7. \A m : OneLogin(x.out, c.loginRef, m) => OneLogin(y.out, c.loginRef, m)
    BY Zenon, <1>2, <1>3, <1>4, OneLoginGrown
  <1>8. ReferencesOK(c, y.s, us)
    BY Zenon DEF Consistent, ReferencesOK, TasksOK, Serves, OthersStay
  <1>9. ResultsOK(c, y.s, y.out)
    <2>1. ASSUME NEW i \in 1..Len(y.out)
          PROVE  ResultOK(y.out[i], c, y.s)
      <3>1. CASE i \in 1..Len(x.out)
        <4>1. y.out[i] = x.out[i]
          BY Zenon, <1>3, <3>1 DEF Grown
        <4>2. ResultOK(x.out[i], c, x.s)
          BY Zenon, <3>1 DEF Consistent, ResultsOK
        <4> QED BY Zenon, <1>3, <4>1, <4>2 DEF ResultOK, SameLogin
      <3>2. CASE i \in Len(x.out)+1..Len(y.out)
        BY Zenon, <1>3, <3>2, HarmlessIsNoLogin DEF Grown
      <3> QED BY <1>2, <3>1, <3>2
    <2> QED BY Zenon, <2>1 DEF ResultsOK
  <1>10. LoggedInOK(c, y.s)
    BY Zenon, <1>3 DEF Consistent, LoggedInOK, SameLogin
  <1>11. BinaryOK(c, y.s, y.out)
    BY Zenon, <1>3, <1>6 DEF Consistent, BinaryOK, SameLogin
  <1>12. BeforeTheConnection(c, y.s, us, y.out)
    <2> SUFFICES ASSUME c.state \in {"NotConnected", "Connecting"}
                 PROVE  /\ ~ y.s.open
                        /\ c.loggedIn = Nobody /\ c.loggingIn = Nobody
                        /\ NoLogin(us, c.loginRef) /\ NoLogin(y.out, c.loginRef)
                        /\ NoHeader(y.out)
      BY Zenon DEF BeforeTheConnection
    <2>0. BeforeTheConnection(c, x.s, us, x.out)
      BY Zenon DEF Consistent
    <2> QED BY Zenon, <1>3, <1>5, <1>6, <2>0 DEF SameLogin, BeforeTheConnection, Serves, OthersStay
  <1>13. LoginPhases(c, y.s, y.users, us, y.out)
    <2> SUFFICES ASSUME y.s.open, ~ c.overtaken
                 PROVE  Phases(c, y.s, y.users, us, y.out)
      BY Zenon DEF LoginPhases
    <2>0. Phases(c, x.s, x.users, us, x.out)
      BY Zenon, <1>3 DEF Consistent, LoginPhases, SameLogin
    <2>1. CASE NoneUnderWay(c, x.s, us, x.out)
      BY Zenon, <1>3, <1>5, <2>1 DEF NoneUnderWay, SameLogin, Phases
    <2>2. CASE Initiated(c, x.s, us, x.out)
      BY Zenon, <1>3, <1>5, <2>2 DEF Initiated, SameLogin, Phases
    <2>3. CASE Salted(c, x.s, x.users, us, x.out)
      <3>1. y.s.loggingIn \in y.users
        BY Zenon, <1>3, <2>3 DEF Salted, SameLogin, Serves
      <3> QED BY Zenon, <1>3, <1>7, <2>3, <3>1 DEF Salted, SameLogin, Phases
    <2>4. CASE Finishing(c, x.s, x.users, us, x.out)
      <3>1. y.s.loggingIn \in y.users
        BY Zenon, <1>3, <2>4 DEF Finishing, SameLogin, Serves
      <3> QED BY Zenon, <1>3, <1>5, <2>4, <3>1 DEF Finishing, SameLogin, Phases
    <2>5. CASE Answered(c, x.s, us, x.out)
      BY Zenon, <1>3, <1>7, <2>5 DEF Answered, Answers, SameLogin, Phases
    <2> QED BY Zenon, <2>0, <2>1, <2>2, <2>3, <2>4, <2>5 DEF Phases
  <1> QED BY Zenon, <1>8, <1>9, <1>10, <1>11, <1>12, <1>13 DEF Consistent

(* A message that is not about a login is read.                            *)
LEMMA UpRead ==
    ASSUME NEW c \in ClientEnds, NEW s, NEW users, NEW us \in Seq(UpMessage), NEW ds,
           us # << >>, ~ OfLogin(Head(us), c.loginRef), Consistent(c, s, users, us, ds)
    PROVE  Consistent(c, s, users, Tail(us), ds)
  <1>1. NoLogin(us, c.loginRef) => NoLogin(Tail(us), c.loginRef)
    BY Zenon, NoLoginTail
  <1>2. \A m : OneLogin(us, c.loginRef, m) => OneLogin(Tail(us), c.loginRef, m)
    BY Zenon, OneLoginTail
  <1>3. ReferencesOK(c, s, Tail(us))
    <2>1. \A i \in 1..Len(us) : UpOK(us[i], c)
      BY Zenon DEF Consistent, ReferencesOK
    <2>2. \A i \in 1..Len(Tail(us)) : UpOK(Tail(us)[i], c)
      BY <2>1, TailOfList
    <2> QED BY Zenon, <2>2 DEF Consistent, ReferencesOK
  <1>4. BeforeTheConnection(c, s, Tail(us), ds)
    BY Zenon, <1>1 DEF Consistent, BeforeTheConnection
  <1>5. LoginPhases(c, s, users, Tail(us), ds)
    BY Zenon, <1>1, <1>2 DEF Consistent, LoginPhases, Phases, NoneUnderWay, Initiated,
                             Salted, Finishing, Answered
  <1> QED BY Zenon, <1>3, <1>4, <1>5 DEF Consistent

LEMMA DownRead ==
    ASSUME NEW c \in ClientEnds, NEW s, NEW users, NEW us, NEW ds \in Seq(DownMessage),
           ds # << >>, ~ OfLogin(Head(ds), c.loginRef), Consistent(c, s, users, us, ds)
    PROVE  Consistent(c, s, users, us, Tail(ds))
  <1>1. NoLogin(ds, c.loginRef) => NoLogin(Tail(ds), c.loginRef)
    BY Zenon, NoLoginTail
  <1>2. \A m : OneLogin(ds, c.loginRef, m) => OneLogin(Tail(ds), c.loginRef, m)
    BY Zenon, OneLoginTail
  <1>3. NoHeader(ds) => NoHeader(Tail(ds))
    BY Zenon, NoHeaderTail
  <1>4. ResultsOK(c, s, Tail(ds))
    <2>1. \A i \in 1..Len(ds) : ResultOK(ds[i], c, s)
      BY Zenon DEF Consistent, ResultsOK
    <2>2. \A i \in 1..Len(Tail(ds)) : ResultOK(Tail(ds)[i], c, s)
      BY <2>1, TailOfList
    <2> QED BY Zenon, <2>2 DEF ResultsOK
  <1>5. BeforeTheConnection(c, s, us, Tail(ds)) /\ BinaryOK(c, s, Tail(ds))
    BY Zenon, <1>1, <1>3 DEF Consistent, BeforeTheConnection, BinaryOK
  <1>6. LoginPhases(c, s, users, us, Tail(ds))
    BY Zenon, <1>1, <1>2 DEF Consistent, LoginPhases, Phases, NoneUnderWay, Initiated,
                             Salted, Finishing, Answered
  <1> QED BY Zenon, <1>4, <1>5, <1>6 DEF Consistent

-----------------------------------------------------------------------------
(* The server and the two messages of a login.                             *)

LEMMA SendingWrites ==
    ASSUME NEW x \in ServerSides, NEW n \in DownMessage, NEW z, z = SendBinaryMessage(x, n)
    PROVE  /\ z \in ServerSides
           /\ z.s = x.s /\ z.users = x.users
           /\ z.out = x.out \/ z.out = Append(x.out, n)
           /\ x.s.open /\ x.s.binary => z.out = Append(x.out, n)
  <1>1. z \in ServerSides
    BY Zenon, SendingIsTyped
  <1>2. CASE x.s.open /\ x.s.binary
    BY Zenon, <1>1, <1>2 DEF SendBinaryMessage, ServerSides
  <1>3. CASE ~ (x.s.open /\ x.s.binary)
    BY Zenon, <1>1, <1>3 DEF SendBinaryMessage
  <1> QED BY Zenon, <1>2, <1>3

LEMMA ResultsAppended ==
    ASSUME NEW c, NEW s, NEW ds \in Seq(DownMessage), NEW n \in DownMessage,
           ResultsOK(c, s, ds), ResultOK(n, c, s)
    PROVE  ResultsOK(c, s, Append(ds, n))
  <1>1. ASSUME NEW i \in 1..Len(Append(ds, n))
        PROVE  ResultOK(Append(ds, n)[i], c, s)
    <2>1. (i \in 1..Len(ds) /\ Append(ds, n)[i] = ds[i]) \/ Append(ds, n)[i] = n
      OBVIOUS
    <2> QED BY Zenon, <2>1 DEF ResultsOK
  <1> QED BY Zenon, <1>1 DEF ResultsOK

LEMMA NoHeaderAppended ==
    ASSUME NEW ds \in Seq(DownMessage), NEW n \in DownMessage, NoHeader(ds),
           n.type # "Header"
    PROVE  NoHeader(Append(ds, n))
  BY DEF NoHeader

(* The phase that a login is in when its message is the next to be read.   *)
LEMMA InitiatedWhenRead ==
    ASSUME NEW c \in ClientEnds, NEW s, NEW users, NEW us \in Seq(UpMessage), NEW ds,
           Consistent(c, s, users, us, ds), us # << >>, Head(us).type = "InitiateLogin",
           s.open, ~ c.overtaken
    PROVE  /\ Initiated(c, s, us, ds)
           /\ Head(us) = Initiate("InitiateLogin", c.loggingIn, c.loginRef)
           /\ NoLogin(Tail(us), c.loginRef)
  <1>1. OfLogin(Head(us), c.loginRef)
    BY Zenon DEF OfLogin
  <1>2. ~ NoLogin(us, c.loginRef)
    BY Zenon, <1>1, NoLoginTail
  <1>3. \A m : OneLogin(us, c.loginRef, m) => Head(us) = m /\ NoLogin(Tail(us), c.loginRef)
    BY Zenon, <1>1, OneLoginHead
  <1>4. ~ Finishing(c, s, users, us, ds)
    <2> SUFFICES ASSUME Finishing(c, s, users, us, ds)
                 PROVE  FALSE
      OBVIOUS
    <2>1. Head(us) = Finish("FinishLogin", c.loggingIn, c.loginRef, s.sessionSalt, c.right)
      BY Zenon, <1>3 DEF Finishing
    <2> QED BY <2>1 DEF Finish
  <1>5. Phases(c, s, users, us, ds)
    BY Zenon DEF Consistent, LoginPhases
  <1>6. Initiated(c, s, us, ds)
    BY Zenon, <1>2, <1>4, <1>5 DEF Phases, NoneUnderWay, Salted, Answered
  <1> QED BY Zenon, <1>3, <1>6 DEF Initiated

LEMMA FinishingWhenRead ==
    ASSUME NEW c \in ClientEnds, NEW s, NEW users, NEW us \in Seq(UpMessage), NEW ds,
           Consistent(c, s, users, us, ds), us # << >>, Head(us).type = "FinishLogin",
           s.open, ~ c.overtaken
    PROVE  /\ Finishing(c, s, users, us, ds)
           /\ Head(us) = Finish("FinishLogin", c.loggingIn, c.loginRef, s.sessionSalt, c.right)
           /\ NoLogin(Tail(us), c.loginRef)
  <1>1. OfLogin(Head(us), c.loginRef)
    BY Zenon DEF OfLogin
  <1>2. ~ NoLogin(us, c.loginRef)
    BY Zenon, <1>1, NoLoginTail
  <1>3. \A m : OneLogin(us, c.loginRef, m) => Head(us) = m /\ NoLogin(Tail(us), c.loginRef)
    BY Zenon, <1>1, OneLoginHead
  <1>4. ~ Initiated(c, s, us, ds)
    <2> SUFFICES ASSUME Initiated(c, s, us, ds)
                 PROVE  FALSE
      OBVIOUS
    <2>1. Head(us) = Initiate("InitiateLogin", c.loggingIn, c.loginRef)
      BY Zenon, <1>3 DEF Initiated
    <2> QED BY <2>1 DEF Initiate
  <1>5. Phases(c, s, users, us, ds)
    BY Zenon DEF Consistent, LoginPhases
  <1>6. Finishing(c, s, users, us, ds)
    BY Zenon, <1>2, <1>4, <1>5 DEF Phases, NoneUnderWay, Salted, Answered
  <1> QED BY Zenon, <1>3, <1>6 DEF Finishing

(* A login is answered: x is the server when it reads the message, y when  *)
(* it has done what it does with it, and n is the answer.                  *)
LEMMA LoginAnswered ==
    ASSUME NEW c \in ClientEnds, NEW x \in ServerSides, NEW y \in ServerSides,
           NEW us \in Seq(UpMessage), us # << >>, x.s.open,
           Consistent(c, x.s, x.users, us, x.out),
           Head(us).type \in {"InitiateLogin", "FinishLogin"},
           y.s.open = x.s.open, y.s.binary = x.s.binary, y.s.tasks = x.s.tasks,
           y.users = x.users, y.out = x.out,
           NEW n \in DownMessage, n.type = "Result", n.ref = Head(us).ref,
           n.code = "NoError" => /\ n.user = y.s.loggedIn /\ n.user # Nobody
                                 /\ x.s.loggedIn = Nobody,
           n.code # "NoError" => y.s.loggedIn = x.s.loggedIn,
           y.s.loggedIn # Nobody => y.s.loggingIn = Nobody,
           ~ c.overtaken => /\ y.s.loggingIn = Nobody
                            /\ n.code # "NoError" => y.s.loggedIn = Nobody,
           NEW z, z = SendBinaryMessage(y, n)
    PROVE  z \in ServerSides /\ Consistent(c, z.s, z.users, Tail(us), z.out)
  <1>0. z \in ServerSides /\ z.s = y.s /\ z.users = x.users
        /\ (z.out = x.out \/ z.out = Append(x.out, n))
        /\ (x.s.binary => z.out = Append(x.out, n))
    <2>1. /\ z \in ServerSides
          /\ z.s = y.s /\ z.users = y.users
          /\ z.out = y.out \/ z.out = Append(y.out, n)
          /\ y.s.open /\ y.s.binary => z.out = Append(y.out, n)
      BY Zenon, SendingWrites
    <2>2. y.s.open /\ (x.s.binary => y.s.binary)
      BY Zenon
    <2> QED BY Zenon, <2>1, <2>2
  <1>1. x.out \in Seq(DownMessage) /\ z.out \in Seq(DownMessage)
    BY Zenon, <1>0 DEF ServerSides
  <1>2. ReferencesOK(c, z.s, Tail(us)) /\ UpOK(Head(us), c)
    <2>1. \A i \in 1..Len(us) : UpOK(us[i], c)
      BY Zenon DEF Consistent, ReferencesOK
    <2>2. (\A i \in 1..Len(Tail(us)) : UpOK(Tail(us)[i], c)) /\ UpOK(Head(us), c)
      BY <2>1, TailOfList
    <2> QED BY Zenon, <1>0, <2>2 DEF Consistent, ReferencesOK, TasksOK
  <1>3. ResultOK(n, c, z.s)
    BY Zenon, <1>0, <1>2 DEF UpOK, ResultOK
  <1>4. ResultsOK(c, z.s, x.out)
    BY Zenon, <1>0 DEF Consistent, ResultsOK, ResultOK
  <1>5. ResultsOK(c, z.s, z.out)
    BY Zenon, <1>0, <1>1, <1>3, <1>4, ResultsAppended
  <1>6. LoggedInOK(c, z.s)
    BY Zenon, <1>0 DEF Consistent, LoggedInOK
  <1>7. NoHeader(x.out) => NoHeader(z.out)
    <2>1. n.type # "Header"
      OBVIOUS
    <2> QED BY Zenon, <1>0, <1>1, <2>1, NoHeaderAppended
  <1>8. BinaryOK(c, z.s, z.out)
    BY Zenon, <1>0, <1>7 DEF Consistent, BinaryOK
  <1>9. BeforeTheConnection(c, z.s, Tail(us), z.out)
    BY Zenon DEF Consistent, BeforeTheConnection
  <1>10. LoginPhases(c, z.s, z.users, Tail(us), z.out)
    <2> SUFFICES ASSUME ~ c.overtaken
                 PROVE  Answered(c, z.s, Tail(us), z.out)
      BY Zenon DEF LoginPhases, Phases
    <2>1. /\ c.loggingIn # Nobody /\ c.loggedIn = Nobody /\ NoLogin(x.out, c.loginRef)
          /\ NoLogin(Tail(us), c.loginRef) /\ Head(us).ref = c.loginRef
      <3>1. CASE Head(us).type = "InitiateLogin"
        <4>1. /\ Initiated(c, x.s, us, x.out) /\ NoLogin(Tail(us), c.loginRef)
              /\ Head(us) = Initiate("InitiateLogin", c.loggingIn, c.loginRef)
          BY Zenon, <3>1, InitiatedWhenRead
        <4>2. Head(us).ref = c.loginRef
          BY <4>1 DEF Initiate
        <4> QED BY Zenon, <4>1, <4>2 DEF Initiated
      <3>2. CASE Head(us).type = "FinishLogin"
        <4>1. /\ Finishing(c, x.s, x.users, us, x.out) /\ NoLogin(Tail(us), c.loginRef)
              /\ Head(us) = Finish("FinishLogin", c.loggingIn, c.loginRef, x.s.sessionSalt, c.right)
          BY Zenon, <3>2, FinishingWhenRead
        <4>2. Head(us).ref = c.loginRef
          BY <4>1 DEF Finish
        <4> QED BY Zenon, <4>1, <4>2 DEF Finishing
      <3> QED BY Zenon, <3>1, <3>2
    <2>2. x.s.binary
      BY Zenon, <2>1 DEF Consistent, BinaryOK
    <2>3. OfLogin(n, c.loginRef)
      BY Zenon, <2>1 DEF OfLogin
    <2>4. OneLogin(z.out, c.loginRef, n)
      BY Zenon, <1>0, <1>1, <2>1, <2>2, <2>3, OneLoginAppended
    <2>5. Answers(n, z.s)
      BY Zenon, <1>0 DEF Answers
    <2> QED BY Zenon, <1>0, <2>1, <2>4, <2>5 DEF Answered
  <1> QED BY Zenon, <1>0, <1>2, <1>5, <1>6, <1>8, <1>9, <1>10 DEF Consistent

LEMMA UpFields ==
    ASSUME NEW m \in UpMessage
    PROVE  /\ m.type \in {"InitiateLogin", "FinishLogin", "InitiateAccount", "FinishAccount"} =>
                 m.login \in Users /\ m.ref \in Nat
           /\ m.type \in {"FinishLogin", "FinishAccount"} => m.salt \in Nat
           /\ m.type = "Request" => m.kind \in Kinds /\ m.ref \in Nat
           /\ m.type = "Command" => m.topic \in Topics
           /\ m.type = "Ask" => m.kind \in Questions
  BY DEF UpMessage

LEMMA ServerInitiates ==
    ASSUME NEW c \in ClientEnds, NEW x \in ServerSides, NEW us \in Seq(UpMessage),
           us # << >>, x.s.open, Consistent(c, x.s, x.users, us, x.out),
           Head(us).type = "InitiateLogin", NEW z, z = InitiateLogin(x, Head(us))
    PROVE  z \in ServerSides /\ Consistent(c, z.s, z.users, Tail(us), z.out)
  <1> DEFINE m == Head(us)
  <1>1. m \in UpMessage /\ m.login \in Users /\ m.ref \in Nat
    BY UpFields, TailOfList
  <1>2. ~ c.overtaken => Initiated(c, x.s, us, x.out)
    BY Zenon, InitiatedWhenRead
  <1>3. ASSUME NEW code \in Codes, code # "NoError", z = SendResult(x, code, m.ref)
        PROVE  z \in ServerSides /\ Consistent(c, z.s, z.users, Tail(us), z.out)
    <2> DEFINE n == [type |-> "Result", code |-> code, ref |-> m.ref, user |-> Nobody]
    <2>1. n \in DownMessage
      BY <1>1 DEF DownMessage, Names
    <2>2. n.type = "Result" /\ n.code # "NoError" /\ n.ref = Head(us).ref
      BY <1>3
    <2>3. z = SendBinaryMessage(x, n)
      BY Zenon, <1>3 DEF SendResult, SendResultMessage
    <2>4. x.s.loggedIn # Nobody => x.s.loggingIn = Nobody
      BY Zenon DEF Consistent, LoggedInOK
    <2> HIDE DEF n
    <2> QED BY Zenon, <1>2, <2>1, <2>2, <2>3, <2>4, LoginAnswered DEF Initiated
  <1>4. ASSUME x.s.loggedIn = Nobody, m.login \in x.users
        PROVE  z \in ServerSides /\ Consistent(c, z.s, z.users, Tail(us), z.out)
    <2> DEFINE salt == x.salts + 1
               y == [WithNewSalt(x) EXCEPT !.s.loggingIn = m.login, !.s.sessionSalt = salt]
               n == LoginSalt(m.login, salt)
    <2>1. salt \in Nat /\ m.login \in Names
      BY <1>1 DEF ServerSides, Names
    <2>2. z = SendBinaryMessage(y, n)
      BY Zenon, <1>4 DEF InitiateLogin, IsLoggedIn, LoginSalt
    <2>3. n \in DownMessage /\ n.type = "LoginSalt"
      BY <1>1, <2>1 DEF DownMessage, LoginSalt
    <2>4. WithNewSalt(x) = [x EXCEPT !.salts = salt]
      BY Zenon DEF WithNewSalt
    <2> HIDE DEF salt
    <2>5. y \in ServerSides
      BY Zenon, <2>1, <2>4 DEF ServerSides, ServerEnds
    <2>6. /\ y.out = x.out /\ y.users = x.users /\ y.s.tasks = x.s.tasks
          /\ y.s.loggingIn = m.login /\ y.s.sessionSalt = salt
          /\ y.s.loggedIn = x.s.loggedIn
      BY Zenon, <2>1, <2>4 DEF ServerSides, ServerEnds
    <2>7. y.s.open = x.s.open /\ y.s.binary = x.s.binary
      BY Zenon, <2>1, <2>4 DEF ServerSides, ServerEnds
    <2> HIDE DEF y, n
    <2>8. /\ z \in ServerSides /\ z.s = y.s /\ z.users = y.users
          /\ z.out = y.out \/ z.out = Append(y.out, n)
          /\ y.s.open /\ y.s.binary => z.out = Append(y.out, n)
      BY Zenon, <2>2, <2>3, <2>5, SendingWrites
    <2>9. x.out \in Seq(DownMessage)
      BY Zenon DEF ServerSides
    <2>10. ReferencesOK(c, z.s, Tail(us))
      <3>1. \A i \in 1..Len(us) : UpOK(us[i], c)
        BY Zenon DEF Consistent, ReferencesOK
      <3>2. \A i \in 1..Len(Tail(us)) : UpOK(Tail(us)[i], c)
        BY <3>1, TailOfList
      <3> QED BY Zenon, <2>6, <2>8, <3>2 DEF Consistent, ReferencesOK, TasksOK
    <2>11. ResultsOK(c, z.s, z.out)
      <3>1. ResultsOK(c, z.s, x.out)
        BY Zenon, <2>6, <2>7, <2>8 DEF Consistent, ResultsOK, ResultOK
      <3>2. ResultOK(n, c, z.s)
        BY <2>3 DEF ResultOK
      <3> QED BY Zenon, <2>3, <2>6, <2>8, <2>9, <3>1, <3>2, ResultsAppended
    <2>12. LoggedInOK(c, z.s)
      BY Zenon, <1>4, <2>6, <2>7, <2>8 DEF Consistent, LoggedInOK
    <2>13. BinaryOK(c, z.s, z.out)
      <3>1. n.type # "Header"
        BY <2>3
      <3>2. NoHeader(x.out) => NoHeader(z.out)
        BY Zenon, <2>3, <2>6, <2>8, <2>9, <3>1, NoHeaderAppended
      <3> QED BY Zenon, <2>7, <2>8, <3>2 DEF Consistent, BinaryOK
    <2>14. BeforeTheConnection(c, z.s, Tail(us), z.out)
      BY Zenon DEF Consistent, BeforeTheConnection
    <2>15. LoginPhases(c, z.s, z.users, Tail(us), z.out)
      <3> SUFFICES ASSUME ~ c.overtaken
                   PROVE  Salted(c, z.s, z.users, Tail(us), z.out)
        BY Zenon DEF LoginPhases, Phases
      <3>1. /\ Initiated(c, x.s, us, x.out) /\ NoLogin(Tail(us), c.loginRef)
            /\ m = Initiate("InitiateLogin", c.loggingIn, c.loginRef)
        BY Zenon, InitiatedWhenRead
      <3>2. m.login = c.loggingIn
        BY <3>1 DEF Initiate
      <3>3. x.s.binary
        BY Zenon, <3>1 DEF Consistent, BinaryOK, Initiated
      <3>4. z.out = Append(x.out, n)
        BY Zenon, <2>6, <2>7, <2>8, <3>3
      <3>5. OneLogin(z.out, c.loginRef, n)
        <4>1. OfLogin(n, c.loginRef)
          BY Zenon, <2>3 DEF OfLogin
        <4> QED BY Zenon, <2>3, <2>9, <3>1, <3>4, <4>1, OneLoginAppended DEF Initiated
      <3>6. n = LoginSalt(c.loggingIn, z.s.sessionSalt)
        BY Zenon, <2>6, <2>8, <3>2 DEF n
      <3> QED BY Zenon, <1>4, <2>6, <2>8, <3>1, <3>2, <3>5, <3>6 DEF Salted, Initiated
    <2> QED BY Zenon, <2>8, <2>10, <2>11, <2>12, <2>13, <2>14, <2>15 DEF Consistent
  <1>5. "AlreadyLoggedIn" \in Codes /\ "AuthenticationFailed" \in Codes
    BY DEF Codes
  <1>6. CASE IsLoggedIn(x)
    BY Zenon, <1>3, <1>5, <1>6 DEF InitiateLogin
  <1>7. CASE ~ IsLoggedIn(x) /\ m.login \notin x.users
    BY Zenon, <1>3, <1>5, <1>7 DEF InitiateLogin
  <1> QED BY Zenon, <1>4, <1>6, <1>7 DEF IsLoggedIn

LEMMA ServerFinishes ==
    ASSUME NEW c \in ClientEnds, NEW x \in ServerSides, NEW us \in Seq(UpMessage),
           us # << >>, x.s.open, Consistent(c, x.s, x.users, us, x.out),
           Head(us).type = "FinishLogin", NEW z, z = FinishLogin(x, Head(us))
    PROVE  z \in ServerSides /\ Consistent(c, z.s, z.users, Tail(us), z.out)
  <1> DEFINE m == Head(us)
             y == [x EXCEPT !.s.loggingIn = Nobody, !.s.sessionSalt = NoSalt]
             w == [y EXCEPT !.s = SetLoggedIn(@, m)]
  <1>1. m \in UpMessage /\ m.login \in Users /\ m.login \in Names /\ m.ref \in Nat
        /\ m.login # Nobody
    BY UpFields, TailOfList, NobodyIsNoUser DEF Names
  <1>2. LoggedInOK(c, x.s)
    BY Zenon DEF Consistent
  <1>3. ~ c.overtaken => /\ x.s.loggedIn = Nobody /\ m.login \in x.users
                         /\ m.login = x.s.loggingIn /\ m.salt = x.s.sessionSalt
    <2> SUFFICES ASSUME ~ c.overtaken
                 PROVE  /\ x.s.loggedIn = Nobody /\ m.login \in x.users
                        /\ m.login = x.s.loggingIn /\ m.salt = x.s.sessionSalt
      OBVIOUS
    <2>1. /\ Finishing(c, x.s, x.users, us, x.out)
          /\ m = Finish("FinishLogin", c.loggingIn, c.loginRef, x.s.sessionSalt, c.right)
      BY Zenon, FinishingWhenRead
    <2>2. m.login = c.loggingIn /\ m.salt = x.s.sessionSalt
      BY <2>1 DEF Finish
    <2> QED BY Zenon, <2>1, <2>2 DEF Finishing
  <1>4. Nobody \in Names /\ NoSalt \in Nat
    BY DEF Names, NoSalt
  <1>5. /\ y \in ServerSides /\ y.out = x.out /\ y.users = x.users
        /\ y.s.tasks = x.s.tasks /\ y.s.loggingIn = Nobody /\ y.s.loggedIn = x.s.loggedIn
    BY Zenon, <1>4 DEF ServerSides, ServerEnds
  <1>6. y.s.open = x.s.open /\ y.s.binary = x.s.binary
    BY Zenon DEF ServerSides, ServerEnds
  <1>7. z = IF m.login \notin x.users THEN SendResult(x, "AuthenticationFailed", m.ref)
            ELSE IF m.login # x.s.loggingIn \/ m.salt # x.s.sessionSalt
            THEN SendResult(x, "LoginMismatch", m.ref)
            ELSE IF ~ m.right THEN SendResult(y, "AuthenticationFailed", m.ref)
            ELSE SendResultMessage(w, "NoError", m.ref, m.login)
    BY Zenon DEF FinishLogin
  <1> HIDE DEF y
  <1>8. w = [y EXCEPT !.s = [y.s EXCEPT !.loggedIn = m.login]]
    BY Zenon DEF SetLoggedIn
  <1>9. /\ w \in ServerSides /\ w.out = x.out /\ w.users = x.users
        /\ w.s.tasks = x.s.tasks /\ w.s.loggingIn = Nobody /\ w.s.loggedIn = m.login
        /\ w.s.open = x.s.open /\ w.s.binary = x.s.binary
    <2> DEFINE t == [y.s EXCEPT !.loggedIn = m.login]
    <2>0. y.s \in ServerEnds
      BY Zenon, <1>5 DEF ServerSides
    <2>1. /\ t \in ServerEnds /\ t.tasks = y.s.tasks /\ t.loggingIn = y.s.loggingIn
          /\ t.loggedIn = m.login
      BY Zenon, <1>1, <2>0 DEF ServerEnds
    <2> HIDE DEF t
    <2>2. w \in ServerSides
      BY Zenon, <1>5, <1>8, <2>1 DEF ServerSides, t
    <2>3. w.s = t /\ w.out = y.out /\ w.users = y.users
      BY Zenon, <1>5, <1>8, <2>1 DEF ServerSides, t
    <2>4. t.open = y.s.open /\ t.binary = y.s.binary
      BY Zenon, <2>0 DEF ServerEnds, t
    <2> QED BY Zenon, <1>5, <1>6, <2>1, <2>2, <2>3, <2>4
  <1>10. w.s.open = x.s.open /\ w.s.binary = x.s.binary
    BY Zenon, <1>9
  <1> HIDE DEF w
  <1>11. ASSUME NEW code \in Codes, code # "NoError",
                NEW v \in {x, y}, z = SendResult(v, code, m.ref),
                v = x => m.login \notin x.users \/ m.login # x.s.loggingIn
                         \/ m.salt # x.s.sessionSalt
         PROVE  z \in ServerSides /\ Consistent(c, z.s, z.users, Tail(us), z.out)
    <2> DEFINE n == [type |-> "Result", code |-> code, ref |-> m.ref, user |-> Nobody]
    <2>1. n \in DownMessage
      BY <1>1 DEF DownMessage, Names
    <2>2. n.type = "Result" /\ n.code # "NoError" /\ n.ref = Head(us).ref
      BY <1>11
    <2>3. z = SendBinaryMessage(v, n)
      BY Zenon, <1>11 DEF SendResult, SendResultMessage
    <2>4. /\ v \in ServerSides /\ v.s.tasks = x.s.tasks /\ v.users = x.users
          /\ v.out = x.out /\ v.s.loggedIn = x.s.loggedIn
      BY Zenon, <1>5
    <2>5. v.s.open = x.s.open /\ v.s.binary = x.s.binary
      BY Zenon, <1>6
    <2>6. v.s.loggedIn # Nobody => v.s.loggingIn = Nobody
      BY Zenon, <1>2, <1>5 DEF LoggedInOK
    <2>7. ~ c.overtaken => v.s.loggingIn = Nobody /\ v.s.loggedIn = Nobody
      BY Zenon, <1>3, <1>5, <1>11
    <2> HIDE DEF n
    <2> QED BY Zenon, <2>1, <2>2, <2>3, <2>4, <2>5, <2>6, <2>7, LoginAnswered
  <1>12. ASSUME z = SendResultMessage(w, "NoError", m.ref, m.login),
                m.login = x.s.loggingIn
         PROVE  z \in ServerSides /\ Consistent(c, z.s, z.users, Tail(us), z.out)
    <2> DEFINE n == [type |-> "Result", code |-> "NoError", ref |-> m.ref, user |-> m.login]
    <2>1. n \in DownMessage
      BY <1>1 DEF DownMessage, Codes
    <2>2. /\ n.type = "Result" /\ n.code = "NoError" /\ n.ref = Head(us).ref
          /\ n.user = m.login
      OBVIOUS
    <2>3. z = SendBinaryMessage(w, n)
      BY Zenon, <1>12 DEF SendResultMessage
    <2>4. x.s.loggedIn = Nobody
      BY Zenon, <1>1, <1>2, <1>12 DEF LoggedInOK
    <2> HIDE DEF n
    <2> QED BY Zenon, <1>1, <1>9, <1>10, <2>1, <2>2, <2>3, <2>4, LoginAnswered
  <1>13. "LoginMismatch" \in Codes /\ "AuthenticationFailed" \in Codes
         /\ "LoginMismatch" # "NoError" /\ "AuthenticationFailed" # "NoError"
    BY DEF Codes
  <1>14. CASE m.login \notin x.users
    BY Zenon, <1>7, <1>11, <1>13, <1>14
  <1>15. CASE m.login \in x.users /\ (m.login # x.s.loggingIn \/ m.salt # x.s.sessionSalt)
    BY Zenon, <1>7, <1>11, <1>13, <1>15
  <1>16. CASE m.login \in x.users /\ m.login = x.s.loggingIn /\ m.salt = x.s.sessionSalt
              /\ ~ m.right
    <2>1. y # x
      BY Zenon, <1>1, <1>5, <1>16
    <2>2. z = SendResult(y, "AuthenticationFailed", m.ref)
      BY Zenon, <1>7, <1>16
    <2> QED BY Zenon, <1>11, <1>13, <2>1, <2>2
  <1>17. CASE m.login \in x.users /\ m.login = x.s.loggingIn /\ m.salt = x.s.sessionSalt
              /\ m.right
    BY Zenon, <1>7, <1>12, <1>17
  <1> QED BY Zenon, <1>14, <1>15, <1>16, <1>17

-----------------------------------------------------------------------------
(* The beginning and the end of a connection at the server.                *)

LEMMA ServerSwitches ==
    ASSUME NEW c \in ClientEnds, NEW x \in ServerSides, NEW us, x.s.open,
           Consistent(c, x.s, x.users, us, x.out),
           NEW z, z = HandleBinaryModeSwitchRequest(x)
    PROVE  z \in ServerSides /\ Consistent(c, z.s, z.users, us, z.out)
  <1>1. CASE x.s.binary
    BY Zenon, <1>1 DEF HandleBinaryModeSwitchRequest
  <1>2. CASE ~ x.s.binary
    <2> DEFINE ns == << [type |-> "TextBinary"], [type |-> "Header"] >>
               S == {[type |-> "TextBinary"], [type |-> "Header"]}
               out == x.out \o ns
    <2>1. x.out \in Seq(DownMessage) /\ ns \in Seq(DownMessage) /\ out \in Seq(DownMessage)
      BY DEF ServerSides, DownMessage
    <2>2. \A i \in 1..Len(ns) : ns[i] \in S
      OBVIOUS
    <2>3. \A m \in S : ~ OfLogin(m, c.loginRef) /\ m.type # "Result"
      BY DEF OfLogin
    <2> HIDE DEF ns, S
    <2>4. Grown(x.out, out, S)
      BY Zenon, <2>1, <2>2, GrownConcat
    <2>5. z = [x EXCEPT !.s.binary = TRUE, !.out = out]
      BY Zenon, <1>2 DEF HandleBinaryModeSwitchRequest, ns
    <2> HIDE DEF out
    <2>6. z \in ServerSides
      <3> DEFINE t == [x.s EXCEPT !.binary = TRUE]
      <3>1. t \in ServerEnds
        BY Zenon DEF ServerSides, ServerEnds
      <3>2. z = [x EXCEPT !.s = t, !.out = out]
        BY Zenon, <2>5 DEF ServerSides, ServerEnds
      <3> HIDE DEF t
      <3> QED BY Zenon, <2>1, <3>1, <3>2 DEF ServerSides
    <2>7. /\ z.out = out /\ z.users = x.users /\ z.s.tasks = x.s.tasks
          /\ z.s.loggingIn = x.s.loggingIn /\ z.s.sessionSalt = x.s.sessionSalt
          /\ z.s.loggedIn = x.s.loggedIn
      BY Zenon, <2>1, <2>5 DEF ServerSides, ServerEnds
    <2>8. z.s.open = x.s.open /\ z.s.binary
      BY Zenon, <2>1, <2>5 DEF ServerSides, ServerEnds
    <2>9. NoLogin(x.out, c.loginRef) => NoLogin(out, c.loginRef)
      BY Zenon, <2>1, <2>3, <2>4, NoLoginGrown
    <2>10. \A m : OneLogin(x.out, c.loginRef, m) => OneLogin(out, c.loginRef, m)
      BY Zenon, <2>1, <2>3, <2>4, OneLoginGrown
    <2>11. ReferencesOK(c, z.s, us) /\ LoggedInOK(c, z.s)
      BY Zenon, <2>7, <2>8 DEF Consistent, ReferencesOK, TasksOK, LoggedInOK
    <2>12. ResultsOK(c, z.s, z.out)
      <3>1. ASSUME NEW i \in 1..Len(out)
            PROVE  ResultOK(out[i], c, z.s)
        <4>1. CASE i \in 1..Len(x.out)
          <5>1. out[i] = x.out[i]
            BY Zenon, <2>4, <4>1 DEF Grown
          <5>2. ResultOK(x.out[i], c, x.s)
            BY Zenon, <4>1 DEF Consistent, ResultsOK
          <5> QED BY Zenon, <2>7, <5>1, <5>2 DEF ResultOK
        <4>2. CASE i \in Len(x.out)+1..Len(out)
          BY Zenon, <2>3, <2>4, <4>2 DEF Grown, ResultOK
        <4> QED BY <2>1, <4>1, <4>2
      <3> QED BY Zenon, <2>7, <3>1 DEF ResultsOK
    <2>13. BinaryOK(c, z.s, z.out) /\ BeforeTheConnection(c, z.s, us, z.out)
      BY Zenon, <2>8 DEF Consistent, BinaryOK, BeforeTheConnection
    <2>14. LoginPhases(c, z.s, z.users, us, z.out)
      BY Zenon, <2>7, <2>8, <2>9, <2>10
         DEF Consistent, LoginPhases, Phases, NoneUnderWay, Initiated, Salted, Finishing,
             Answered, Answers
    <2> QED BY Zenon, <2>6, <2>11, <2>12, <2>13, <2>14 DEF Consistent
  <1> QED BY Zenon, <1>1, <1>2

LEMMA NewServerEndTyped ==
    NewServerEnd \in ServerEnds
  BY DEF NewServerEnd, ServerEnds, Names, NoSalt

LEMMA ServerTerminates ==
    ASSUME NEW c \in ClientEnds, NEW x \in ServerSides, NEW us,
           Consistent(c, x.s, x.users, us, x.out), NEW z, z = TerminateConnection(x)
    PROVE  z \in ServerSides /\ Consistent(c, z.s, z.users, us, z.out)
  <1>1. z \in ServerSides
    BY Zenon, NewServerEndTyped DEF ServerSides, TerminateConnection
  <1>2. z.s = NewServerEnd /\ z.users = x.users /\ z.out = x.out
    BY Zenon DEF ServerSides, TerminateConnection
  <1>3. /\ ~ z.s.open /\ z.s.tasks = {} /\ z.s.loggedIn = Nobody
    BY <1>2 DEF NewServerEnd
  <1>4. ReferencesOK(c, z.s, us)
    BY Zenon, <1>3 DEF Consistent, ReferencesOK, TasksOK
  <1>5. ResultsOK(c, z.s, z.out)
    BY Zenon, <1>2, <1>3 DEF Consistent, ResultsOK, ResultOK
  <1>6. LoggedInOK(c, z.s) /\ BinaryOK(c, z.s, z.out)
    BY Zenon, <1>3 DEF LoggedInOK, BinaryOK
  <1>7. BeforeTheConnection(c, z.s, us, z.out)
    BY Zenon, <1>2, <1>3 DEF Consistent, BeforeTheConnection
  <1>8. LoginPhases(c, z.s, z.users, us, z.out)
    BY Zenon, <1>3 DEF LoginPhases
  <1> QED BY Zenon, <1>1, <1>4, <1>5, <1>6, <1>7, <1>8 DEF Consistent

LEMMA ServerAccepts ==
    ASSUME NEW c \in ClientEnds, c.state = "Connecting", NEW x \in ServerSides, NEW us,
           Consistent(c, x.s, x.users, us, x.out), NEW z, z = NewConnection(x),
           NEW d, d = [c EXCEPT !.state = "Handshake"]
    PROVE  d \in ClientEnds /\ z \in ServerSides /\ Consistent(d, z.s, z.users, us, z.out)
  <1>1. d \in ClientEnds
    BY Zenon DEF ClientEnds
  <1>2. /\ d.state = "Handshake" /\ d.nextRef = c.nextRef /\ d.loginRef = c.loginRef
        /\ d.loggingIn = c.loggingIn /\ d.loggedIn = c.loggedIn
        /\ d.accountRef = c.accountRef /\ d.registering = c.registering
    BY Zenon DEF ClientEnds
  <1> DEFINE t == [NewServerEnd EXCEPT !.open = TRUE]
             greeting == [type |-> "Greeting"]
             out == Append(x.out, greeting)
  <1>3. /\ t.open /\ t.tasks = {} /\ t.loggedIn = Nobody /\ t.loggingIn = Nobody
    BY Zenon DEF NewServerEnd
  <1>4. t \in ServerEnds
    BY Zenon, NewServerEndTyped DEF ServerEnds
  <1>5. greeting \in DownMessage /\ greeting.type = "Greeting"
    BY DEF DownMessage
  <1>6. x.out \in Seq(DownMessage) /\ out \in Seq(DownMessage)
    BY <1>5 DEF ServerSides
  <1>7. z = [x EXCEPT !.s = t, !.out = out]
    BY Zenon DEF NewConnection
  <1> HIDE DEF greeting
  <1>8. /\ ~ x.s.open /\ c.loggedIn = Nobody /\ c.loggingIn = Nobody
        /\ NoLogin(us, c.loginRef) /\ NoLogin(x.out, c.loginRef) /\ NoHeader(x.out)
    BY Zenon DEF Consistent, BeforeTheConnection
  <1>9. NoLogin(out, c.loginRef)
    <2>1. ~ OfLogin(greeting, c.loginRef)
      BY <1>5 DEF OfLogin
    <2> QED BY <1>5, <1>6, <1>8, <2>1 DEF NoLogin
  <1>10. NoHeader(out)
    <2>1. greeting.type # "Header"
      BY <1>5
    <2> QED BY Zenon, <1>5, <1>6, <1>8, <2>1, NoHeaderAppended
  <1> HIDE DEF t
  <1>11. ResultsOK(d, t, out)
    <2>1. ASSUME NEW i \in 1..Len(x.out)
          PROVE  ResultOK(x.out[i], d, t)
      <3>1. ~ OfLogin(x.out[i], c.loginRef) /\ ResultOK(x.out[i], c, x.s)
        BY Zenon, <1>8 DEF NoLogin, Consistent, ResultsOK
      <3> QED BY Zenon, <1>2, <3>1 DEF OfLogin, ResultOK, UsedRefs
    <2>2. ResultOK(greeting, d, t)
      BY <1>5 DEF ResultOK
    <2> QED BY Zenon, <1>5, <1>6, <2>1, <2>2, ResultsAppended DEF ResultsOK
  <1> HIDE DEF out
  <1>12. z \in ServerSides
    BY Zenon, <1>4, <1>6, <1>7 DEF ServerSides
  <1>13. z.s = t /\ z.users = x.users /\ z.out = out
    BY Zenon, <1>4, <1>6, <1>7 DEF ServerSides
  <1>14. ReferencesOK(d, z.s, us)
    BY Zenon, <1>2, <1>3, <1>13
       DEF Consistent, ReferencesOK, RefsOK, TasksOK, UpOK, UsedRefs, OtherRefs
  <1>15. LoggedInOK(d, z.s) /\ BinaryOK(d, z.s, z.out)
    <2>1. d.state # "BinaryMode"
      BY <1>2
    <2> QED BY Zenon, <1>2, <1>3, <1>8, <1>10, <1>13, <2>1 DEF LoggedInOK, BinaryOK
  <1>16. BeforeTheConnection(d, z.s, us, z.out)
    BY Zenon, <1>2 DEF BeforeTheConnection
  <1>17. LoginPhases(d, z.s, z.users, us, z.out)
    BY Zenon, <1>2, <1>3, <1>8, <1>9, <1>13 DEF LoginPhases, Phases, NoneUnderWay
  <1> QED BY Zenon, <1>1, <1>11, <1>12, <1>13, <1>14, <1>15, <1>16, <1>17 DEF Consistent

(* The server reads a message.                                             *)
LEMMA ServesMessage ==
    ASSUME NEW x \in ServerSides, NEW m \in UpMessage, NEW concern,
           m.type \notin {"TextBinary", "Shutdown", "InitiateLogin", "FinishLogin"},
           m.type \in {"Request", "InitiateAccount", "FinishAccount"} =>
              m.ref \in concern.requests,
           m.type = "Ask" => m.kind \in concern.questions
    PROVE  Serves(x, DataArrived(x, m), concern)
  <1>1. m.type \in {"Header", "KeepAlive", "Extensions", "Action", "Ask", "Command",
                    "ScrobblingInfo", "Request", "InitiateAccount", "FinishAccount"}
    BY DEF UpMessage
  <1>2. CASE m.type = "Request"
    <2>1. DataArrived(x, m) = HandleRequest(x, m)
      BY Zenon, <1>2 DEF DataArrived, HandleStandardBinaryMessage
    <2>2. m.kind \in Kinds /\ m.ref \in Nat /\ m.ref \in concern.requests
      BY Zenon, <1>2, UpFields
    <2> QED BY Zenon, <2>1, <2>2, ServesRequest
  <1>3. CASE m.type = "InitiateAccount"
    <2>1. DataArrived(x, m) = InitiateNewUserAccount(x, m)
      BY Zenon, <1>3 DEF DataArrived, HandleStandardBinaryMessage
    <2>2. m.login \in Users /\ m.ref \in Nat /\ m.ref \in concern.requests
      BY Zenon, <1>3, UpFields
    <2> QED BY Zenon, <2>1, <2>2, ServesNewAccount
  <1>4. CASE m.type = "FinishAccount"
    <2>1. DataArrived(x, m) = FinishNewUserAccount(x, m)
      BY Zenon, <1>4 DEF DataArrived, HandleStandardBinaryMessage
    <2>2. m.login \in Users /\ m.ref \in Nat /\ m.ref \in concern.requests
      BY Zenon, <1>4, UpFields
    <2> QED BY Zenon, <2>1, <2>2, ServesAccount
  <1>5. CASE m.type = "Header"
    BY Zenon, <1>5, ServesFlag DEF DataArrived
  <1>6. CASE m.type = "KeepAlive"
    BY Zenon, <1>6, ServesQuestion DEF DataArrived, HandleStandardBinaryMessage
  <1>7. CASE m.type = "Extensions"
    BY Zenon, <1>7, ServesFlag DEF DataArrived, HandleStandardBinaryMessage
  <1>8. CASE m.type = "Action"
    BY Zenon, <1>8, ServesAction DEF DataArrived, HandleStandardBinaryMessage
  <1>9. CASE m.type = "Ask"
    BY Zenon, <1>9, UpFields, ServesQuestion DEF DataArrived, HandleStandardBinaryMessage
  <1>10. CASE m.type = "Command"
    BY Zenon, <1>10, UpFields, ServesCommand DEF DataArrived, HandleStandardBinaryMessage
  <1>11. CASE m.type = "ScrobblingInfo"
    BY Zenon, <1>11, ServesQuestion DEF DataArrived, HandleStandardBinaryMessage
  <1> QED BY Zenon, <1>1, <1>2, <1>3, <1>4, <1>5, <1>6, <1>7, <1>8, <1>9, <1>10, <1>11

(* What a message is about.                                                *)
Concern(m) ==
    [requests |-> IF m.type \in {"Request", "InitiateLogin", "FinishLogin",
                                 "InitiateAccount", "FinishAccount"}
                  THEN {m.ref} ELSE {},
     questions |-> IF m.type = "Ask" THEN {m.kind} ELSE {},
     accounts |-> {}]

LEMMA ServerReadsOK ==
    ASSUME NEW c \in ClientEnds, NEW x \in ServerSides, NEW us \in Seq(UpMessage),
           us # << >>, x.s.open, Consistent(c, x.s, x.users, us, x.out),
           NEW z, z = DataArrived(x, Head(us))
    PROVE  z \in ServerSides /\ Consistent(c, z.s, z.users, Tail(us), z.out)
  <1> DEFINE m == Head(us)
             concern == Concern(m)
  <1>1. m \in UpMessage
    BY TailOfList
  <1>2. CASE m.type = "InitiateLogin"
    <2>1. z = InitiateLogin(x, m)
      BY Zenon, <1>2 DEF DataArrived, HandleStandardBinaryMessage
    <2> QED BY Zenon, <1>2, <2>1, ServerInitiates
  <1>3. CASE m.type = "FinishLogin"
    <2>1. z = FinishLogin(x, m)
      BY Zenon, <1>3 DEF DataArrived, HandleStandardBinaryMessage
    <2> QED BY Zenon, <1>3, <2>1, ServerFinishes
  <1>4. ASSUME m.type \notin {"InitiateLogin", "FinishLogin"}
        PROVE  Consistent(c, x.s, x.users, Tail(us), x.out)
    <2>1. ~ OfLogin(m, c.loginRef)
      BY <1>1, <1>4 DEF OfLogin, UpMessage
    <2> QED BY Zenon, <2>1, UpRead
  <1>5. CASE m.type = "TextBinary"
    <2>1. z = HandleBinaryModeSwitchRequest(x)
      BY Zenon, <1>5 DEF DataArrived
    <2> QED BY Zenon, <1>4, <1>5, <2>1, ServerSwitches
  <1>6. CASE m.type = "Shutdown"
    <2>1. z = IF IsLoggedIn(x) THEN TerminateConnection(x) ELSE x
      BY Zenon, <1>6 DEF DataArrived, HandleStandardBinaryMessage
    <2> QED BY Zenon, <1>4, <1>6, <2>1, ServerTerminates
  <1>7. CASE m.type \notin {"TextBinary", "Shutdown", "InitiateLogin", "FinishLogin"}
    <2>1. UpOK(m, c)
      <3>1. 1 \in 1..Len(us) /\ m = us[1]
        BY TailOfList
      <3> QED BY Zenon, <3>1 DEF Consistent, ReferencesOK
    <2>2. concern.requests \subseteq OtherRefs(c)
      BY <1>7, <2>1 DEF UpOK, Concern
    <2>3. /\ m.type \in {"Request", "InitiateAccount", "FinishAccount"} =>
                m.ref \in concern.requests
          /\ m.type = "Ask" => m.kind \in concern.questions
      BY DEF Concern
    <2>4. Consistent(c, x.s, x.users, Tail(us), x.out)
      BY <1>4, <1>7
    <2> HIDE DEF concern
    <2>5. Serves(x, z, concern)
      BY Zenon, <1>1, <1>7, <2>3, ServesMessage
    <2> QED BY Zenon, <2>2, <2>4, <2>5, ServerServes, ServesTyped
  <1> QED BY Zenon, <1>2, <1>3, <1>5, <1>6, <1>7

-----------------------------------------------------------------------------
(* The client.  Most of what it does leaves its login alone; requests and  *)
(* new accounts get references that no login has.                          *)

KeepsLogin(c, d) ==
    /\ d.loginRef = c.loginRef /\ d.loggingIn = c.loggingIn /\ d.right = c.right
    /\ d.loggedIn = c.loggedIn /\ d.overtaken = c.overtaken

StaysOut(c, d) ==
    /\ d.state \in {"NotConnected", "Connecting"} => c.state \in {"NotConnected", "Connecting"}
    /\ c.state = "Closed" => d.state = "Closed"

(* The requests, questions and accounts that are not concerned.            *)
KeepsOthers(c, d, concern) ==
    /\ OthersStay(c.handlers, d.handlers, concern.requests)
    /\ \A kind \in d.promises : kind \in c.promises \/ kind \in concern.questions
    /\ \A kind \in c.promises : \/ kind \in d.promises \/ kind \in concern.questions
                                \/ d.state = "Closed"
    /\ d.accountRef = c.accountRef \/ d.accountRef \in concern.accounts

SparingUp(concern) ==
    {m \in UpMessage :
        /\ m.type = "Request" => m.ref \in concern.requests
        /\ m.type \in {"InitiateLogin", "FinishLogin", "InitiateAccount", "FinishAccount"} =>
              m.ref \in concern.accounts
        /\ m.type = "Ask" => m.kind \in concern.questions}

PlainUp(c, concern) ==
    {m \in SparingUp(concern) :
        /\ m.type \notin {"InitiateLogin", "FinishLogin"}
        /\ m.type \in {"Request", "InitiateAccount", "FinishAccount"} => m.ref \in OtherRefs(c)}

Talks(y, z, concern) ==
    /\ z \in ClientSides
    /\ KeepsLogin(y.c, z.c) /\ StaysOut(y.c, z.c) /\ KeepsOthers(y.c, z.c, concern)
    /\ z.c.state = "BinaryMode" => y.c.state = "BinaryMode"
    /\ y.c.nextRef <= z.c.nextRef /\ RefsOK(z.c)
    /\ Grown(y.out, z.out, PlainUp(z.c, concern))

LEMMA TalksTyped ==
    ASSUME NEW y, NEW z, NEW concern, Talks(y, z, concern)
    PROVE  z \in ClientSides /\ RefsOK(z.c)
  BY DEF Talks

LEMMA ClientTypes ==
    ASSUME NEW y \in ClientSides
    PROVE  /\ y.c \in ClientEnds /\ y.out \in Seq(UpMessage)
           /\ y.c.nextRef \in Nat /\ y.c.loginRef \in Nat /\ y.c.accountRef \in Nat
           /\ y.c.loggingIn \in Names /\ y.c.loggedIn \in Names /\ y.c.registering \in Names
  BY Zenon DEF ClientSides, ClientEnds

LEMMA OtherRefsGrow ==
    ASSUME NEW c \in ClientEnds, NEW d \in ClientEnds, c.nextRef <= d.nextRef,
           d.loginRef = c.loginRef
    PROVE  OtherRefs(c) \subseteq OtherRefs(d) /\ UsedRefs(c) \subseteq UsedRefs(d)
  <1>1. c.nextRef \in Nat /\ d.nextRef \in Nat
    BY Zenon DEF ClientEnds
  <1> QED BY <1>1 DEF OtherRefs, UsedRefs

LEMMA TalksTwice ==
    ASSUME NEW x \in ClientSides, NEW y, NEW z, NEW concern, Talks(x, y, concern), Talks(y, z, concern)
    PROVE  Talks(x, z, concern)
  <1>1. y \in ClientSides /\ z \in ClientSides
    BY Zenon, TalksTyped
  <1>2. x.c.nextRef \in Nat /\ y.c.nextRef \in Nat /\ z.c.nextRef \in Nat
        /\ y.c \in ClientEnds /\ z.c \in ClientEnds
        /\ x.out \in Seq(UpMessage) /\ y.out \in Seq(UpMessage) /\ z.out \in Seq(UpMessage)
    BY Zenon, <1>1, ClientTypes
  <1>3. /\ KeepsLogin(x.c, z.c) /\ StaysOut(x.c, z.c)
        /\ z.c.state = "BinaryMode" => x.c.state = "BinaryMode"
    BY Zenon DEF Talks, KeepsLogin, StaysOut
  <1>8. KeepsOthers(x.c, z.c, concern)
    <2> DEFINE b == x.c
               c == y.c
               d == z.c
    <2>1. KeepsOthers(b, c, concern) /\ KeepsOthers(c, d, concern) /\ StaysOut(c, d)
      BY Zenon DEF Talks
    <2> HIDE DEF b, c, d
    <2>2. OthersStay(b.handlers, d.handlers, concern.requests)
      BY Zenon, <2>1 DEF KeepsOthers, OthersStay
    <2>3. \A kind \in d.promises : kind \in b.promises \/ kind \in concern.questions
      BY Zenon, <2>1 DEF KeepsOthers
    <2>4. \A kind \in b.promises : \/ kind \in d.promises \/ kind \in concern.questions
                                 \/ d.state = "Closed"
      BY Zenon, <2>1 DEF KeepsOthers, StaysOut
    <2>5. d.accountRef = b.accountRef \/ d.accountRef \in concern.accounts
      BY Zenon, <2>1 DEF KeepsOthers
    <2>6. KeepsOthers(b, d, concern)
      BY Zenon, <2>2, <2>3, <2>4, <2>5 DEF KeepsOthers
    <2> QED BY Zenon, <2>6 DEF b, d
  <1>4. x.c.nextRef <= z.c.nextRef
    <2>1. x.c.nextRef <= y.c.nextRef /\ y.c.nextRef <= z.c.nextRef
      BY Zenon DEF Talks
    <2> QED BY <1>2, <2>1
  <1>5. PlainUp(y.c, concern) \subseteq PlainUp(z.c, concern)
    <2>1. y.c.nextRef <= z.c.nextRef /\ z.c.loginRef = y.c.loginRef
      BY Zenon DEF Talks, KeepsLogin
    <2>2. OtherRefs(y.c) \subseteq OtherRefs(z.c)
      BY Zenon, <1>2, <2>1, OtherRefsGrow
    <2> QED BY Zenon, <2>2 DEF PlainUp
  <1>6. Grown(x.out, y.out, PlainUp(z.c, concern))
    <2>1. Grown(x.out, y.out, PlainUp(y.c, concern))
      BY Zenon DEF Talks
    <2> QED BY Zenon, <1>2, <1>5, <2>1, GrownByMore
  <1>7. Grown(x.out, z.out, PlainUp(z.c, concern))
    <2>1. Grown(y.out, z.out, PlainUp(z.c, concern))
      BY Zenon DEF Talks
    <2> QED BY Zenon, <1>2, <1>6, <2>1, GrownTwice
  <1> QED BY Zenon, <1>1, <1>3, <1>4, <1>7, <1>8 DEF Talks

(* Nothing is written and no reference is used; the registration of an     *)
(* account or the connection may end.                                      *)
LEMMA TalksSilently ==
    ASSUME NEW y \in ClientSides, RefsOK(y.c), NEW concern, NEW z \in ClientSides,
           KeepsLogin(y.c, z.c), KeepsOthers(y.c, z.c, concern), z.c.nextRef = y.c.nextRef,
           z.c.accountRef = y.c.accountRef, z.c.registering \in {y.c.registering, Nobody},
           z.c.state \in {y.c.state, "TextMode", "BinaryHandshake", "Closed"},
           y.c.state = "Closed" => z.c.state = "Closed", z.out = y.out
    PROVE  Talks(y, z, concern)
  <1>1. Grown(y.out, z.out, PlainUp(z.c, concern))
    BY Zenon, ClientTypes, GrownSame
  <1>2. StaysOut(y.c, z.c) /\ (z.c.state = "BinaryMode" => y.c.state = "BinaryMode")
    BY DEF StaysOut
  <1>3. RefsOK(z.c)
    BY Zenon DEF RefsOK, KeepsLogin, OtherRefs, UsedRefs
  <1>4. y.c.nextRef <= z.c.nextRef
    BY ClientTypes
  <1> QED BY Zenon, <1>1, <1>2, <1>3, <1>4 DEF Talks

LEMMA TalksSend ==
    ASSUME NEW y \in ClientSides, RefsOK(y.c), NEW concern, NEW m \in PlainUp(y.c, concern)
    PROVE  Talks(y, SendBinary(y, m), concern)
  <1> DEFINE z == SendBinary(y, m)
             out == Append(y.out, m)
  <1>1. m \in UpMessage /\ y.out \in Seq(UpMessage)
    BY Zenon, ClientTypes DEF PlainUp, SparingUp
  <1>2. out \in Seq(UpMessage)
    BY <1>1
  <1>3. z = [y EXCEPT !.out = out]
    BY Zenon DEF SendBinary
  <1>4. Grown(y.out, out, PlainUp(y.c, concern))
    BY Zenon, <1>1, GrownAppend
  <1> HIDE DEF out, z
  <1>5. z \in ClientSides
    BY Zenon, <1>2, <1>3 DEF ClientSides
  <1>6. z.c = y.c /\ z.out = out
    BY Zenon, <1>2, <1>3 DEF ClientSides
  <1>7. y.c.nextRef <= y.c.nextRef
    BY ClientTypes
  <1>8. KeepsOthers(y.c, y.c, concern)
    BY Zenon DEF KeepsOthers, OthersStay
  <1> QED BY Zenon, <1>4, <1>5, <1>6, <1>7, <1>8 DEF Talks, KeepsLogin, StaysOut, z

LEMMA TalksSame ==
    ASSUME NEW y \in ClientSides, RefsOK(y.c), NEW concern
    PROVE  Talks(y, y, concern)
  <1>1. KeepsLogin(y.c, y.c) /\ KeepsOthers(y.c, y.c, concern)
    BY Zenon DEF KeepsLogin, KeepsOthers, OthersStay
  <1> QED BY Zenon, <1>1, TalksSilently

LEMMA PlainMessages ==
    ASSUME NEW c, NEW concern
    PROVE  /\ \A type \in {"TextBinary", "Header", "KeepAlive", "Extensions", "Shutdown",
                           "ScrobblingInfo"} : [type |-> type] \in PlainUp(c, concern)
           /\ \A action \in Actions : Action(action) \in PlainUp(c, concern)
           /\ \A kind \in Questions : kind \in concern.questions =>
                                        Ask(kind) \in PlainUp(c, concern)
           /\ \A t \in Topics : CommandFor(t) \in PlainUp(c, concern)
  BY DEF PlainUp, SparingUp, UpMessage, Action, Ask, CommandFor

LEMMA TalksPlainly ==
    ASSUME NEW y \in ClientSides, RefsOK(y.c), NEW concern
    PROVE  /\ Talks(y, SendBinary(y, [type |-> "Shutdown"]), concern)
           /\ \A action \in Actions : Talks(y, SendSingleByteAction(y, action), concern)
           /\ Talks(y, SendKeepAlive(y), concern)
           /\ Talks(y, RequestScrobblingProviderInfo(y), concern)
           /\ Talks(y, SetScrobblingEnabled(y), concern)
           /\ \A t \in Topics : Talks(y, SendBinary(y, CommandFor(t)), concern)
  <1>0. "scrobbling" \in Topics
    BY DEF Topics
  <1>1. Talks(y, SendBinary(y, [type |-> "Shutdown"]), concern)
    BY Zenon, PlainMessages, TalksSend
  <1>2. \A action \in Actions : Talks(y, SendSingleByteAction(y, action), concern)
    BY Zenon, PlainMessages, TalksSend DEF SendSingleByteAction
  <1>3. Talks(y, SendKeepAlive(y), concern)
    BY Zenon, PlainMessages, TalksSend DEF SendKeepAlive
  <1>4. Talks(y, RequestScrobblingProviderInfo(y), concern)
    BY Zenon, PlainMessages, TalksSend, TalksSame DEF RequestScrobblingProviderInfo
  <1>5. \A t \in Topics : Talks(y, SendBinary(y, CommandFor(t)), concern)
    BY Zenon, PlainMessages, TalksSend
  <1>6. Talks(y, SetScrobblingEnabled(y), concern)
    BY Zenon, <1>0, <1>5, TalksSame DEF SetScrobblingEnabled
  <1> QED BY <1>1, <1>2, <1>3, <1>4, <1>5, <1>6

(* A new reference is taken, for a request or for a new account.           *)
LEMMA TalksReferring ==
    ASSUME NEW y \in ClientSides, RefsOK(y.c), NEW concern, NEW z \in ClientSides,
           KeepsLogin(y.c, z.c), KeepsOthers(y.c, z.c, concern),
           z.c.nextRef = y.c.nextRef + 1,
           \/ z.c.accountRef = y.c.accountRef /\ z.c.registering = y.c.registering
           \/ z.c.accountRef = y.c.nextRef,
           z.c.state = y.c.state, z.out = y.out
    PROVE  Talks(y, z, concern) /\ y.c.nextRef \in OtherRefs(z.c)
  <1>1. Grown(y.out, z.out, PlainUp(z.c, concern))
    BY Zenon, ClientTypes, GrownSame
  <1>2. StaysOut(y.c, z.c) /\ (z.c.state = "BinaryMode" => y.c.state = "BinaryMode")
    BY DEF StaysOut
  <1>3. /\ y.c.nextRef \in Nat /\ y.c.loginRef \in Nat /\ y.c.accountRef \in Nat
        /\ z.c.loginRef = y.c.loginRef /\ z.c.loggingIn = y.c.loggingIn
    BY Zenon, ClientTypes DEF KeepsLogin
  <1>4. RefsOK(z.c) /\ y.c.nextRef \in OtherRefs(z.c)
    BY <1>3 DEF RefsOK, OtherRefs, UsedRefs
  <1>5. y.c.nextRef <= z.c.nextRef
    BY <1>3
  <1> QED BY Zenon, <1>1, <1>2, <1>4, <1>5 DEF Talks

LEMMA TalksRequest ==
    ASSUME NEW y \in ClientSides, RefsOK(y.c), NEW concern, y.c.nextRef \in concern.requests,
           NEW kind \in Kinds, NEW possible \in BOOLEAN
    PROVE  Talks(y, SendRequest(y, kind, possible), concern)
  <1> DEFINE ref == y.c.nextRef
             next == ref + 1
             handlers == y.c.handlers \cup {[ref |-> ref, kind |-> kind]}
             z == [y EXCEPT !.c.nextRef = next, !.c.handlers = handlers]
             m == Request(kind, ref, possible)
  <1>1. ref \in Nat /\ next \in Nat
    BY ClientTypes
  <1>2. handlers \in SUBSET [ref : Nat, kind : Kinds]
    <2>1. y.c.handlers \in SUBSET [ref : Nat, kind : Kinds]
      BY Zenon DEF ClientSides, ClientEnds
    <2> QED BY <1>1, <2>1
  <1>3. SendRequest(y, kind, possible) = SendBinary(z, m)
    BY Zenon DEF SendRequest, WithNewReference, ClientSides, ClientEnds
  <1>4. m \in UpMessage /\ m.type = "Request" /\ m.ref = ref
    BY <1>1 DEF UpMessage, Request
  <1> HIDE DEF handlers, next, m
  <1>5. z \in ClientSides
    BY Zenon, <1>1, <1>2 DEF ClientSides, ClientEnds
  <1>6. z.out = y.out /\ z.c.nextRef = next /\ z.c.accountRef = y.c.accountRef
        /\ z.c.registering = y.c.registering /\ z.c.state = y.c.state
    BY Zenon, <1>1, <1>2 DEF ClientSides, ClientEnds
  <1>7. KeepsLogin(y.c, z.c)
    BY Zenon, <1>1, <1>2 DEF ClientSides, ClientEnds, KeepsLogin
  <1>11. z.c.handlers = handlers /\ z.c.promises = y.c.promises
    BY Zenon, <1>1, <1>2 DEF ClientSides, ClientEnds
  <1> HIDE DEF z
  <1>12. OthersStay(y.c.handlers, handlers, concern.requests)
    BY DEF OthersStay, handlers
  <1>13. KeepsOthers(y.c, z.c, concern)
    BY Zenon, <1>6, <1>11, <1>12 DEF KeepsOthers
  <1>8. Talks(y, z, concern) /\ y.c.nextRef \in OtherRefs(z.c)
    BY Zenon, <1>5, <1>6, <1>7, <1>13, TalksReferring DEF next
  <1>9. m \in PlainUp(z.c, concern)
    BY <1>4, <1>8 DEF PlainUp, SparingUp
  <1>10. Talks(z, SendBinary(z, m), concern)
    BY Zenon, <1>5, <1>8, <1>9, TalksSend, TalksTyped
  <1> QED BY Zenon, <1>3, <1>8, <1>10, TalksTwice

LEMMA TalksAboutAccounts ==
    ASSUME NEW y \in ClientSides, RefsOK(y.c), NEW concern, y.c.nextRef \in concern.accounts,
           NEW user \in Users
    PROVE  Talks(y, CreateNewUserAccount(y, user), concern)
  <1> DEFINE ref == y.c.nextRef
             next == ref + 1
             z == [y EXCEPT !.c.nextRef = next, !.c.accountRef = ref, !.c.registering = user]
             m == Initiate("InitiateAccount", user, ref)
  <1>1. ref \in Nat /\ next \in Nat /\ user \in Names
    BY ClientTypes DEF Names
  <1>2. CreateNewUserAccount(y, user) = SendBinary(z, m)
    BY Zenon DEF CreateNewUserAccount, WithNewReference, ClientSides, ClientEnds
  <1>3. m \in UpMessage /\ m.type = "InitiateAccount" /\ m.ref = ref
    BY <1>1 DEF UpMessage, Initiate
  <1> HIDE DEF next, m
  <1>4. z \in ClientSides
    BY Zenon, <1>1 DEF ClientSides, ClientEnds
  <1>5. z.out = y.out /\ z.c.nextRef = next /\ z.c.accountRef = y.c.nextRef
        /\ z.c.state = y.c.state
    BY Zenon, <1>1 DEF ClientSides, ClientEnds
  <1>6. KeepsLogin(y.c, z.c)
    BY Zenon, <1>1 DEF ClientSides, ClientEnds, KeepsLogin
  <1>10. z.c.handlers = y.c.handlers /\ z.c.promises = y.c.promises
    BY Zenon, <1>1 DEF ClientSides, ClientEnds
  <1> HIDE DEF z
  <1>11. KeepsOthers(y.c, z.c, concern)
    BY Zenon, <1>5, <1>10 DEF KeepsOthers, OthersStay
  <1>7. Talks(y, z, concern) /\ y.c.nextRef \in OtherRefs(z.c)
    BY Zenon, <1>4, <1>5, <1>6, <1>11, TalksReferring DEF next
  <1>8. m \in PlainUp(z.c, concern)
    BY <1>3, <1>7 DEF PlainUp, SparingUp
  <1>9. Talks(z, SendBinary(z, m), concern)
    BY Zenon, <1>4, <1>7, <1>8, TalksSend, TalksTyped
  <1> QED BY Zenon, <1>2, <1>7, <1>9, TalksTwice

LEMMA TalksOnce ==
    ASSUME NEW y \in ClientSides, RefsOK(y.c), NEW concern, NEW kind \in Questions,
           kind \in concern.questions
    PROVE  Talks(y, AskOnce(y, kind), concern)
  <1> DEFINE promises == y.c.promises \cup {kind}
             z == [y EXCEPT !.c.promises = promises]
  <1>1. promises \in SUBSET Questions
    BY Zenon DEF ClientSides, ClientEnds
  <1>2. AskOnce(y, kind) = IF kind \in y.c.promises \cup y.c.cached THEN y
                           ELSE SendBinary(z, Ask(kind))
    BY Zenon DEF AskOnce, ClientSides, ClientEnds
  <1> HIDE DEF promises
  <1>3. z \in ClientSides
    BY Zenon, <1>1 DEF ClientSides, ClientEnds
  <1>4. z.out = y.out /\ z.c.nextRef = y.c.nextRef /\ z.c.accountRef = y.c.accountRef
        /\ z.c.registering = y.c.registering /\ z.c.state = y.c.state
    BY Zenon, <1>1 DEF ClientSides, ClientEnds
  <1>5. KeepsLogin(y.c, z.c)
    BY Zenon, <1>1 DEF ClientSides, ClientEnds, KeepsLogin
  <1>8. z.c.handlers = y.c.handlers /\ z.c.promises = promises
    BY Zenon, <1>1 DEF ClientSides, ClientEnds
  <1> HIDE DEF z
  <1>9. KeepsOthers(y.c, z.c, concern)
    BY Zenon, <1>4, <1>8 DEF KeepsOthers, OthersStay, promises
  <1>6. Talks(y, z, concern)
    BY Zenon, <1>3, <1>4, <1>5, <1>9, TalksSilently
  <1>7. Talks(z, SendBinary(z, Ask(kind)), concern)
    BY Zenon, <1>3, <1>6, PlainMessages, TalksSend, TalksTyped
  <1> QED BY Zenon, <1>2, <1>6, <1>7, TalksTwice, TalksSame

(* What a message changes at the client.                                   *)
LEMMA TalksView ==
    ASSUME NEW y \in ClientSides, RefsOK(y.c), NEW concern, NEW view \in [Topics -> Int]
    PROVE  Talks(y, [y EXCEPT !.c.view = view], concern)
  <1> DEFINE z == [y EXCEPT !.c.view = view]
  <1>1. z \in ClientSides
    BY Zenon DEF ClientSides, ClientEnds
  <1>2. z.out = y.out /\ z.c.nextRef = y.c.nextRef /\ z.c.accountRef = y.c.accountRef
        /\ z.c.registering = y.c.registering /\ z.c.state = y.c.state
    BY Zenon DEF ClientSides, ClientEnds
  <1>3. KeepsLogin(y.c, z.c) /\ KeepsOthers(y.c, z.c, concern)
    BY Zenon DEF ClientSides, ClientEnds, KeepsLogin, KeepsOthers, OthersStay
  <1> HIDE DEF z
  <1>4. Talks(y, z, concern)
    BY Zenon, <1>1, <1>2, <1>3, TalksSilently
  <1> QED BY Zenon, <1>4 DEF z

LEMMA TalksValues ==
    ASSUME NEW y \in ClientSides, RefsOK(y.c), NEW concern, NEW values \in Values
    PROVE  Talks(y, UpdateView(y, values), concern)
  <1> DEFINE view == [t \in Topics |-> IF t \in DOMAIN values \ {"delayed"}
                                       THEN values[t] ELSE y.c.view[t]]
  <1>1. y.c.view \in [Topics -> Int]
    BY Zenon DEF ClientSides, ClientEnds
  <1>2. PICK topics \in SUBSET Topics : values \in [topics -> Nat]
    BY DEF Values
  <1>3. view \in [Topics -> Int]
    BY <1>1, <1>2
  <1>4. UpdateView(y, values) = [y EXCEPT !.c.view = view]
    BY Zenon DEF UpdateView, ClientSides, ClientEnds
  <1> HIDE DEF view
  <1> QED BY Zenon, <1>3, <1>4, TalksView

LEMMA TalksDelayed ==
    ASSUME NEW y \in ClientSides, RefsOK(y.c), NEW concern, NEW start \in Int
    PROVE  Talks(y, [y EXCEPT !.c.view["delayed"] = start], concern)
  <1> DEFINE view == [y.c.view EXCEPT !["delayed"] = start]
  <1>1. y.c.view \in [Topics -> Int]
    BY Zenon DEF ClientSides, ClientEnds
  <1>2. view \in [Topics -> Int]
    BY <1>1
  <1>3. [y EXCEPT !.c.view["delayed"] = start] = [y EXCEPT !.c.view = view]
    BY Zenon DEF ClientSides, ClientEnds
  <1> HIDE DEF view
  <1> QED BY Zenon, <1>2, <1>3, TalksView

LEMMA TalksStatus ==
    ASSUME NEW y \in ClientSides, RefsOK(y.c), NEW concern, NEW values \in Values
    PROVE  Talks(y, ReceivedStatus(y, values), concern)
  <1>1. CASE "delayed" \notin DOMAIN values
    BY Zenon, <1>1, TalksValues DEF ReceivedStatus
  <1>2. CASE "delayed" \in DOMAIN values
    <2> DEFINE z == UpdateView(y, values)
               u == [z EXCEPT !.c.view["delayed"] = values["delayed"]]
               v == [z EXCEPT !.c.view["delayed"] = NoDeadline]
               w == SendSingleByteAction(v, "delayed start info")
    <2>1. ReceivedStatus(y, values) = IF ~ On(values["delayed"]) THEN u
                                      ELSE IF Active(y.c.view["delayed"]) THEN z ELSE w
      BY Zenon, <1>2 DEF ReceivedStatus, ReceivedPlayerState
    <2>2. values["delayed"] \in Int /\ NoDeadline \in Int
      BY <1>2 DEF Values, NoDeadline
    <2>3. Talks(y, z, concern)
      BY Zenon, TalksValues
    <2> HIDE DEF z
    <2>4. z \in ClientSides /\ RefsOK(z.c)
      BY Zenon, <2>3, TalksTyped
    <2>5. Talks(z, u, concern) /\ Talks(z, v, concern)
      BY Zenon, <2>2, <2>4, TalksDelayed
    <2> HIDE DEF u, v
    <2>6. Talks(y, u, concern) /\ Talks(y, v, concern)
      BY Zenon, <2>3, <2>5, TalksTwice
    <2>7. "delayed start info" \in Actions
      BY DEF Actions
    <2>8. Talks(v, w, concern)
      BY Zenon, <2>6, <2>7, TalksPlainly, TalksTyped
    <2> HIDE DEF w
    <2>9. Talks(y, w, concern)
      BY Zenon, <2>6, <2>8, TalksTwice
    <2> QED BY Zenon, <2>1, <2>3, <2>6, <2>9
  <1> QED BY Zenon, <1>1, <1>2

LEMMA TalksInfo ==
    ASSUME NEW y \in ClientSides, RefsOK(y.c), NEW concern, NEW m, m.kind \in Questions,
           m.kind \in concern.questions
    PROVE  Talks(y, ReceivedInfo(y, m), concern)
  <1> DEFINE promises == y.c.promises \ {m.kind}
             cached == y.c.cached \cup ({m.kind} \cap {"version"})
             z == [y EXCEPT !.c.promises = promises, !.c.cached = cached]
  <1>1. y.c.promises \in SUBSET Questions /\ y.c.cached \in SUBSET Questions
    BY Zenon DEF ClientSides, ClientEnds
  <1>2. promises \in SUBSET Questions /\ cached \in SUBSET Questions
    BY <1>1
  <1>3. ReceivedInfo(y, m) = z
    BY Zenon DEF ReceivedInfo, ClientSides, ClientEnds
  <1> HIDE DEF promises, cached
  <1>4. z \in ClientSides
    BY Zenon, <1>2 DEF ClientSides, ClientEnds
  <1>5. z.out = y.out /\ z.c.nextRef = y.c.nextRef /\ z.c.accountRef = y.c.accountRef
        /\ z.c.registering = y.c.registering /\ z.c.state = y.c.state
    BY Zenon, <1>2 DEF ClientSides, ClientEnds
  <1>6. KeepsLogin(y.c, z.c)
    BY Zenon, <1>2 DEF ClientSides, ClientEnds, KeepsLogin
  <1>7. z.c.handlers = y.c.handlers /\ z.c.promises = promises
    BY Zenon, <1>2 DEF ClientSides, ClientEnds
  <1> HIDE DEF z
  <1>8. KeepsOthers(y.c, z.c, concern)
    BY Zenon, <1>5, <1>7 DEF KeepsOthers, OthersStay, promises
  <1> QED BY Zenon, <1>3, <1>4, <1>5, <1>6, <1>8, TalksSilently

LEMMA TalksAnswer ==
    ASSUME NEW y \in ClientSides, RefsOK(y.c), NEW concern, NEW ref \in concern.requests
    PROVE  Talks(y, TakeHandler(y, ref), concern)
  <1> DEFINE handlers == {h \in y.c.handlers : h.ref # ref}
             z == [y EXCEPT !.c.handlers = handlers]
  <1>1. y.c.handlers \in SUBSET [ref : Nat, kind : Kinds]
    BY Zenon DEF ClientSides, ClientEnds
  <1>2. handlers \in SUBSET [ref : Nat, kind : Kinds]
    BY <1>1
  <1>3. TakeHandler(y, ref) = z
    BY Zenon DEF TakeHandler, ClientSides, ClientEnds
  <1> HIDE DEF handlers
  <1>4. z \in ClientSides
    BY Zenon, <1>2 DEF ClientSides, ClientEnds
  <1>5. z.out = y.out /\ z.c.nextRef = y.c.nextRef /\ z.c.accountRef = y.c.accountRef
        /\ z.c.registering = y.c.registering /\ z.c.state = y.c.state
    BY Zenon, <1>2 DEF ClientSides, ClientEnds
  <1>6. KeepsLogin(y.c, z.c)
    BY Zenon, <1>2 DEF ClientSides, ClientEnds, KeepsLogin
  <1>7. z.c.handlers = handlers /\ z.c.promises = y.c.promises
    BY Zenon, <1>2 DEF ClientSides, ClientEnds
  <1> HIDE DEF z
  <1>8. OthersStay(y.c.handlers, handlers, concern.requests)
    BY DEF OthersStay, handlers
  <1>9. KeepsOthers(y.c, z.c, concern)
    BY Zenon, <1>5, <1>7, <1>8 DEF KeepsOthers
  <1> QED BY Zenon, <1>3, <1>4, <1>5, <1>6, <1>9, TalksSilently

LEMMA TalksRegistered ==
    ASSUME NEW y \in ClientSides, RefsOK(y.c), NEW concern, NEW m
    PROVE  Talks(y, HandleUserRegistrationResult(y, m), concern)
  <1> DEFINE z == [y EXCEPT !.c.registering = Nobody]
  <1>0. Nobody \in Names
    BY DEF Names
  <1>1. HandleUserRegistrationResult(y, m) = z
    BY Zenon DEF HandleUserRegistrationResult
  <1>2. z \in ClientSides
    BY Zenon, <1>0 DEF ClientSides, ClientEnds
  <1>3. z.out = y.out /\ z.c.nextRef = y.c.nextRef /\ z.c.accountRef = y.c.accountRef
        /\ z.c.registering = Nobody /\ z.c.state = y.c.state
    BY Zenon DEF ClientSides, ClientEnds
  <1>4. KeepsLogin(y.c, z.c) /\ KeepsOthers(y.c, z.c, concern)
    BY Zenon DEF ClientSides, ClientEnds, KeepsLogin, KeepsOthers, OthersStay
  <1> HIDE DEF z
  <1> QED BY Zenon, <1>1, <1>2, <1>3, <1>4, TalksSilently

LEMMA TalksExtensions ==
    ASSUME NEW y \in ClientSides, RefsOK(y.c), NEW concern
    PROVE  Talks(y, [y EXCEPT !.c.extensions = TRUE], concern)
  <1> DEFINE z == [y EXCEPT !.c.extensions = TRUE]
  <1>1. z \in ClientSides
    BY Zenon DEF ClientSides, ClientEnds
  <1>2. z.out = y.out /\ z.c.nextRef = y.c.nextRef /\ z.c.accountRef = y.c.accountRef
        /\ z.c.registering = y.c.registering /\ z.c.state = y.c.state
    BY Zenon DEF ClientSides, ClientEnds
  <1>3. KeepsLogin(y.c, z.c) /\ KeepsOthers(y.c, z.c, concern)
    BY Zenon DEF ClientSides, ClientEnds, KeepsLogin, KeepsOthers, OthersStay
  <1> HIDE DEF z
  <1>4. Talks(y, z, concern)
    BY Zenon, <1>1, <1>2, <1>3, TalksSilently
  <1> QED BY Zenon, <1>4 DEF z

LEMMA TalksTimers ==
    ASSUME NEW y \in ClientSides, RefsOK(y.c), NEW concern, NEW k \in BOOLEAN, NEW r \in BOOLEAN,
           NEW h \in BOOLEAN
    PROVE  Talks(y, [y EXCEPT !.c.keepAlive = k, !.c.replyCheck = r, !.c.heard = h], concern)
  <1> DEFINE z == [y EXCEPT !.c.keepAlive = k, !.c.replyCheck = r, !.c.heard = h]
  <1>1. z \in ClientSides
    BY Zenon DEF ClientSides, ClientEnds
  <1>2. z.out = y.out /\ z.c.nextRef = y.c.nextRef /\ z.c.accountRef = y.c.accountRef
        /\ z.c.registering = y.c.registering /\ z.c.state = y.c.state
    BY Zenon DEF ClientSides, ClientEnds
  <1>3. KeepsLogin(y.c, z.c) /\ KeepsOthers(y.c, z.c, concern)
    BY Zenon DEF ClientSides, ClientEnds, KeepsLogin, KeepsOthers, OthersStay
  <1> HIDE DEF z
  <1>4. Talks(y, z, concern)
    BY Zenon, <1>1, <1>2, <1>3, TalksSilently
  <1> QED BY Zenon, <1>4 DEF z

LEMMA TalksNewUser ==
    ASSUME NEW y \in ClientSides, RefsOK(y.c), NEW concern, y.c.accountRef \in concern.accounts,
           NEW m, m.login \in Users, m.salt \in Nat
    PROVE  Talks(y, HandleNewUserSalt(y, m), concern)
  <1>1. CASE m.login # y.c.registering
    BY Zenon, <1>1, TalksSame DEF HandleNewUserSalt
  <1>2. CASE m.login = y.c.registering
    <2> DEFINE n == Finish("FinishAccount", m.login, y.c.accountRef, m.salt, TRUE)
    <2>1. y.c.accountRef \in OtherRefs(y.c) /\ y.c.accountRef \in Nat
      BY <1>2, ClientTypes, NobodyIsNoUser DEF RefsOK
    <2>2. n \in PlainUp(y.c, concern)
      BY <2>1 DEF PlainUp, SparingUp, UpMessage, Finish
    <2>3. HandleNewUserSalt(y, m) = SendBinary(y, n)
      BY Zenon, <1>2 DEF HandleNewUserSalt
    <2> HIDE DEF n
    <2> QED BY Zenon, <2>2, <2>3, TalksSend
  <1> QED BY Zenon, <1>1, <1>2

LEMMA TalksBreaking ==
    ASSUME NEW y \in ClientSides, RefsOK(y.c), NEW concern
    PROVE  Talks(y, BreakConnection(y), concern)
  <1> DEFINE view == [NothingKnown EXCEPT !["health"] = y.c.view["health"]]
             c == [y.c EXCEPT !.state = "Closed", !.keepAlive = FALSE]
             d == [c EXCEPT !.promises = {}, !.cached = {}, !.view = view]
             z == BreakConnection(y)
  <1>1. view \in [Topics -> Int]
    <2>1. y.c.view \in [Topics -> Int] /\ "health" \in Topics
      BY Zenon DEF ClientSides, ClientEnds, Topics
    <2>2. NothingKnown \in [Topics -> Int]
      BY DEF NothingKnown, Unknown
    <2> QED BY <2>1, <2>2
  <1>2. y.c \in ClientEnds
    BY Zenon, ClientTypes
  <1>3. c \in ClientEnds /\ c.view = y.c.view
    BY Zenon, <1>2 DEF ClientEnds
  <1>4. z = [y EXCEPT !.c = IF IsConnected(y) THEN d ELSE c]
    BY Zenon, <1>3 DEF BreakConnection, ConnectionBroken
  <1>5. /\ c.nextRef = y.c.nextRef /\ c.accountRef = y.c.accountRef
        /\ c.registering = y.c.registering /\ c.state = "Closed" /\ KeepsLogin(y.c, c)
        /\ c.handlers = y.c.handlers /\ c.promises = y.c.promises
    BY Zenon, <1>2 DEF ClientEnds, KeepsLogin
  <1> HIDE DEF view, c
  <1>6. {} \in SUBSET Questions
    OBVIOUS
  <1>7. d \in ClientEnds
    BY Zenon, <1>1, <1>3, <1>6 DEF ClientEnds
  <1>8. /\ d.nextRef = c.nextRef /\ d.accountRef = c.accountRef
        /\ d.registering = c.registering /\ d.state = c.state /\ KeepsLogin(c, d)
        /\ d.handlers = c.handlers /\ d.promises = {}
    BY Zenon, <1>1, <1>3 DEF ClientEnds, KeepsLogin
  <1> HIDE DEF d, z
  <1>9. PICK e \in {c, d} : z = [y EXCEPT !.c = e]
    BY Zenon, <1>4
  <1>10. /\ e \in ClientEnds /\ e.nextRef = y.c.nextRef /\ e.accountRef = y.c.accountRef
         /\ e.registering = y.c.registering /\ e.state = "Closed" /\ KeepsLogin(y.c, e)
         /\ e.handlers = y.c.handlers /\ e.promises \subseteq y.c.promises
    BY Zenon, <1>3, <1>5, <1>7, <1>8, <1>9 DEF KeepsLogin
  <1>14. KeepsOthers(y.c, e, concern)
    BY Zenon, <1>10 DEF KeepsOthers, OthersStay
  <1>11. z \in ClientSides
    BY Zenon, <1>9, <1>10 DEF ClientSides
  <1>12. z.c = e /\ z.out = y.out
    BY Zenon, <1>9, <1>10 DEF ClientSides
  <1>13. Talks(y, z, concern)
    BY Zenon, <1>10, <1>11, <1>12, <1>14, TalksSilently
  <1> QED BY Zenon, <1>13 DEF z

LEMMA TalksOfTimers ==
    ASSUME NEW y \in ClientSides, RefsOK(y.c), NEW concern
    PROVE  Talks(y, OnKeepAliveTimerTimeout(y), concern) /\ Talks(y, CheckKeepAliveReply(y), concern)
  <1>1. Talks(y, OnKeepAliveTimerTimeout(y), concern)
    <2> DEFINE z == [y EXCEPT !.c.keepAlive = FALSE, !.c.replyCheck = TRUE, !.c.heard = FALSE]
    <2>1. Talks(y, z, concern)
      BY Zenon, TalksTimers
    <2>2. OnKeepAliveTimerTimeout(y) = SendKeepAlive(z)
      BY Zenon DEF OnKeepAliveTimerTimeout
    <2> HIDE DEF z
    <2>3. Talks(z, SendKeepAlive(z), concern)
      BY Zenon, <2>1, TalksPlainly, TalksTyped
    <2> QED BY Zenon, <2>1, <2>2, <2>3, TalksTwice
  <1>2. Talks(y, CheckKeepAliveReply(y), concern)
    <2> DEFINE z == [y EXCEPT !.c.replyCheck = FALSE]
    <2>1. z \in ClientSides
      BY Zenon DEF ClientSides, ClientEnds
    <2>2. z.out = y.out /\ z.c.nextRef = y.c.nextRef /\ z.c.accountRef = y.c.accountRef
          /\ z.c.registering = y.c.registering /\ z.c.state = y.c.state
      BY Zenon DEF ClientSides, ClientEnds
    <2>3. KeepsLogin(y.c, z.c) /\ KeepsOthers(y.c, z.c, concern)
      BY Zenon DEF ClientSides, ClientEnds, KeepsLogin, KeepsOthers, OthersStay
    <2>4. CheckKeepAliveReply(y) = IF y.c.heard \/ ~ IsConnected(y) THEN z
                                   ELSE BreakConnection(z)
      BY Zenon DEF CheckKeepAliveReply
    <2> HIDE DEF z
    <2>5. Talks(y, z, concern)
      BY Zenon, <2>1, <2>2, <2>3, TalksSilently
    <2>6. Talks(z, BreakConnection(z), concern)
      BY Zenon, <2>1, <2>5, TalksBreaking, TalksTyped
    <2> QED BY Zenon, <2>4, <2>5, <2>6, TalksTwice
  <1> QED BY <1>1, <1>2

(* Such steps of the client preserve the invariant.                        *)
LEMMA PlainIsNoLogin ==
    ASSUME NEW c, NEW ref, NEW concern
    PROVE  \A m \in PlainUp(c, concern) : ~ OfLogin(m, ref) /\ UpOK(m, c)
  BY DEF PlainUp, SparingUp, OfLogin, UpOK, UpMessage

LEMMA ClientTalks ==
    ASSUME NEW y \in ClientSides, NEW z, NEW s, NEW users, NEW ds, NEW concern,
           Talks(y, z, concern),
           Consistent(y.c, s, users, y.out, ds)
    PROVE  z \in ClientSides /\ Consistent(z.c, s, users, z.out, ds)
  <1>1. z \in ClientSides /\ RefsOK(z.c)
    BY Zenon, TalksTyped
  <1>2. y.c \in ClientEnds /\ z.c \in ClientEnds
        /\ y.out \in Seq(UpMessage) /\ z.out \in Seq(UpMessage)
    BY Zenon, <1>1, ClientTypes
  <1>3. /\ Grown(y.out, z.out, PlainUp(z.c, concern)) /\ KeepsLogin(y.c, z.c)
        /\ StaysOut(y.c, z.c) /\ y.c.nextRef <= z.c.nextRef
        /\ z.c.state = "BinaryMode" => y.c.state = "BinaryMode"
    BY Zenon DEF Talks
  <1>4. OtherRefs(y.c) \subseteq OtherRefs(z.c) /\ UsedRefs(y.c) \subseteq UsedRefs(z.c)
    BY Zenon, <1>2, <1>3, OtherRefsGrow DEF KeepsLogin
  <1>5. NoLogin(y.out, y.c.loginRef) => NoLogin(z.out, y.c.loginRef)
    <2> DEFINE S == PlainUp(z.c, concern)
               ref == y.c.loginRef
    <2>1. (\A m \in S : ~ OfLogin(m, ref)) /\ Grown(y.out, z.out, S)
      BY Zenon, <1>3, PlainIsNoLogin
    <2> HIDE DEF S, ref
    <2>2. NoLogin(y.out, ref) => NoLogin(z.out, ref)
      BY <1>2, <2>1, NoLoginGrown
    <2> QED BY Zenon, <2>2 DEF ref
  <1>6. \A m : OneLogin(y.out, y.c.loginRef, m) => OneLogin(z.out, y.c.loginRef, m)
    <2> DEFINE S == PlainUp(z.c, concern)
               ref == y.c.loginRef
    <2>1. (\A m \in S : ~ OfLogin(m, ref)) /\ Grown(y.out, z.out, S)
      BY Zenon, <1>3, PlainIsNoLogin
    <2> HIDE DEF S, ref
    <2>2. \A m : OneLogin(y.out, ref, m) => OneLogin(z.out, ref, m)
      BY <1>2, <2>1, OneLoginGrown
    <2> QED BY Zenon, <2>2 DEF ref
  <1>7. ReferencesOK(z.c, s, z.out)
    <2>1. TasksOK(z.c, s.tasks)
      BY Zenon, <1>4 DEF Consistent, ReferencesOK, TasksOK
    <2>2. ASSUME NEW i \in 1..Len(z.out)
          PROVE  UpOK(z.out[i], z.c)
      <3>1. CASE i \in 1..Len(y.out)
        <4>1. z.out[i] = y.out[i]
          BY Zenon, <1>3, <3>1 DEF Grown
        <4>2. UpOK(y.out[i], y.c)
          BY Zenon, <3>1 DEF Consistent, ReferencesOK
        <4> QED BY Zenon, <1>4, <4>1, <4>2 DEF UpOK
      <3>2. CASE i \in Len(y.out)+1..Len(z.out)
        BY Zenon, <1>3, <3>2, PlainIsNoLogin DEF Grown
      <3> QED BY <1>2, <3>1, <3>2
    <2> QED BY Zenon, <1>1, <2>1, <2>2 DEF ReferencesOK
  <1>8. ResultsOK(z.c, s, ds)
    BY Zenon, <1>3, <1>4 DEF Consistent, ResultsOK, ResultOK, KeepsLogin
  <1>9. LoggedInOK(z.c, s) /\ BinaryOK(z.c, s, ds)
    BY Zenon, <1>3 DEF Consistent, LoggedInOK, BinaryOK, KeepsLogin, StaysOut
  <1>10. BeforeTheConnection(z.c, s, z.out, ds)
    <2> SUFFICES ASSUME z.c.state \in {"NotConnected", "Connecting"}
                 PROVE  /\ ~ s.open
                        /\ z.c.loggedIn = Nobody /\ z.c.loggingIn = Nobody
                        /\ NoLogin(z.out, z.c.loginRef) /\ NoLogin(ds, z.c.loginRef)
                        /\ NoHeader(ds)
      BY Zenon DEF BeforeTheConnection
    <2>1. y.c.state \in {"NotConnected", "Connecting"}
      BY Zenon, <1>3 DEF StaysOut
    <2> QED BY Zenon, <1>3, <1>5, <2>1 DEF KeepsLogin, Consistent, BeforeTheConnection
  <1>11. LoginPhases(z.c, s, users, z.out, ds)
    <2> SUFFICES ASSUME s.open, ~ z.c.overtaken
                 PROVE  Phases(z.c, s, users, z.out, ds)
      BY Zenon DEF LoginPhases
    <2>0. Phases(y.c, s, users, y.out, ds)
      BY Zenon, <1>3 DEF Consistent, LoginPhases, KeepsLogin
    <2>1. CASE NoneUnderWay(y.c, s, y.out, ds)
      BY Zenon, <1>3, <1>5, <2>1 DEF NoneUnderWay, KeepsLogin, Phases
    <2>2. CASE Initiated(y.c, s, y.out, ds)
      BY Zenon, <1>3, <1>6, <2>2 DEF Initiated, KeepsLogin, Phases
    <2>3. CASE Salted(y.c, s, users, y.out, ds)
      BY Zenon, <1>3, <1>5, <2>3 DEF Salted, KeepsLogin, Phases
    <2>4. CASE Finishing(y.c, s, users, y.out, ds)
      BY Zenon, <1>3, <1>6, <2>4 DEF Finishing, KeepsLogin, Phases
    <2>5. CASE Answered(y.c, s, y.out, ds)
      BY Zenon, <1>3, <1>5, <2>5 DEF Answered, KeepsLogin, Phases
    <2> QED BY Zenon, <2>0, <2>1, <2>2, <2>3, <2>4, <2>5 DEF Phases
  <1> QED BY Zenon, <1>1, <1>7, <1>8, <1>9, <1>10, <1>11 DEF Consistent

-----------------------------------------------------------------------------
(* The client and its login.                                               *)

(* What is left of the invariant when any message has been read.           *)
LEMMA DownReadAny ==
    ASSUME NEW c, NEW s, NEW users, NEW us, NEW ds \in Seq(DownMessage), ds # << >>,
           Consistent(c, s, users, us, ds)
    PROVE  /\ ReferencesOK(c, s, us) /\ ResultsOK(c, s, Tail(ds)) /\ LoggedInOK(c, s)
           /\ BinaryOK(c, s, Tail(ds)) /\ ResultOK(Head(ds), c, s)
  <1>1. NoHeader(ds) => NoHeader(Tail(ds))
    BY Zenon, NoHeaderTail
  <1>2. ResultsOK(c, s, Tail(ds)) /\ ResultOK(Head(ds), c, s)
    <2>1. \A i \in 1..Len(ds) : ResultOK(ds[i], c, s)
      BY Zenon DEF Consistent, ResultsOK
    <2>2. (\A i \in 1..Len(Tail(ds)) : ResultOK(Tail(ds)[i], c, s)) /\ ResultOK(Head(ds), c, s)
      BY <2>1, TailOfList
    <2> QED BY Zenon, <2>2 DEF ResultsOK
  <1> QED BY Zenon, <1>1, <1>2 DEF Consistent, BinaryOK

LEMMA ClientLogsIn ==
    ASSUME NEW y \in ClientSides, NEW s, NEW users, NEW ds \in Seq(DownMessage),
           NEW user \in Users, NEW right \in BOOLEAN,
           y.c.state = "BinaryMode", y.c.loggedIn = Nobody,
           Consistent(y.c, s, users, y.out, ds), NEW z, z = Login(y, user, right)
    PROVE  z \in ClientSides /\ Consistent(z.c, s, users, z.out, ds)
  <1> DEFINE ref == y.c.nextRef
             next == ref + 1
             over == y.c.overtaken \/ y.c.loggingIn # Nobody
             w == [y EXCEPT !.c.nextRef = next, !.c.overtaken = over, !.c.loginRef = ref,
                            !.c.loggingIn = user, !.c.right = right]
             m == Initiate("InitiateLogin", user, ref)
             out == Append(y.out, m)
  <1>1. /\ y.c \in ClientEnds /\ y.out \in Seq(UpMessage) /\ ref \in Nat /\ next \in Nat
        /\ y.c.loginRef \in Nat /\ y.c.accountRef \in Nat /\ user \in Names
    BY ClientTypes DEF Names
  <1>2. RefsOK(y.c)
    BY Zenon DEF Consistent, ReferencesOK
  <1>3. z = SendBinary(w, m)
    BY Zenon DEF Login, WithNewReference, ClientSides, ClientEnds
  <1>4. m \in UpMessage /\ m.type = "InitiateLogin" /\ m.ref = ref
    BY <1>1 DEF UpMessage, Initiate
  <1>5. out \in Seq(UpMessage)
    BY <1>1, <1>4
  <1>6. over \in BOOLEAN
    BY DEF over
  <1> HIDE DEF m, next, over
  <1>7. w \in ClientSides
    BY Zenon, <1>1, <1>6 DEF ClientSides, ClientEnds
  <1>8. /\ w.out = y.out /\ w.c.nextRef = next /\ w.c.loginRef = ref
        /\ w.c.loggingIn = user /\ w.c.loggedIn = y.c.loggedIn
        /\ w.c.accountRef = y.c.accountRef /\ w.c.registering = y.c.registering
        /\ w.c.state = y.c.state
    BY Zenon, <1>1, <1>6 DEF ClientSides, ClientEnds
  <1>9. w.c.overtaken = over
    BY Zenon, <1>1, <1>6 DEF ClientSides, ClientEnds
  <1>10. z = [w EXCEPT !.out = out]
    BY Zenon, <1>3, <1>8 DEF SendBinary
  <1> HIDE DEF w, out
  <1>11. z \in ClientSides /\ z.c = w.c /\ z.out = out
    BY Zenon, <1>5, <1>7, <1>10 DEF ClientSides
  <1>12. /\ RefsOK(w.c) /\ OtherRefs(y.c) \subseteq OtherRefs(w.c)
         /\ UsedRefs(y.c) \subseteq UsedRefs(w.c) /\ ref \in UsedRefs(w.c)
         /\ ref \notin UsedRefs(y.c)
    BY <1>1, <1>2, <1>8 DEF RefsOK, OtherRefs, UsedRefs, next
  <1>13. ReferencesOK(w.c, s, out)
    <2>1. TasksOK(w.c, s.tasks)
      BY Zenon, <1>12 DEF Consistent, ReferencesOK, TasksOK
    <2>2. ASSUME NEW i \in 1..Len(out)
          PROVE  UpOK(out[i], w.c)
      <3>1. CASE i \in 1..Len(y.out)
        <4>1. out[i] = y.out[i]
          BY <1>1, <3>1 DEF out
        <4>2. UpOK(y.out[i], y.c)
          BY Zenon, <3>1 DEF Consistent, ReferencesOK
        <4> QED BY Zenon, <1>12, <4>1, <4>2 DEF UpOK
      <3>2. CASE i \notin 1..Len(y.out)
        <4>1. out[i] = m
          BY <1>1, <1>4, <3>2 DEF out
        <4>2. UpOK(m, w.c)
          BY <1>4, <1>12 DEF UpOK
        <4> QED BY <4>1, <4>2
      <3> QED BY <3>1, <3>2
    <2> QED BY Zenon, <1>12, <2>1, <2>2 DEF ReferencesOK
  <1>14. ResultsOK(w.c, s, ds) /\ NoLogin(ds, y.c.loginRef) => NoLogin(ds, ref)
    BY Zenon, <1>12 DEF Consistent, ResultsOK, ResultOK, NoLogin, OfLogin
  <1>15. ResultsOK(w.c, s, ds)
    BY Zenon, <1>8, <1>12 DEF Consistent, ResultsOK, ResultOK
  <1>16. LoggedInOK(w.c, s) /\ BinaryOK(w.c, s, ds)
    BY Zenon, <1>8 DEF Consistent, LoggedInOK, BinaryOK
  <1>17. BeforeTheConnection(w.c, s, out, ds)
    <2>1. w.c.state \notin {"NotConnected", "Connecting"}
      BY <1>8
    <2> QED BY Zenon, <2>1 DEF BeforeTheConnection
  <1>18. LoginPhases(w.c, s, users, out, ds)
    <2> SUFFICES ASSUME s.open, ~ w.c.overtaken
                 PROVE  Initiated(w.c, s, out, ds)
      BY Zenon DEF LoginPhases, Phases
    <2>1. ~ y.c.overtaken /\ y.c.loggingIn = Nobody
      BY Zenon, <1>9 DEF over
    <2>2. NoneUnderWay(y.c, s, y.out, ds)
      BY Zenon, <2>1 DEF Consistent, LoginPhases, Phases, Initiated, Salted, Finishing, Answered
    <2>3. NoLogin(y.out, ref)
      <3>1. \A i \in 1..Len(y.out) : y.out[i].type # "Result"
        <4>1. \A n \in UpMessage : n.type # "Result"
          BY DEF UpMessage
        <4>2. \A i \in 1..Len(y.out) : y.out[i] \in UpMessage
          BY <1>1
        <4> QED BY Zenon, <4>1, <4>2
      <3> QED BY Zenon, <2>2, <3>1 DEF NoneUnderWay, NoLogin, OfLogin
    <2>4. OneLogin(out, ref, m)
      <3>1. OfLogin(m, ref)
        BY Zenon, <1>4 DEF OfLogin
      <3> QED BY Zenon, <1>1, <1>4, <2>3, <3>1, OneLoginAppended DEF out
    <2>5. NoLogin(ds, ref)
      BY Zenon, <1>14, <1>15, <2>2 DEF NoneUnderWay
    <2>6. user # Nobody
      BY NobodyIsNoUser
    <2> QED BY Zenon, <1>8, <2>2, <2>4, <2>5, <2>6 DEF Initiated, NoneUnderWay, m
  <1> QED BY Zenon, <1>11, <1>13, <1>15, <1>16, <1>17, <1>18 DEF Consistent

(* The phase that a login is in when its message is the next to be read.   *)
LEMMA SaltedWhenRead ==
    ASSUME NEW c, NEW s, NEW users, NEW us, NEW ds \in Seq(DownMessage), ds # << >>,
           Consistent(c, s, users, us, ds), Head(ds).type = "LoginSalt",
           s.open, ~ c.overtaken
    PROVE  /\ Salted(c, s, users, us, ds)
           /\ Head(ds) = LoginSalt(c.loggingIn, s.sessionSalt)
           /\ NoLogin(Tail(ds), c.loginRef)
  <1>1. OfLogin(Head(ds), c.loginRef)
    BY Zenon DEF OfLogin
  <1>2. ~ NoLogin(ds, c.loginRef)
    BY Zenon, <1>1, NoLoginTail
  <1>3. \A m : OneLogin(ds, c.loginRef, m) => Head(ds) = m /\ NoLogin(Tail(ds), c.loginRef)
    BY Zenon, <1>1, OneLoginHead
  <1>4. ~ Answered(c, s, us, ds)
    <2>1. "LoginSalt" # "Result"
      OBVIOUS
    <2> QED BY Zenon, <1>3, <2>1 DEF Answered, Answers
  <1>5. Phases(c, s, users, us, ds)
    BY Zenon DEF Consistent, LoginPhases
  <1>6. Salted(c, s, users, us, ds)
    BY Zenon, <1>2, <1>4, <1>5 DEF Phases, NoneUnderWay, Initiated, Finishing
  <1> QED BY Zenon, <1>3, <1>6 DEF Salted

LEMMA AnsweredWhenRead ==
    ASSUME NEW c, NEW s, NEW users, NEW us, NEW ds \in Seq(DownMessage), ds # << >>,
           Consistent(c, s, users, us, ds), Head(ds).type = "Result",
           Head(ds).ref = c.loginRef, s.open, ~ c.overtaken
    PROVE  /\ Answered(c, s, us, ds) /\ Answers(Head(ds), s)
           /\ NoLogin(Tail(ds), c.loginRef)
  <1>1. OfLogin(Head(ds), c.loginRef)
    BY Zenon DEF OfLogin
  <1>2. ~ NoLogin(ds, c.loginRef)
    BY Zenon, <1>1, NoLoginTail
  <1>3. \A m : OneLogin(ds, c.loginRef, m) => Head(ds) = m /\ NoLogin(Tail(ds), c.loginRef)
    BY Zenon, <1>1, OneLoginHead
  <1>4. ~ Salted(c, s, users, us, ds)
    <2> SUFFICES ASSUME Salted(c, s, users, us, ds)
                 PROVE  FALSE
      OBVIOUS
    <2>1. Head(ds) = LoginSalt(c.loggingIn, s.sessionSalt)
      BY Zenon, <1>3 DEF Salted
    <2> QED BY <2>1 DEF LoginSalt
  <1>5. Phases(c, s, users, us, ds)
    BY Zenon DEF Consistent, LoginPhases
  <1>6. Answered(c, s, us, ds)
    BY Zenon, <1>2, <1>4, <1>5 DEF Phases, NoneUnderWay, Initiated, Finishing
  <1> QED BY Zenon, <1>3, <1>6 DEF Answered

LEMMA DownFields ==
    ASSUME NEW m \in DownMessage
    PROVE  /\ m.type \in {"LoginSalt", "NewAccountSalt"} => m.login \in Users /\ m.salt \in Nat
           /\ m.type = "Result" => m.ref \in Nat /\ m.user \in Names
           /\ m.type \in {"Status", "Scrobbling"} => m.values \in Values
           /\ m.type = "DelayedStartInfo" => m.start \in Int
           /\ m.type = "Info" => m.kind \in Questions
  BY DEF DownMessage

LEMMA ClientGetsSalt ==
    ASSUME NEW y \in ClientSides, NEW s, NEW users, NEW ds \in Seq(DownMessage), ds # << >>,
           y.c.state \notin {"NotConnected", "Connecting"},
           Consistent(y.c, s, users, y.out, ds), Head(ds).type = "LoginSalt",
           NEW z, z = HandleLoginSalt(y, Head(ds))
    PROVE  z \in ClientSides /\ Consistent(z.c, s, users, z.out, Tail(ds))
  <1> DEFINE m == Head(ds)
  <1>1. m \in DownMessage /\ m.login \in Users /\ m.salt \in Nat
    BY DownFields, TailOfList
  <1>2. /\ ReferencesOK(y.c, s, y.out) /\ ResultsOK(y.c, s, Tail(ds)) /\ LoggedInOK(y.c, s)
        /\ BinaryOK(y.c, s, Tail(ds))
    BY Zenon, DownReadAny
  <1>3. s.open /\ ~ y.c.overtaken =>
           /\ Salted(y.c, s, users, y.out, ds) /\ NoLogin(Tail(ds), y.c.loginRef)
           /\ m.login = y.c.loggingIn /\ m.salt = s.sessionSalt
    <2> SUFFICES ASSUME s.open, ~ y.c.overtaken
                 PROVE  /\ Salted(y.c, s, users, y.out, ds) /\ NoLogin(Tail(ds), y.c.loginRef)
                        /\ m.login = y.c.loggingIn /\ m.salt = s.sessionSalt
      OBVIOUS
    <2>1. /\ Salted(y.c, s, users, y.out, ds) /\ NoLogin(Tail(ds), y.c.loginRef)
          /\ m = LoginSalt(y.c.loggingIn, s.sessionSalt)
      BY Zenon, SaltedWhenRead
    <2>2. m.login = y.c.loggingIn /\ m.salt = s.sessionSalt
      BY <2>1 DEF LoginSalt
    <2> QED BY <2>1, <2>2
  <1>4. CASE m.login # y.c.loggingIn
    <2>1. z = y
      BY Zenon, <1>4 DEF HandleLoginSalt
    <2>2. LoginPhases(y.c, s, users, y.out, Tail(ds))
      BY Zenon, <1>3, <1>4 DEF LoginPhases
    <2>3. BeforeTheConnection(y.c, s, y.out, Tail(ds))
      BY Zenon DEF BeforeTheConnection
    <2> QED BY Zenon, <1>2, <2>1, <2>2, <2>3 DEF Consistent
  <1>5. CASE m.login = y.c.loggingIn
    <2> DEFINE c == y.c
               n == Finish("FinishLogin", m.login, c.loginRef, m.salt, c.right)
               out == Append(y.out, n)
    <2>1. c \in ClientEnds /\ y.out \in Seq(UpMessage) /\ c.loginRef \in Nat
          /\ c.nextRef \in Nat
      BY Zenon, ClientTypes
    <2>2. c.right \in BOOLEAN
      BY Zenon, <2>1 DEF ClientEnds
    <2>3. n \in UpMessage /\ n.type = "FinishLogin" /\ n.ref = c.loginRef
      BY <1>1, <2>1, <2>2 DEF UpMessage, Finish
    <2>4. z = [y EXCEPT !.out = out]
      BY Zenon, <1>5 DEF HandleLoginSalt, SendBinary
    <2>5. out \in Seq(UpMessage)
      BY <2>1, <2>3
    <2>6. z \in ClientSides /\ z.c = c /\ z.out = out
      BY Zenon, <2>4, <2>5 DEF ClientSides
    <2>7. UpOK(n, c)
      <3>1. RefsOK(c)
        BY Zenon, <1>2 DEF ReferencesOK
      <3>2. c.loggingIn # Nobody
        BY <1>1, <1>5, NobodyIsNoUser
      <3> HIDE DEF n, c
      <3> QED BY <2>1, <2>3, <3>1, <3>2 DEF UpOK, RefsOK, UsedRefs
    <2>8. ReferencesOK(c, s, out)
      <3>1. ASSUME NEW i \in 1..Len(out)
            PROVE  UpOK(out[i], c)
        <4>1. (i \in 1..Len(y.out) /\ out[i] = y.out[i]) \/ out[i] = n
          BY <2>1, <2>3
        <4>2. \A j \in 1..Len(y.out) : UpOK(y.out[j], c)
          BY Zenon, <1>2 DEF ReferencesOK
        <4> HIDE DEF out, n, c
        <4> QED BY Zenon, <2>7, <4>1, <4>2
      <3> QED BY Zenon, <1>2, <3>1 DEF ReferencesOK
    <2>9. BeforeTheConnection(c, s, out, Tail(ds))
      BY Zenon DEF BeforeTheConnection
    <2>10. LoginPhases(c, s, users, out, Tail(ds))
      <3> SUFFICES ASSUME s.open, ~ c.overtaken
                   PROVE  Finishing(c, s, users, out, Tail(ds))
        BY Zenon DEF LoginPhases, Phases
      <3>1. /\ Salted(c, s, users, y.out, ds) /\ NoLogin(Tail(ds), c.loginRef)
            /\ m.login = c.loggingIn /\ m.salt = s.sessionSalt
        BY Zenon, <1>3
      <3>2. OfLogin(n, c.loginRef)
        BY Zenon, <2>3 DEF OfLogin
      <3>3. OneLogin(out, c.loginRef, n)
        <4>1. NoLogin(y.out, c.loginRef)
          BY Zenon, <3>1 DEF Salted
        <4> DEFINE ref == c.loginRef
        <4> HIDE DEF n, ref
        <4> QED BY Zenon, <2>1, <2>3, <3>2, <4>1, OneLoginAppended DEF ref
      <3>4. n = Finish("FinishLogin", c.loggingIn, c.loginRef, s.sessionSalt, c.right)
        BY Zenon, <3>1
      <3> HIDE DEF n, out
      <3> QED BY Zenon, <3>1, <3>3, <3>4 DEF Finishing, Salted
    <2> QED BY Zenon, <1>2, <2>6, <2>8, <2>9, <2>10 DEF Consistent
  <1> QED BY <1>4, <1>5

LEMMA ClientGetsResult ==
    ASSUME NEW y \in ClientSides, NEW s, NEW users, NEW ds \in Seq(DownMessage), ds # << >>,
           y.c.state \notin {"NotConnected", "Connecting"},
           Consistent(y.c, s, users, y.out, ds), Head(ds).type = "Result",
           Head(ds).ref = y.c.loginRef, NEW z, z = HandleUserLoginResult(y, Head(ds))
    PROVE  z \in ClientSides /\ Consistent(z.c, s, users, z.out, Tail(ds))
  <1> DEFINE m == Head(ds)
             who == IF m.code = "NoError" THEN m.user ELSE y.c.loggedIn
             w == [y EXCEPT !.c.right = FALSE, !.c.loggingIn = Nobody, !.c.loggedIn = who]
  <1>1. m \in DownMessage /\ m.user \in Names
    BY DownFields, TailOfList
  <1>2. who \in Names /\ Nobody \in Names
    BY <1>1, ClientTypes DEF Names
  <1>3. z = w
    BY Zenon DEF HandleUserLoginResult, ClientSides, ClientEnds
  <1>4. /\ ReferencesOK(y.c, s, y.out) /\ ResultsOK(y.c, s, Tail(ds)) /\ LoggedInOK(y.c, s)
        /\ BinaryOK(y.c, s, Tail(ds)) /\ ResultOK(m, y.c, s)
    BY Zenon, DownReadAny
  <1>5. s.open /\ m.code = "NoError" => who = s.loggedIn
    BY Zenon, <1>4 DEF ResultOK
  <1>6. m.code # "NoError" => who = y.c.loggedIn
    OBVIOUS
  <1> HIDE DEF who
  <1>7. w \in ClientSides
    BY Zenon, <1>2 DEF ClientSides, ClientEnds
  <1>8. /\ w.out = y.out /\ w.c.nextRef = y.c.nextRef /\ w.c.loginRef = y.c.loginRef
        /\ w.c.loggingIn = Nobody /\ w.c.loggedIn = who /\ w.c.state = y.c.state
        /\ w.c.accountRef = y.c.accountRef /\ w.c.registering = y.c.registering
    BY Zenon, <1>2 DEF ClientSides, ClientEnds
  <1>9. w.c.overtaken = y.c.overtaken
    BY Zenon, <1>2 DEF ClientSides, ClientEnds
  <1> HIDE DEF w
  <1>10. ReferencesOK(w.c, s, w.out)
    BY Zenon, <1>4, <1>8 DEF ReferencesOK, RefsOK, TasksOK, UpOK, UsedRefs, OtherRefs
  <1>11. ResultsOK(w.c, s, Tail(ds))
    BY Zenon, <1>4, <1>8 DEF ResultsOK, ResultOK, UsedRefs
  <1>12. LoggedInOK(w.c, s)
    BY Zenon, <1>4, <1>5, <1>6, <1>8 DEF LoggedInOK
  <1>13. BinaryOK(w.c, s, Tail(ds)) /\ BeforeTheConnection(w.c, s, w.out, Tail(ds))
    BY Zenon, <1>4, <1>8 DEF BinaryOK, BeforeTheConnection
  <1>14. LoginPhases(w.c, s, users, w.out, Tail(ds))
    <2> SUFFICES ASSUME s.open, ~ w.c.overtaken
                 PROVE  NoneUnderWay(w.c, s, w.out, Tail(ds))
      BY Zenon DEF LoginPhases, Phases
    <2>1. /\ Answered(y.c, s, y.out, ds) /\ Answers(m, s)
          /\ NoLogin(Tail(ds), y.c.loginRef)
      BY Zenon, <1>9, AnsweredWhenRead
    <2>2. who = s.loggedIn
      BY Zenon, <1>5, <1>6, <2>1 DEF Answered, Answers
    <2> QED BY Zenon, <1>8, <2>1, <2>2 DEF NoneUnderWay, Answered
  <1> QED BY Zenon, <1>3, <1>7, <1>10, <1>11, <1>12, <1>13, <1>14 DEF Consistent

LEMMA ShortLists ==
    ASSUME NEW S, NEW a \in S, NEW b \in S, NEW d \in S
    PROVE  << a, b, d >> \in Seq(S) /\ \A e \in S : << a, b, d, e >> \in Seq(S)
  OBVIOUS

LEMMA Joined ==
    ASSUME NEW S, NEW a \in Seq(S), NEW b \in Seq(S)
    PROVE  /\ a \o b \in Seq(S)
           /\ \A i \in 1..Len(a) : i \in 1..Len(a \o b) /\ (a \o b)[i] = a[i]
           /\ \A i \in 1..Len(b) : /\ Len(a) + i \in 1..Len(a \o b)
                                   /\ (a \o b)[Len(a) + i] = b[i]
  OBVIOUS

LEMMA OpeningIsPlain ==
    ASSUME NEW wanted, NEW c
    PROVE  /\ OpeningMessages(wanted) \in Seq(UpMessage)
           /\ \A i \in 1..Len(OpeningMessages(wanted)) :
                 OpeningMessages(wanted)[i] \in PlainUp(c, Nothing)
           /\ 3 \in 1..Len(OpeningMessages(wanted))
           /\ OpeningMessages(wanted)[3] = EventRequest(wanted)
  <1> DEFINE ms == OpeningMessages(wanted)
             S == PlainUp(c, Nothing)
             first == << Action("extensions"), [type |-> "Extensions"],
                         EventRequest(wanted) >>
  <1>1. /\ [type |-> "Extensions"] \in S /\ \A action \in Actions : Action(action) \in S
    BY Zenon, PlainMessages
  <1>2. \A n \in S : n \in UpMessage
    BY DEF PlainUp, SparingUp
  <1>3. ms = first \o OpeningQuestions
    BY Zenon DEF OpeningMessages
  <1> HIDE DEF S, ms
  <1>4. /\ Action("extensions") \in S /\ Action("player state") \in S
        /\ Action("user playing for") \in S /\ Action("dynamic mode status") \in S
        /\ Action("indexation status") \in S /\ EventRequest(wanted) \in S
    BY <1>1 DEF Actions, EventRequest
  <1>5. first \in Seq(S) /\ OpeningQuestions \in Seq(S)
    BY Zenon, <1>1, <1>4, ShortLists DEF OpeningQuestions
  <1>6. 3 \in 1..Len(first) /\ first[3] = EventRequest(wanted)
    OBVIOUS
  <1> HIDE DEF first
  <1>7. ms \in Seq(S) /\ 3 \in 1..Len(ms) /\ ms[3] = EventRequest(wanted)
    BY Zenon, <1>3, <1>5, <1>6, Joined
  <1> QED BY <1>2, <1>7 DEF S, ms

LEMMA ClientEntersBinaryMode ==
    ASSUME NEW y \in ClientSides, NEW s, NEW users, NEW ds \in Seq(DownMessage), ds # << >>,
           Consistent(y.c, s, users, y.out, ds), Head(ds).type = "Header",
           y.c.state \notin {"NotConnected", "Connecting"},
           NEW wanted, NEW z, z = EnterBinaryMode(y, wanted)
    PROVE  z \in ClientSides /\ Consistent(z.c, s, users, z.out, Tail(ds))
  <1> DEFINE w == [y EXCEPT !.c.state = "BinaryMode", !.c.keepAlive = TRUE]
             ms == OpeningMessages(wanted)
             out == y.out \o ms
  <1>1. Consistent(y.c, s, users, y.out, Tail(ds))
    <2>1. ~ OfLogin(Head(ds), y.c.loginRef)
      BY DEF OfLogin
    <2> QED BY Zenon, <2>1, ClientTypes, DownRead
  <1>2. s.open => s.binary
    <2>1. ~ NoHeader(ds)
      BY TailOfList DEF NoHeader
    <2> QED BY Zenon, <2>1 DEF Consistent, BinaryOK
  <1>3. w \in ClientSides
    BY Zenon DEF ClientSides, ClientEnds
  <1>4. /\ w.out = y.out /\ w.c.state = "BinaryMode" /\ w.c.nextRef = y.c.nextRef
        /\ w.c.accountRef = y.c.accountRef /\ w.c.registering = y.c.registering
    BY Zenon DEF ClientSides, ClientEnds
  <1>5. KeepsLogin(y.c, w.c)
    BY Zenon DEF ClientSides, ClientEnds, KeepsLogin
  <1>6. z = [w EXCEPT !.out = out]
    BY Zenon DEF EnterBinaryMode, ClientSides, ClientEnds
  <1> HIDE DEF w
  <1>7. Consistent(w.c, s, users, w.out, Tail(ds))
    <2>1. ReferencesOK(w.c, s, w.out)
      BY Zenon, <1>1, <1>4, <1>5
         DEF Consistent, ReferencesOK, RefsOK, TasksOK, UpOK, UsedRefs, OtherRefs, KeepsLogin
    <2>2. ResultsOK(w.c, s, Tail(ds)) /\ LoggedInOK(w.c, s)
      BY Zenon, <1>1, <1>4, <1>5
         DEF Consistent, ResultsOK, ResultOK, UsedRefs, LoggedInOK, KeepsLogin
    <2>3. BinaryOK(w.c, s, Tail(ds))
      BY Zenon, <1>2 DEF BinaryOK
    <2>4. BeforeTheConnection(w.c, s, w.out, Tail(ds))
      <3>1. w.c.state \notin {"NotConnected", "Connecting"}
        BY <1>4
      <3> QED BY Zenon, <3>1 DEF BeforeTheConnection
    <2>5. LoginPhases(w.c, s, users, w.out, Tail(ds))
      BY Zenon, <1>1, <1>4, <1>5
         DEF Consistent, LoginPhases, Phases, NoneUnderWay, Initiated, Salted, Finishing,
             Answered, KeepsLogin
    <2> QED BY Zenon, <2>1, <2>2, <2>3, <2>4, <2>5 DEF Consistent
  <1>8. ms \in Seq(UpMessage) /\ \A i \in 1..Len(ms) : ms[i] \in PlainUp(w.c, Nothing)
    BY Zenon, OpeningIsPlain
  <1> HIDE DEF ms
  <1>9. Talks(w, z, Nothing)
    <2>1. y.out \in Seq(UpMessage) /\ out \in Seq(UpMessage)
      BY <1>8, ClientTypes
    <2>2. Grown(y.out, out, PlainUp(w.c, Nothing))
      BY <1>8, <2>1, GrownConcat
    <2> HIDE DEF out
    <2>3. z \in ClientSides /\ z.c = w.c /\ z.out = out
      BY Zenon, <1>3, <1>6, <2>1 DEF ClientSides
    <2>4. RefsOK(w.c)
      BY Zenon, <1>7 DEF Consistent, ReferencesOK
    <2>5. w.c.nextRef <= w.c.nextRef
      BY <1>3, ClientTypes
    <2>6. KeepsOthers(w.c, w.c, Nothing)
      BY Zenon DEF KeepsOthers, OthersStay
    <2> QED BY Zenon, <1>4, <2>2, <2>3, <2>4, <2>5, <2>6 DEF Talks, KeepsLogin, StaysOut
  <1> QED BY Zenon, <1>3, <1>7, <1>9, ClientTalks

(* The client reads a message: a greeting, one that is not about a login,  *)
(* and any.                                                                *)
LEMMA TalksGreeting ==
    ASSUME NEW y \in ClientSides, RefsOK(y.c), NEW concern, y.c.state # "Closed",
           NEW m, m.type \in {"Greeting", "TextBinary"}, NEW wanted
    PROVE  Talks(y, OnReadyRead(y, m, wanted), concern)
  <1> DEFINE z == OnReadyRead(y, m, wanted)
  <1>1. CASE m.type = "Greeting"
    <2> DEFINE ms == << [type |-> "TextBinary"], [type |-> "Header"] >>
               out == y.out \o ms
               v == [y EXCEPT !.c.state = "TextMode"]
    <2>1. z = [v EXCEPT !.out = out]
      BY Zenon, <1>1 DEF OnReadyRead, ClientSides, ClientEnds
    <2>2. v \in ClientSides
      BY Zenon DEF ClientSides, ClientEnds
    <2>3. /\ v.out = y.out /\ v.c.nextRef = y.c.nextRef /\ v.c.accountRef = y.c.accountRef
          /\ v.c.registering = y.c.registering /\ v.c.state = "TextMode"
          /\ v.c.handlers = y.c.handlers /\ v.c.promises = y.c.promises
      BY Zenon DEF ClientSides, ClientEnds
    <2>4. KeepsLogin(y.c, v.c)
      BY Zenon DEF ClientSides, ClientEnds, KeepsLogin
    <2> HIDE DEF v
    <2>5. Talks(y, v, concern)
      BY Zenon, <2>2, <2>3, <2>4, TalksSilently DEF KeepsOthers, OthersStay
    <2>6. ms \in Seq(UpMessage) /\ \A i \in 1..Len(ms) : ms[i] \in PlainUp(v.c, concern)
      BY DEF UpMessage, PlainUp, SparingUp
    <2> HIDE DEF ms
    <2>7. v.out \in Seq(UpMessage) /\ out \in Seq(UpMessage)
      BY <2>3, <2>6, ClientTypes
    <2>8. Grown(v.out, out, PlainUp(v.c, concern))
      BY <2>3, <2>6, <2>7, GrownConcat
    <2> HIDE DEF out, z
    <2>9. z \in ClientSides /\ z.c = v.c /\ z.out = out
      BY Zenon, <2>1, <2>2, <2>7 DEF ClientSides
    <2>10. v.c.nextRef <= v.c.nextRef /\ RefsOK(v.c)
      BY <2>2, <2>5, ClientTypes, TalksTyped
    <2>11. Talks(v, z, concern)
      BY Zenon, <2>8, <2>9, <2>10 DEF Talks, KeepsLogin, StaysOut, KeepsOthers, OthersStay
    <2>12. Talks(y, z, concern)
      BY Zenon, <2>5, <2>11, TalksTwice
    <2> QED BY Zenon, <2>12 DEF z
  <1>2. CASE m.type = "TextBinary"
    <2> DEFINE v == [y EXCEPT !.c.state = "BinaryHandshake"]
    <2>1. z = v
      BY Zenon, <1>2 DEF OnReadyRead
    <2>2. v \in ClientSides
      BY Zenon DEF ClientSides, ClientEnds
    <2>3. /\ v.out = y.out /\ v.c.nextRef = y.c.nextRef /\ v.c.accountRef = y.c.accountRef
          /\ v.c.registering = y.c.registering /\ v.c.state = "BinaryHandshake"
          /\ v.c.handlers = y.c.handlers /\ v.c.promises = y.c.promises
      BY Zenon DEF ClientSides, ClientEnds
    <2>4. KeepsLogin(y.c, v.c)
      BY Zenon DEF ClientSides, ClientEnds, KeepsLogin
    <2> HIDE DEF v
    <2>5. Talks(y, v, concern)
      BY Zenon, <2>2, <2>3, <2>4, TalksSilently DEF KeepsOthers, OthersStay
    <2> QED BY Zenon, <2>1, <2>5 DEF z
  <1> QED BY <1>1, <1>2

(* handleBinaryMessage restarts the timer before anything else.            *)
WithTimer(y) == [y EXCEPT !.c.heard = TRUE, !.c.keepAlive = TRUE]

LEMMA TimerRestarted ==
    ASSUME NEW y \in ClientSides
    PROVE  /\ WithTimer(y) \in ClientSides
           /\ WithTimer(y).out = y.out /\ WithTimer(y).c.nextRef = y.c.nextRef
           /\ WithTimer(y).c.accountRef = y.c.accountRef
           /\ WithTimer(y).c.registering = y.c.registering
           /\ WithTimer(y).c.state = y.c.state
           /\ WithTimer(y).c.handlers = y.c.handlers
           /\ WithTimer(y).c.promises = y.c.promises
           /\ KeepsLogin(y.c, WithTimer(y).c)
           /\ \A concern : RefsOK(y.c) => Talks(y, WithTimer(y), concern)
  <1> DEFINE w == WithTimer(y)
  <1>1. w \in ClientSides
    BY Zenon DEF ClientSides, ClientEnds, WithTimer
  <1>2. /\ w.out = y.out /\ w.c.nextRef = y.c.nextRef /\ w.c.accountRef = y.c.accountRef
        /\ w.c.registering = y.c.registering /\ w.c.state = y.c.state
        /\ w.c.handlers = y.c.handlers /\ w.c.promises = y.c.promises
    BY Zenon DEF ClientSides, ClientEnds, WithTimer
  <1>3. KeepsLogin(y.c, w.c)
    BY Zenon DEF ClientSides, ClientEnds, KeepsLogin, WithTimer
  <1> HIDE DEF w
  <1>4. ASSUME NEW concern, RefsOK(y.c)
        PROVE  Talks(y, w, concern)
    BY Zenon, <1>1, <1>2, <1>3, <1>4, TalksSilently DEF KeepsOthers, OthersStay
  <1> QED BY Zenon, <1>1, <1>2, <1>3, <1>4 DEF w

LEMMA TalksMessage ==
    ASSUME NEW y \in ClientSides, RefsOK(y.c), NEW concern, NEW m \in DownMessage,
           m.type \notin {"LoginSalt", "Header"},
           m.type = "Result" => m.ref # y.c.loginRef,
           IsAnswer(m) => m.ref \in concern.requests,
           m.type = "Info" => m.kind \in concern.questions,
           y.c.accountRef \in concern.accounts
    PROVE  Talks(y, HandleStandardMessage(y, m), concern)
  <1> DEFINE z == HandleStandardMessage(y, m)
  <1>1. CASE m.type = "Status"
    BY Zenon, <1>1, DownFields, TalksStatus DEF HandleStandardMessage
  <1>2. CASE m.type = "Scrobbling"
    BY Zenon, <1>2, DownFields, TalksValues, TalksSame
       DEF HandleStandardMessage, ReceivedScrobbling
  <1>3. CASE m.type = "DelayedStartInfo"
    <2>1. z = [y EXCEPT !.c.view["delayed"] = m.start]
      BY Zenon, <1>3 DEF HandleStandardMessage, ReceivedDelayedStartInfo
    <2>2. m.start \in Int
      BY Zenon, <1>3, DownFields
    <2> QED BY Zenon, <2>1, <2>2, TalksDelayed
  <1>4. CASE m.type = "Info"
    BY Zenon, <1>4, DownFields, TalksInfo DEF HandleStandardMessage
  <1>5. CASE m.type = "Extensions"
    BY Zenon, <1>5, TalksExtensions DEF HandleStandardMessage
  <1>6. CASE m.type = "NewAccountSalt"
    BY Zenon, <1>6, DownFields, TalksNewUser DEF HandleStandardMessage
  <1>7. CASE m.type = "Result"
    BY Zenon, <1>7, TalksRegistered, TalksAnswer
       DEF HandleStandardMessage, HandleResultMessage, IsAnswer
  <1>8. CASE m.type \in {"AdditionConfirmation", "Reply"}
    BY Zenon, <1>8, TalksAnswer
       DEF HandleStandardMessage, ReceivedAdditionConfirmation, ReceivedReply, IsAnswer
  <1>9. CASE m.type \notin {"Status", "Scrobbling", "DelayedStartInfo", "Info", "Result",
                            "Extensions", "NewAccountSalt", "AdditionConfirmation", "Reply"}
    <2>1. z = y
      BY Zenon, <1>9 DEF HandleStandardMessage
    <2> QED BY Zenon, <2>1, TalksSame
  <1> QED BY Zenon, <1>1, <1>2, <1>3, <1>4, <1>5, <1>6, <1>7, <1>8, <1>9

LEMMA TalksReading ==
    ASSUME NEW y \in ClientSides, RefsOK(y.c), NEW concern, NEW m \in DownMessage,
           y.c.state # "Closed", NEW wanted,
           m.type \notin {"LoginSalt", "Header"},
           m.type = "Result" => m.ref # y.c.loginRef,
           IsAnswer(m) => m.ref \in concern.requests,
           m.type = "Info" => m.kind \in concern.questions,
           y.c.accountRef \in concern.accounts
    PROVE  Talks(y, OnReadyRead(y, m, wanted), concern)
  <1>1. CASE m.type \in {"Greeting", "TextBinary"}
    BY <1>1, TalksGreeting
  <1>2. CASE m.type \notin {"Greeting", "TextBinary"}
    <2> DEFINE w == WithTimer(y)
    <2>1. OnReadyRead(y, m, wanted) = HandleStandardMessage(w, m)
      BY Zenon, <1>2 DEF OnReadyRead, HandleBinaryMessage, WithTimer
    <2>2. /\ w \in ClientSides /\ Talks(y, w, concern) /\ w.c.accountRef = y.c.accountRef
          /\ w.c.loginRef = y.c.loginRef
      BY Zenon, TimerRestarted DEF KeepsLogin
    <2>3. RefsOK(w.c)
      BY Zenon, <2>2, TalksTyped
    <2> HIDE DEF w
    <2>4. Talks(w, HandleStandardMessage(w, m), concern)
      BY Zenon, <2>2, <2>3, TalksMessage
    <2> QED BY Zenon, <2>1, <2>2, <2>4, TalksTwice
  <1> QED BY <1>1, <1>2

LEMMA ClientReadsOK ==
    ASSUME NEW y \in ClientSides, NEW s, NEW users, NEW ds \in Seq(DownMessage), ds # << >>,
           Consistent(y.c, s, users, y.out, ds),
           y.c.state \notin {"NotConnected", "Connecting", "Closed"},
           NEW wanted, NEW z, z = OnReadyRead(y, Head(ds), wanted)
    PROVE  z \in ClientSides /\ Consistent(z.c, s, users, z.out, Tail(ds))
  <1> DEFINE m == Head(ds)
             w == WithTimer(y)
  <1>1. m \in DownMessage
    BY TailOfList
  <1>2. RefsOK(y.c)
    BY Zenon DEF Consistent, ReferencesOK
  <1>3. CASE m.type = "Header"
    <2>1. z = EnterBinaryMode(y, wanted)
      BY Zenon, <1>3 DEF OnReadyRead
    <2>2. y.c.state \notin {"NotConnected", "Connecting"}
      OBVIOUS
    <2> QED BY Zenon, <1>3, <2>1, <2>2, ClientEntersBinaryMode
  <1>4. /\ w \in ClientSides /\ w.c.loginRef = y.c.loginRef
        /\ Consistent(w.c, s, users, w.out, ds)
        /\ w.c.state \notin {"NotConnected", "Connecting"}
    <2>1. /\ w \in ClientSides /\ Talks(y, w, Nothing) /\ w.c.loginRef = y.c.loginRef
          /\ w.c.state = y.c.state
      BY Zenon, <1>2, TimerRestarted DEF KeepsLogin
    <2>2. w.c.state \notin {"NotConnected", "Connecting"}
      BY <2>1
    <2> HIDE DEF w
    <2> QED BY Zenon, <2>1, <2>2, ClientTalks
  <1>5. CASE m.type = "LoginSalt"
    <2>1. z = HandleLoginSalt(w, m)
      BY Zenon, <1>5 DEF OnReadyRead, HandleBinaryMessage, HandleStandardMessage, WithTimer
    <2> HIDE DEF w
    <2> QED BY Zenon, <1>4, <1>5, <2>1, ClientGetsSalt
  <1>6. CASE m.type = "Result" /\ m.ref = y.c.loginRef
    <2>1. z = HandleUserLoginResult(w, m)
      <3>1. z = HandleResultMessage(w, m)
        BY Zenon, <1>6 DEF OnReadyRead, HandleBinaryMessage, HandleStandardMessage, WithTimer
      <3> HIDE DEF w
      <3> QED BY Zenon, <1>4, <1>6, <3>1 DEF HandleResultMessage
    <2> HIDE DEF w
    <2> QED BY Zenon, <1>4, <1>6, <2>1, ClientGetsResult
  <1>7. CASE m.type \notin {"Header", "LoginSalt"} /\ (m.type = "Result" => m.ref # y.c.loginRef)
    <2> DEFINE concern == [requests |-> {m.ref}, questions |-> {m.kind},
                           accounts |-> {y.c.accountRef}]
    <2>1. m.ref \in concern.requests /\ m.kind \in concern.questions
          /\ y.c.accountRef \in concern.accounts
      OBVIOUS
    <2> HIDE DEF concern
    <2>2. Talks(y, z, concern)
      BY Zenon, <1>1, <1>2, <1>7, <2>1, TalksReading
    <2>3. ~ OfLogin(m, y.c.loginRef)
      BY <1>1, <1>7 DEF OfLogin, DownMessage
    <2>4. Consistent(y.c, s, users, y.out, Tail(ds))
      BY Zenon, <2>3, ClientTypes, DownRead
    <2> QED BY Zenon, <2>2, <2>4, ClientTalks
  <1> QED BY Zenon, <1>3, <1>5, <1>6, <1>7

-----------------------------------------------------------------------------
(* The steps of the whole system.                                          *)

LEMMA SideTypes ==
    ASSUME SessionTypeOK
    PROVE  /\ ServerSide \in ServerSides /\ ClientSide \in ClientSides
           /\ ServerSide.s = server /\ ServerSide.users = world.users
           /\ ServerSide.out = down /\ ClientSide.c = client /\ ClientSide.out = up
  <1>1. world.topics \in [Topics -> Nat] /\ world.users \in SUBSET Users
        /\ world.salts \in Nat
    BY Zenon DEF SessionTypeOK
  <1> QED BY <1>1 DEF SessionTypeOK, ServerSide, ClientSide, ServerSides, ClientSides

LEMMA InvOfSides ==
    ASSUME SessionInv
    PROVE  /\ Consistent(ClientSide.c, ServerSide.s, ServerSide.users, ClientSide.out,
                         ServerSide.out)
           /\ RefsOK(ClientSide.c)
  BY Zenon, SideTypes DEF SessionInv, Consistent, ReferencesOK

LEMMA ServerStep ==
    ASSUME SessionTypeOK, NEW x \in ServerSides, ServerBecomes(x),
           client' \in ClientEnds, up' \in Seq(UpMessage),
           Consistent(client', x.s, x.users, up', x.out)
    PROVE  SessionInv'
  <1>1. /\ x.s \in ServerEnds /\ x.w \in [Topics -> Nat] /\ x.users \in SUBSET Users
        /\ x.salts \in Nat /\ x.out \in Seq(DownMessage)
    BY Zenon DEF ServerSides
  <1>2. /\ server' \in ServerEnds /\ down' \in Seq(DownMessage)
        /\ world' \in [topics : [Topics -> Nat], users : SUBSET Users, salts : Nat]
        /\ world'.users = x.users
    BY <1>1 DEF ServerBecomes
  <1>3. Consistent(client', server', world'.users, up', down')
    BY Zenon, <1>2 DEF ServerBecomes
  <1> QED BY Zenon, <1>2, <1>3 DEF SessionInv, SessionTypeOK

LEMMA ClientStep ==
    ASSUME SessionTypeOK, NEW y \in ClientSides, ClientBecomes(y),
           UNCHANGED <<server, world>>, down' \in Seq(DownMessage),
           Consistent(y.c, server, world.users, y.out, down')
    PROVE  SessionInv'
  <1>1. y.c \in ClientEnds /\ y.out \in Seq(UpMessage)
    BY Zenon, ClientTypes
  <1>2. Consistent(client', server', world'.users, up', down')
    BY Zenon DEF ClientBecomes
  <1> QED BY Zenon, <1>1, <1>2 DEF SessionInv, SessionTypeOK, ClientBecomes

(* A step of the server, or of the client, that leaves the other end and    *)
(* what is on its way from it alone.                                       *)
Serving(concern) ==
    \E x : /\ Serves(ServerSide, x, concern) /\ ServerBecomes(x)
           /\ UNCHANGED <<client, up, subscription>>

Talking(concern) ==
    \E y : /\ Talks(ClientSide, y, concern) /\ ClientBecomes(y)
           /\ UNCHANGED <<server, world, down, subscription>>

LEMMA SessionInvServing ==
    ASSUME SessionInv, NEW concern, concern.requests \subseteq OtherRefs(client),
           Serving(concern)
    PROVE  SessionInv'
  <1>0. PICK x : /\ Serves(ServerSide, x, concern) /\ ServerBecomes(x)
                 /\ UNCHANGED <<client, up, subscription>>
    BY Zenon DEF Serving
  <1>1. SessionTypeOK
    BY Zenon DEF SessionInv
  <1>2. x \in ServerSides
    BY Zenon, <1>0, ServesTyped
  <1>3. client \in ClientEnds /\ up \in Seq(UpMessage)
    BY Zenon, <1>1 DEF SessionTypeOK
  <1>4. Consistent(client, x.s, x.users, up, x.out)
    <2> DEFINE v == ServerSide
    <2>1. v \in ServerSides /\ Serves(v, x, concern) /\ Consistent(client, v.s, v.users, up, v.out)
      BY Zenon, <1>0, <1>1, SideTypes, InvOfSides
    <2> HIDE DEF v
    <2>2. concern.requests \subseteq OtherRefs(client)
      OBVIOUS
    <2> QED BY Zenon, <1>3, <2>1, <2>2, ServerServes
  <1> QED BY Zenon, <1>0, <1>1, <1>2, <1>3, <1>4, ServerStep

LEMMA SessionInvTalking ==
    ASSUME SessionInv, NEW concern, Talking(concern)
    PROVE  SessionInv'
  <1>0. PICK y : /\ Talks(ClientSide, y, concern) /\ ClientBecomes(y)
                 /\ UNCHANGED <<server, world, down, subscription>>
    BY Zenon DEF Talking
  <1>1. SessionTypeOK
    BY Zenon DEF SessionInv
  <1>2. down \in Seq(DownMessage)
    BY Zenon, <1>1 DEF SessionTypeOK
  <1>3. y \in ClientSides /\ Consistent(y.c, server, world.users, y.out, down)
    <2> DEFINE v == ClientSide
               users == world.users
    <2>1. v \in ClientSides /\ Talks(v, y, concern) /\ Consistent(v.c, server, users, v.out, down)
      BY Zenon, <1>0, <1>1, SideTypes, InvOfSides
    <2> HIDE DEF v, users
    <2>2. y \in ClientSides /\ Consistent(y.c, server, users, y.out, down)
      BY Zenon, <2>1, ClientTalks
    <2> QED BY Zenon, <2>2 DEF users
  <1> QED BY Zenon, <1>0, <1>1, <1>2, <1>3, ClientStep

LEMMA SessionInvInit ==
    ASSUME Init
    PROVE  SessionInv
  <1>0. /\ client = NewClientEnd /\ server = NewServerEnd /\ up = << >> /\ down = << >>
        /\ world \in [topics : [Topics -> Nat], users : SUBSET Users, salts : Nat]
    <2>1. FirstUsers \in SUBSET Users
      BY ServerEndConstants
    <2>2. PICK d \in {0, 1} :
             world.topics = [t \in Topics |-> IF t = "delayed" THEN d ELSE 0]
      BY DEF Init
    <2>3. world.topics \in [Topics -> Nat]
      BY <2>2
    <2> QED BY <2>1, <2>3 DEF Init
  <1>1. NewClientEnd \in ClientEnds
    <2>1. NothingKnown \in [Topics -> Int]
      BY DEF NothingKnown, Unknown
    <2> QED BY <2>1 DEF NewClientEnd, ClientEnds, Names, NoRef
  <1>2. SessionTypeOK
    BY <1>0, <1>1, NewServerEndTyped DEF SessionTypeOK
  <1>3. /\ client.state = "NotConnected" /\ client.nextRef = 1 /\ client.loginRef = 0
        /\ client.accountRef = 0 /\ client.loggingIn = Nobody /\ client.registering = Nobody
        /\ client.loggedIn = Nobody
    BY <1>0 DEF NewClientEnd, NoRef
  <1>4. ~ server.open /\ server.tasks = {} /\ server.loggedIn = Nobody
    BY <1>0 DEF NewServerEnd
  <1>5. Len(up) = 0 /\ Len(down) = 0
    BY <1>0
  <1>6. /\ NoLogin(up, client.loginRef) /\ NoLogin(down, client.loginRef)
        /\ NoHeader(down) /\ ResultsOK(client, server, down)
        /\ \A i \in 1..Len(up) : UpOK(up[i], client)
    BY <1>5 DEF NoLogin, NoHeader, ResultsOK
  <1>7. RefsOK(client)
    BY <1>3 DEF RefsOK
  <1>8. Consistent(client, server, world.users, up, down)
    BY Zenon, <1>3, <1>4, <1>6, <1>7
       DEF Consistent, ReferencesOK, TasksOK, LoggedInOK, BinaryOK, BeforeTheConnection,
           LoginPhases
  <1> QED BY <1>2, <1>8 DEF SessionInv

(* The end of the server, and the start of the connection at it.           *)
LEMMA SessionInvAccept ==
    ASSUME SessionInv, Accept
    PROVE  SessionInv'
  <1>0. SessionTypeOK
    BY Zenon DEF SessionInv
  <1>1. /\ ServerSide \in ServerSides /\ ServerSide.s = server
        /\ ServerSide.users = world.users /\ ServerSide.out = down
        /\ client \in ClientEnds /\ up \in Seq(UpMessage)
        /\ Consistent(client, server, world.users, up, down)
    BY Zenon, <1>0, SideTypes DEF SessionTypeOK, SessionInv
  <1> DEFINE v == ServerSide
             x == NewConnection(v)
             d == [client EXCEPT !.state = "Handshake"]
  <1>2. /\ v \in ServerSides /\ client.state = "Connecting"
        /\ Consistent(client, v.s, v.users, up, v.out)
    BY Zenon, <1>1 DEF Accept
  <1>3. ServerBecomes(x) /\ client' = d /\ up' = up
    BY Zenon DEF Accept
  <1> HIDE DEF v
  <1>4. d \in ClientEnds /\ x \in ServerSides /\ Consistent(d, x.s, x.users, up, x.out)
    BY Zenon, <1>1, <1>2, ServerAccepts
  <1> HIDE DEF x, d
  <1> QED BY Zenon, <1>0, <1>1, <1>3, <1>4, ServerStep

LEMMA SessionInvTerminating ==
    ASSUME SessionInv, ServerShutdown \/ SocketDisconnected
    PROVE  SessionInv'
  <1>0. SessionTypeOK
    BY Zenon DEF SessionInv
  <1>1. /\ ServerSide \in ServerSides /\ ServerSide.s = server
        /\ ServerSide.users = world.users /\ ServerSide.out = down
        /\ client \in ClientEnds /\ up \in Seq(UpMessage)
        /\ Consistent(client, server, world.users, up, down)
    BY Zenon, <1>0, SideTypes DEF SessionTypeOK, SessionInv
  <1> DEFINE v == ServerSide
             x == TerminateConnection(v)
  <1>2. v \in ServerSides /\ Consistent(client, v.s, v.users, up, v.out)
    BY Zenon, <1>1
  <1>3. ServerBecomes(x) /\ client' = client /\ up' = up
    BY Zenon DEF ServerShutdown, SocketDisconnected
  <1> HIDE DEF v
  <1>4. x \in ServerSides /\ Consistent(client, x.s, x.users, up, x.out)
    BY Zenon, <1>1, <1>2, ServerTerminates
  <1> HIDE DEF x
  <1> QED BY Zenon, <1>0, <1>1, <1>3, <1>4, ServerStep

LEMMA SessionInvReading ==
    ASSUME SessionInv, ServerReads \/ ClientReads
    PROVE  SessionInv'
  <1>0. SessionTypeOK
    BY Zenon DEF SessionInv
  <1>1. /\ ServerSide \in ServerSides /\ ClientSide \in ClientSides
        /\ ServerSide.s = server /\ ServerSide.users = world.users
        /\ ServerSide.out = down /\ ClientSide.c = client /\ ClientSide.out = up
        /\ client \in ClientEnds /\ up \in Seq(UpMessage) /\ down \in Seq(DownMessage)
    BY Zenon, <1>0, SideTypes DEF SessionTypeOK
  <1>2. Consistent(client, server, world.users, up, down) /\ RefsOK(client)
    BY Zenon, <1>1, InvOfSides
  <1>3. CASE ServerReads
    <2> DEFINE v == ServerSide
               x == DataArrived(v, Head(up))
    <2>1. /\ v \in ServerSides /\ v.s.open /\ up # << >>
          /\ Consistent(client, v.s, v.users, up, v.out)
      BY Zenon, <1>1, <1>2, <1>3 DEF ServerReads
    <2>2. ServerBecomes(x) /\ client' = client /\ up' = Tail(up)
      BY Zenon, <1>3 DEF ServerReads
    <2> HIDE DEF v
    <2>3. x \in ServerSides /\ Consistent(client, x.s, x.users, Tail(up), x.out)
      BY Zenon, <1>1, <2>1, ServerReadsOK
    <2>4. Tail(up) \in Seq(UpMessage)
      BY <1>1, <2>1, TailOfList
    <2> HIDE DEF x
    <2> QED BY Zenon, <1>0, <1>1, <2>2, <2>3, <2>4, ServerStep
  <1>4. CASE ClientReads
    <2> DEFINE v == ClientSide
               users == world.users
               y == OnReadyRead(v, Head(down), subscription)
    <2>1. /\ v \in ClientSides /\ down # << >>
          /\ v.c.state \notin {"NotConnected", "Connecting", "Closed"}
          /\ Consistent(v.c, server, users, v.out, down)
      BY Zenon, <1>1, <1>2, <1>4 DEF ClientReads
    <2>2. ClientBecomes(y) /\ UNCHANGED <<server, world>> /\ down' = Tail(down)
      BY Zenon, <1>4 DEF ClientReads
    <2> HIDE DEF v, users
    <2>3. y \in ClientSides /\ Consistent(y.c, server, users, y.out, Tail(down))
      BY Zenon, <1>1, <2>1, ClientReadsOK
    <2>4. Tail(down) \in Seq(DownMessage)
      BY <1>1, <2>1, TailOfList
    <2> HIDE DEF y
    <2> QED BY Zenon, <1>0, <1>1, <2>2, <2>3, <2>4, ClientStep DEF users
  <1> QED BY Zenon, <1>3, <1>4

(* The server's own work, and others: about no request.                    *)
LEMMA OthersServing ==
    ASSUME SessionTypeOK,
           \/ PlayerStateTimer \/ DelayedStartTimer
           \/ \E t \in SharedTopics : OthersChange(t)
           \/ \E user \in Users : OtherUserRegisters(user)
    PROVE  Serving(Nothing)
  <1>1. ServerSide \in ServerSides /\ ServerSide.s = server
    BY Zenon, SideTypes
  <1> DEFINE v == ServerSide
             none == Nothing
  <1>3. v \in ServerSides
    BY Zenon, <1>1
  <1> HIDE DEF none
  <1>4. CASE PlayerStateTimer
    <2> DEFINE x == SendStateInfoAfterTimeout(v)
    <2>1. Serves(v, x, none)
      BY Zenon, <1>3, ServesTimeout
    <2> QED BY Zenon, <1>4, <2>1 DEF PlayerStateTimer, Serving, none
  <1>5. CASE DelayedStartTimer
    <2> DEFINE x == DoStart(v)
    <2>1. Serves(v, x, none)
      BY Zenon, <1>3, ServesStart
    <2> QED BY Zenon, <1>5, <2>1 DEF DelayedStartTimer, Serving, none
  <1>7. CASE \E t \in SharedTopics : OthersChange(t)
    <2>1. PICK t \in SharedTopics : OthersChange(t)
      BY Zenon, <1>7
    <2> DEFINE x == IF t = "player" THEN StartPlaying(v) ELSE Change(v, t)
    <2>2. t \in Topics
      BY Zenon, SessionConstants
    <2>3. Serves(v, x, none)
      BY Zenon, <1>3, <2>2, ServesChange, ServesPlaying
    <2> QED BY Zenon, <2>1, <2>3 DEF OthersChange, Serving, none
  <1>8. CASE \E user \in Users : OtherUserRegisters(user)
    <2>1. PICK user \in Users : OtherUserRegisters(user)
      BY Zenon, <1>8
    <2> DEFINE users == world.users \cup {user}
               x == [s |-> server, w |-> world.topics, users |-> users,
                     salts |-> world.salts, out |-> down]
    <2>2. users \in SUBSET Users /\ world.users \subseteq users
      BY DEF SessionTypeOK
    <2>3. world' = [topics |-> world.topics, users |-> users, salts |-> world.salts]
      BY <2>1 DEF SessionTypeOK, OtherUserRegisters
    <2> HIDE DEF users
    <2>4. x \in ServerSides
      BY <2>2 DEF SessionTypeOK, ServerSides
    <2>5. /\ x.s = server /\ x.w = world.topics /\ x.users = users
          /\ x.salts = world.salts /\ x.out = down
      OBVIOUS
    <2> HIDE DEF x
    <2>6. SameLogin(v.s, x.s) /\ OthersStay(v.s.tasks, x.s.tasks, none.requests)
      BY Zenon, <1>1, <2>5 DEF SameLogin, OthersStay
    <2>7. v.users \subseteq x.users /\ x.out = v.out
      BY Zenon, <2>2, <2>5, SideTypes
    <2>8. Serves(v, x, none)
      BY Zenon, <1>3, <2>4, <2>6, <2>7, ServesSilently
    <2>9. ServerBecomes(x)
      BY Zenon, <2>1, <2>3, <2>5 DEF ServerBecomes, OtherUserRegisters
    <2> QED BY Zenon, <2>1, <2>8, <2>9 DEF OtherUserRegisters, Serving, none
  <1> QED BY Zenon, <1>4, <1>5, <1>7, <1>8

(* Work that was put off: about its request.                               *)
LEMMA TaskServing ==
    ASSUME SessionTypeOK, NEW task \in server.tasks, RunTask(task)
    PROVE  Serving(About(task.ref))
  <1> DEFINE v == ServerSide
             x == FinishTask(v, task)
             concern == About(task.ref)
  <1>1. v \in ServerSides /\ task \in v.s.tasks
    BY Zenon, SideTypes
  <1>2. task.ref \in concern.requests
    BY DEF About
  <1> HIDE DEF v, concern
  <1>3. Serves(v, x, concern)
    BY Zenon, <1>1, <1>2, ServesTask
  <1> QED BY Zenon, <1>3 DEF RunTask, Serving, v, concern

LEMMA SessionInvTask ==
    ASSUME SessionInv, NEW task \in server.tasks, RunTask(task)
    PROVE  SessionInv'
  <1> DEFINE concern == About(task.ref)
  <1>1. task.ref \in OtherRefs(client)
    BY Zenon DEF SessionInv, Consistent, ReferencesOK, TasksOK
  <1>2. concern.requests \subseteq OtherRefs(client)
    BY <1>1 DEF About
  <1>3. Serving(concern)
    BY Zenon, TaskServing DEF SessionInv
  <1> HIDE DEF concern
  <1> QED BY Zenon, <1>2, <1>3, SessionInvServing

LEMMA SessionInvOthers ==
    ASSUME SessionInv, Serving(Nothing)
    PROVE  SessionInv'
  <1> DEFINE concern == Nothing
  <1>1. concern.requests \subseteq OtherRefs(client)
    BY DEF Nothing
  <1> HIDE DEF concern
  <1> QED BY Zenon, <1>1, SessionInvServing DEF concern

LEMMA SessionInvOfNoMessage ==
    ASSUME SessionInv, UNCHANGED <<client, server, world, up, down>>
    PROVE  SessionInv'
  <1>1. SessionTypeOK'
    BY Zenon DEF SessionInv, SessionTypeOK
  <1>2. Consistent(client', server', world'.users, up', down')
    BY Zenon DEF SessionInv
  <1> QED BY Zenon, <1>1, <1>2 DEF SessionInv

(* The start and the end of the connection at the client.                  *)
LEMMA ConnectingTalks ==
    ASSUME SessionInv, ConnectToHost
    PROVE  Talking(Nothing)
  <1>1. /\ ClientSide.c = client /\ ClientSide.out = up
        /\ client \in ClientEnds /\ up \in Seq(UpMessage) /\ RefsOK(client)
    BY Zenon, SideTypes DEF SessionInv, SessionTypeOK, Consistent, ReferencesOK
  <1> DEFINE c == [client EXCEPT !.state = "Connecting"]
             y == [c |-> c, out |-> up]
  <1>2. /\ c \in ClientEnds /\ KeepsLogin(client, c) /\ c.nextRef = client.nextRef
        /\ c.accountRef = client.accountRef /\ c.registering = client.registering
        /\ c.state = "Connecting"
        /\ c.handlers = client.handlers /\ c.promises = client.promises
    BY Zenon, <1>1 DEF ClientEnds, KeepsLogin
  <1> HIDE DEF c
  <1>3. y \in ClientSides /\ y.c = c /\ y.out = up
    BY <1>1, <1>2 DEF ClientSides
  <1> HIDE DEF y
  <1>4. ClientBecomes(y)
    BY Zenon, <1>3 DEF ConnectToHost, ClientBecomes, c
  <1>5. RefsOK(c)
    BY Zenon, <1>1, <1>2 DEF RefsOK, OtherRefs, UsedRefs, KeepsLogin
  <1>6. StaysOut(client, c) /\ c.state # "BinaryMode"
    BY <1>2 DEF ConnectToHost, StaysOut
  <1>7. client.nextRef \in Nat
    BY Zenon, <1>1 DEF ClientEnds
  <1>8. client.nextRef <= c.nextRef
    BY <1>2, <1>7
  <1>9. Grown(up, up, PlainUp(c, Nothing))
    BY Zenon, <1>1, GrownSame
  <1>10. KeepsOthers(client, c, Nothing)
    BY Zenon, <1>2 DEF KeepsOthers, OthersStay
  <1>11. Talks(ClientSide, y, Nothing)
    BY Zenon, <1>1, <1>2, <1>3, <1>5, <1>6, <1>8, <1>9, <1>10 DEF Talks
  <1> QED BY Zenon, <1>4, <1>11 DEF ConnectToHost, Talking

LEMMA EndingTalks ==
    ASSUME SessionInv, OnSocketError \/ Disconnect \/ KeepAliveTimeout \/ ReplyTimeout
    PROVE  Talking(Nothing)
  <1> DEFINE v == ClientSide
  <1>1. v \in ClientSides /\ RefsOK(v.c)
    BY Zenon, SideTypes, InvOfSides DEF SessionInv
  <1>2. /\ Talks(v, BreakConnection(v), Nothing)
        /\ Talks(v, OnKeepAliveTimerTimeout(v), Nothing)
        /\ Talks(v, CheckKeepAliveReply(v), Nothing)
    BY Zenon, <1>1, TalksBreaking, TalksOfTimers
  <1>3. CASE OnSocketError
    BY Zenon, <1>2, <1>3 DEF OnSocketError, Talking
  <1>4. CASE Disconnect
    BY Zenon, <1>2, <1>4 DEF Disconnect, Talking
  <1>5. CASE KeepAliveTimeout
    BY Zenon, <1>2, <1>5 DEF KeepAliveTimeout, Talking
  <1>6. CASE ReplyTimeout
    BY Zenon, <1>2, <1>6 DEF ReplyTimeout, Talking
  <1> QED BY Zenon, <1>3, <1>4, <1>5, <1>6

(* The user of the client: commands, requests, questions, accounts.        *)
LEMMA UserTalks ==
    ASSUME NEW concern, NEW y, Talks(ClientSide, y, concern), UserDoes(y)
    PROVE  Talking(concern)
  BY Zenon DEF UserDoes, Talking

LEMMA CommandsTalk ==
    ASSUME SessionInv,
           \/ \E t \in OwnTopics : GiveCommand(t)
           \/ SwitchScrobbling \/ OpenScrobblingDialog \/ ShutdownByClient
    PROVE  Talking(Nothing)
  <1> DEFINE v == ClientSide
  <1>1. v \in ClientSides /\ RefsOK(v.c)
    BY Zenon, SideTypes, InvOfSides DEF SessionInv
  <1>2. CASE \E t \in OwnTopics : GiveCommand(t)
    <2>1. PICK t \in OwnTopics : GiveCommand(t)
      BY Zenon, <1>2
    <2>2. t \in Topics
      BY Zenon, SessionConstants
    <2>3. Talks(v, SendBinary(v, CommandFor(t)), Nothing)
      BY Zenon, <1>1, <2>2, TalksPlainly
    <2> QED BY Zenon, <2>1, <2>3, UserTalks DEF GiveCommand
  <1>3. /\ Talks(v, SetScrobblingEnabled(v), Nothing)
        /\ Talks(v, RequestScrobblingProviderInfo(v), Nothing)
        /\ Talks(v, SendBinary(v, [type |-> "Shutdown"]), Nothing)
    BY Zenon, <1>1, TalksPlainly
  <1> QED BY Zenon, <1>2, <1>3, UserTalks
          DEF SwitchScrobbling, OpenScrobblingDialog, ShutdownByClient

LEMMA UserRequests ==
    ASSUME SessionInv,
           \/ \E possible \in BOOLEAN : Insert(possible)
           \/ \E kind \in RequestKinds \ {"insert"} : MakeRequest(kind)
           \/ Authenticate
    PROVE  \/ \E kind \in Kinds, possible \in BOOLEAN :
                 UserDoes(SendRequest(ClientSide, kind, possible))
           \/ Talking(Nothing)
  <1> DEFINE v == ClientSide
  <1>1. v \in ClientSides /\ RefsOK(v.c)
    BY Zenon, SideTypes, InvOfSides DEF SessionInv
  <1>2. CASE \E possible \in BOOLEAN : Insert(possible)
    <2>1. "insert" \in Kinds
      BY DEF Kinds
    <2> QED BY Zenon, <1>2, <2>1 DEF Insert, SendInsertionRequest
  <1>3. CASE \E kind \in RequestKinds \ {"insert"} : MakeRequest(kind)
    <2>1. PICK kind \in RequestKinds \ {"insert"} : MakeRequest(kind)
      BY Zenon, <1>3
    <2>2. kind \in Kinds /\ TRUE \in BOOLEAN
      BY SessionConstants DEF Kinds
    <2>3. (CASE kind \in {"hash info", "history"} -> SendHashRequest(v, kind)
             [] kind = "collection" -> SendCollectionFetchRequest(v)
             [] OTHER -> SendActionRequest(v, kind)) = SendRequest(v, kind, TRUE)
      BY Zenon DEF SendHashRequest, SendCollectionFetchRequest, SendActionRequest
    <2> QED BY Zenon, <2>1, <2>2, <2>3 DEF MakeRequest
  <1>4. CASE Authenticate
    <2>1. "authenticate" \in Kinds /\ TRUE \in BOOLEAN
      BY DEF Kinds
    <2>2. Talks(v, v, Nothing)
      BY Zenon, <1>1, TalksSame
    <2>3. UserDoes(SendRequest(v, "authenticate", TRUE)) \/ UserDoes(v)
      BY Zenon, <1>4 DEF Authenticate, AuthenticateScrobbling
    <2> QED BY Zenon, <2>1, <2>2, <2>3, UserTalks
  <1> QED BY Zenon, <1>2, <1>3, <1>4

LEMMA RequestTalks ==
    ASSUME SessionInv, NEW kind \in Kinds, NEW possible \in BOOLEAN,
           UserDoes(SendRequest(ClientSide, kind, possible))
    PROVE  Talking(About(client.nextRef))
  <1> DEFINE v == ClientSide
             concern == About(client.nextRef)
  <1>1. v \in ClientSides /\ RefsOK(v.c) /\ v.c = client
    BY Zenon, SideTypes, InvOfSides DEF SessionInv
  <1>2. v.c.nextRef \in concern.requests
    BY <1>1 DEF About
  <1> HIDE DEF concern
  <1>3. Talks(v, SendRequest(v, kind, possible), concern)
    BY Zenon, <1>1, <1>2, TalksRequest
  <1>4. Talking(concern)
    BY Zenon, <1>3, UserTalks
  <1> QED BY Zenon, <1>4 DEF concern

LEMMA AccountTalks ==
    ASSUME SessionInv, NEW user \in Users, Register(user)
    PROVE  Talking(AboutAccount(client.nextRef))
  <1> DEFINE v == ClientSide
             concern == AboutAccount(client.nextRef)
  <1>1. v \in ClientSides /\ RefsOK(v.c) /\ v.c = client
    BY Zenon, SideTypes, InvOfSides DEF SessionInv
  <1>2. v.c.nextRef \in concern.accounts
    BY <1>1 DEF AboutAccount
  <1> HIDE DEF concern
  <1>3. Talks(v, CreateNewUserAccount(v, user), concern)
    BY Zenon, <1>1, <1>2, TalksAboutAccounts
  <1>4. Talking(concern)
    BY Zenon, <1>3, UserTalks DEF Register
  <1> QED BY Zenon, <1>4 DEF concern

LEMMA QuestionTalks ==
    ASSUME SessionInv, NEW kind \in Questions, AskFor(kind)
    PROVE  Talking(AboutQuestion(kind))
  <1> DEFINE v == ClientSide
             concern == AboutQuestion(kind)
  <1>1. v \in ClientSides /\ RefsOK(v.c)
    BY Zenon, SideTypes, InvOfSides DEF SessionInv
  <1>2. kind \in concern.questions
    BY DEF AboutQuestion
  <1> HIDE DEF concern
  <1>3. Talks(v, AskOnce(v, kind), concern)
    BY Zenon, <1>1, <1>2, TalksOnce
  <1>4. Talking(concern)
    BY Zenon, <1>3, UserTalks DEF AskFor
  <1> QED BY Zenon, <1>4 DEF concern

LEMMA SessionInvLogin ==
    ASSUME SessionInv, NEW user \in Users, NEW right \in BOOLEAN, LoginAs(user, right)
    PROVE  SessionInv'
  <1>0. SessionTypeOK
    BY Zenon DEF SessionInv
  <1> DEFINE v == ClientSide
             users == world.users
             y == Login(v, user, right)
  <1>1. v \in ClientSides /\ v.c = client /\ Consistent(v.c, server, users, v.out, down)
    BY Zenon, <1>0, SideTypes, InvOfSides
  <1>2. v.c.state = "BinaryMode" /\ v.c.loggedIn = Nobody
    BY Zenon, <1>1 DEF LoginAs, UserDoes, IsConnected
  <1>3. ClientBecomes(y) /\ UNCHANGED <<server, world, down>>
    BY Zenon DEF LoginAs, UserDoes
  <1>4. down \in Seq(DownMessage)
    BY Zenon, <1>0 DEF SessionTypeOK
  <1> HIDE DEF v, users
  <1>5. y \in ClientSides /\ Consistent(y.c, server, users, y.out, down)
    BY Zenon, <1>1, <1>2, <1>4, ClientLogsIn
  <1> HIDE DEF y
  <1>6. down' = down
    BY Zenon, <1>3
  <1> QED BY Zenon, <1>0, <1>3, <1>4, <1>5, <1>6, ClientStep DEF users

LEMMA SessionInvOfUser ==
    ASSUME SessionInv, User
    PROVE  SessionInv'
  <1>2. CASE \E user \in Users, right \in BOOLEAN : LoginAs(user, right)
    BY Zenon, <1>2, SessionInvLogin
  <1>3. CASE \E user \in Users : Register(user)
    BY Zenon, <1>3, AccountTalks, SessionInvTalking
  <1>4. CASE \/ \E t \in OwnTopics : GiveCommand(t)
             \/ SwitchScrobbling \/ OpenScrobblingDialog \/ ShutdownByClient
    BY Zenon, <1>4, CommandsTalk, SessionInvTalking
  <1>5. CASE \/ \E possible \in BOOLEAN : Insert(possible)
             \/ \E kind \in RequestKinds \ {"insert"} : MakeRequest(kind)
             \/ Authenticate
    BY Zenon, <1>5, UserRequests, RequestTalks, SessionInvTalking
  <1>6. CASE \E kind \in {"users", "version"} : AskFor(kind)
    BY Zenon, <1>6, QuestionTalks, SessionInvTalking DEF Questions
  <1>7. CASE Disconnect
    BY Zenon, <1>7, EndingTalks, SessionInvTalking
  <1> QED BY Zenon, <1>2, <1>3, <1>4, <1>5, <1>6, <1>7 DEF User

LEMMA SessionInvNext ==
    ASSUME SessionInv, [Next]_vars
    PROVE  SessionInv'
  <1>0. SessionTypeOK
    BY Zenon DEF SessionInv
  <1>1. CASE UNCHANGED vars
    BY Zenon, <1>1, SessionInvOfNoMessage DEF vars
  <1>2. CASE Accept \/ SocketDisconnected
    BY Zenon, <1>2, SessionInvAccept, SessionInvTerminating
  <1>3. CASE ConnectToHost \/ OnSocketError
    BY Zenon, <1>3, ConnectingTalks, EndingTalks, SessionInvTalking
  <1>4. CASE ServerReads \/ ClientReads
    BY Zenon, <1>4, SessionInvReading
  <1>5. CASE Timers
    BY Zenon, <1>0, <1>5, OthersServing, SessionInvOthers, EndingTalks, SessionInvTalking
       DEF Timers
  <1>6. CASE \E task \in server.tasks : RunTask(task)
    BY Zenon, <1>6, SessionInvTask
  <1>7. CASE Others
    <2>1. CASE ServerShutdown
      BY Zenon, <2>1, SessionInvTerminating
    <2>2. CASE NetworkFallsSilent
      BY Zenon, <2>2, SessionInvOfNoMessage DEF NetworkFallsSilent
    <2>3. CASE ~ ServerShutdown /\ ~ NetworkFallsSilent
      BY Zenon, <1>0, <1>7, <2>3, OthersServing, SessionInvOthers DEF Others
    <2> QED BY Zenon, <2>1, <2>2, <2>3
  <1>8. CASE User
    BY Zenon, <1>8, SessionInvOfUser
  <1> QED BY Zenon, <1>1, <1>2, <1>3, <1>4, <1>5, <1>6, <1>7, <1>8 DEF Next

(* Where nothing is on its way, no login is.                               *)
LEMMA LoginIsMutualInPhases ==
    ASSUME SessionInv
    PROVE  LoginIsMutual
  <1> SUFFICES ASSUME BothOpen
               PROVE  /\ client.loggedIn # Nobody => server.loggedIn = client.loggedIn
                      /\ Quiet /\ ~ client.overtaken =>
                            /\ client.loggedIn = server.loggedIn
                            /\ client.loggingIn = Nobody /\ server.loggingIn = Nobody
    BY Zenon DEF LoginIsMutual
  <1>1. server.open /\ LoggedInOK(client, server)
    BY Zenon DEF BothOpen, SessionInv, Consistent
  <1>2. client.loggedIn # Nobody => server.loggedIn = client.loggedIn
    BY Zenon, <1>1 DEF LoggedInOK
  <1>3. ASSUME Quiet, ~ client.overtaken
        PROVE  NoneUnderWay(client, server, up, down)
    <2>1. Phases(client, server, world.users, up, down)
      BY Zenon, <1>1, <1>3 DEF SessionInv, Consistent, LoginPhases
    <2>2. Len(up) = 0 /\ Len(down) = 0
      BY <1>3 DEF Quiet
    <2>3. \A ref, m : ~ OneLogin(up, ref, m) /\ ~ OneLogin(down, ref, m)
      BY <2>2 DEF OneLogin
    <2> QED BY Zenon, <2>1, <2>3 DEF Phases, Initiated, Salted, Finishing, Answered
  <1> QED BY Zenon, <1>2, <1>3 DEF NoneUnderWay

-----------------------------------------------------------------------------
(* Requests and their answers.  Lists of messages that hold none or one of *)
(* the messages W.                                                         *)

NoneOf(ms, W) == \A i \in 1..Len(ms) : ms[i] \notin W

OneOf(ms, W) ==
    \E i \in 1..Len(ms) : ms[i] \in W /\ \A j \in 1..Len(ms) : j # i => ms[j] \notin W

Kept(a, b, W) ==
    (NoneOf(a, W) => NoneOf(b, W)) /\ (OneOf(a, W) => OneOf(b, W))

LEMMA KeptGrown ==
    ASSUME NEW M, NEW a \in Seq(M), NEW b \in Seq(M), NEW S, NEW W, Grown(a, b, S),
           \A m \in S : m \notin W
    PROVE  Kept(a, b, W)
  <1>1. ASSUME NoneOf(a, W)
        PROVE  NoneOf(b, W)
    BY <1>1 DEF Grown, NoneOf
  <1>2. ASSUME OneOf(a, W)
        PROVE  OneOf(b, W)
    <2>1. PICK i \in 1..Len(a) : a[i] \in W /\ \A j \in 1..Len(a) : j # i => a[j] \notin W
      BY <1>2 DEF OneOf
    <2>2. i \in 1..Len(b) /\ b[i] \in W
      BY <2>1 DEF Grown
    <2>3. ASSUME NEW j \in 1..Len(b), j # i
          PROVE  b[j] \notin W
      BY <2>1, <2>3 DEF Grown
    <2> QED BY <2>2, <2>3 DEF OneOf
  <1> QED BY <1>1, <1>2 DEF Kept

LEMMA KeptTail ==
    ASSUME NEW M, NEW a \in Seq(M), a # << >>, NEW W, Head(a) \notin W
    PROVE  Kept(a, Tail(a), W)
  <1>1. ASSUME NoneOf(a, W)
        PROVE  NoneOf(Tail(a), W)
    BY <1>1, TailOfList DEF NoneOf
  <1>2. ASSUME OneOf(a, W)
        PROVE  OneOf(Tail(a), W)
    <2>1. PICK i \in 1..Len(a) : a[i] \in W /\ \A j \in 1..Len(a) : j # i => a[j] \notin W
      BY <1>2 DEF OneOf
    <2>2. i # 1
      BY <2>1, TailOfList
    <2>3. i - 1 \in 1..Len(Tail(a)) /\ Tail(a)[i - 1] \in W
      BY <2>1, <2>2, TailOfList
    <2>4. ASSUME NEW j \in 1..Len(Tail(a)), j # i - 1
          PROVE  Tail(a)[j] \notin W
      <3>1. j + 1 \in 1..Len(a) /\ j + 1 # i /\ Tail(a)[j] = a[j + 1]
        BY <2>4, TailOfList
      <3> QED BY <3>1, <2>1
    <2> QED BY <2>3, <2>4 DEF OneOf
  <1> QED BY <1>1, <1>2 DEF Kept

LEMMA OneWasFirst ==
    ASSUME NEW M, NEW a \in Seq(M), a # << >>, NEW W, OneOf(a, W), Head(a) \in W
    PROVE  NoneOf(Tail(a), W)
  <1>1. PICK i \in 1..Len(a) : a[i] \in W /\ \A j \in 1..Len(a) : j # i => a[j] \notin W
    BY DEF OneOf
  <1>2. i = 1
    BY <1>1, TailOfList
  <1>3. ASSUME NEW j \in 1..Len(Tail(a))
        PROVE  Tail(a)[j] \notin W
    <2>1. j + 1 \in 1..Len(a) /\ j + 1 # i /\ Tail(a)[j] = a[j + 1]
      BY <1>2, TailOfList
    <2> QED BY <2>1, <1>1
  <1> QED BY <1>3 DEF NoneOf

LEMMA OneMore ==
    ASSUME NEW M, NEW a \in Seq(M), NEW W, NEW m \in M, NoneOf(a, W), m \in W
    PROVE  OneOf(Append(a, m), W)
  <1> DEFINE b == Append(a, m)
  <1>1. Len(b) \in 1..Len(b) /\ b[Len(b)] = m
    OBVIOUS
  <1>2. ASSUME NEW j \in 1..Len(b), j # Len(b)
        PROVE  b[j] \notin W
    <2>1. j \in 1..Len(a) /\ b[j] = a[j]
      BY <1>2
    <2> QED BY <2>1 DEF NoneOf
  <1> QED BY <1>1, <1>2 DEF OneOf

-----------------------------------------------------------------------------
(* The invariant of requests and questions.  A request that the client     *)
(* waits for is on its way; or the server is at work on it; or its answer  *)
(* is on its way.                                                          *)

RequestsFor(ref) == {m \in UpMessage : m.type = "Request" /\ m.ref = ref}
AnswersTo(ref) == {m \in DownMessage : IsAnswer(m) /\ m.ref = ref}
Asks(kind) == {m \in UpMessage : m.type = "Ask" /\ m.kind = kind}
Infos(kind) == {m \in DownMessage : m.type = "Info" /\ m.kind = kind}

NoTask(tasks, ref) == \A task \in tasks : task.ref # ref

OneTask(tasks, ref) ==
    \E task \in tasks : /\ task.ref = ref
                        /\ \A other \in tasks : other.ref = ref => other = task

Idle(ref, tasks, ds) == NoTask(tasks, ref) /\ NoneOf(ds, AnswersTo(ref))

AtWork(ref, tasks, ds) ==
    \/ NoTask(tasks, ref) /\ OneOf(ds, AnswersTo(ref))
    \/ OneTask(tasks, ref) /\ NoneOf(ds, AnswersTo(ref))

Pending(ref, tasks, us, ds) ==
    \/ OneOf(us, RequestsFor(ref)) /\ Idle(ref, tasks, ds)
    \/ NoneOf(us, RequestsFor(ref)) /\ AtWork(ref, tasks, ds)

(* No login or new account has the reference of a handler h, and its       *)
(* request is of its kind.                                                 *)
Referring == {"Request", "InitiateLogin", "FinishLogin", "InitiateAccount", "FinishAccount"}

KnownUp(h, us) ==
    \A i \in 1..Len(us) :
        us[i].type \in Referring /\ us[i].ref = h.ref =>
            us[i].type = "Request" /\ us[i].kind = h.kind

Awaited(h, wanted) == h.kind # "insert" \/ wanted = "All"

HandlerOK(h, c, s, us, ds, wanted) ==
    /\ h.ref \in OtherRefs(c) /\ h.ref # c.accountRef
    /\ KnownUp(h, us)
    /\ s.open /\ c.state # "Closed" /\ Awaited(h, wanted) =>
          Pending(h.ref, s.tasks, us, ds)

PromiseOK(kind, c, us, ds) ==
    IF kind \in c.promises
    THEN \/ OneOf(us, Asks(kind)) /\ NoneOf(ds, Infos(kind))
         \/ NoneOf(us, Asks(kind)) /\ OneOf(ds, Infos(kind))
    ELSE NoneOf(us, Asks(kind)) /\ NoneOf(ds, Infos(kind))

Alive(c, s) ==
    /\ c.state # "Closed"
    /\ s.open \/ c.state \in {"NotConnected", "Connecting"}

(* All handlers and questions but those that a step is about.              *)
HandlersOK(c, s, us, ds, wanted, concern) ==
    \A h \in c.handlers : h.ref \in concern.requests \/ HandlerOK(h, c, s, us, ds, wanted)

PromisesOK(c, s, us, ds, concern) ==
    Alive(c, s) => \A kind \in Questions : \/ kind \in concern.questions
                                           \/ PromiseOK(kind, c, us, ds)

AnswersOK(c, ds) == \A i \in 1..Len(ds) : IsAnswer(ds[i]) => ds[i].ref \in UsedRefs(c)

Accounted(c, s, us, ds, wanted, concern) ==
    /\ HandlersOK(c, s, us, ds, wanted, concern)
    /\ PromisesOK(c, s, us, ds, concern)
    /\ AnswersOK(c, ds)

(* Nothing is asked before both ends are in binary mode.                   *)
NoRequest(us) == \A i \in 1..Len(us) : us[i].type # "Request"

FreshOK(c, s, us) ==
    /\ c.state \in {"NotConnected", "Connecting"} \/ (s.open /\ ~ s.binary) =>
          c.handlers = {} /\ c.promises = {}
    /\ c.state \in {"NotConnected", "Connecting"} => NoRequest(us)

(* A client that wants all events has asked for them before its requests.  *)
EventsOK(c, s, us, wanted) ==
    wanted = "All" /\ s.open /\ (c.state = "BinaryMode" \/ ~ NoRequest(us)) =>
        \/ s.events
        \/ \E k \in 1..Len(us) : /\ us[k] = Action("all events")
                                 /\ \A i \in 1..k : us[i].type # "Request"

AnswersComing(c, s, us, ds, wanted) ==
    /\ Accounted(c, s, us, ds, wanted, Nothing)
    /\ FreshOK(c, s, us)
    /\ EventsOK(c, s, us, wanted)

AnswersInv == AnswersComing(client, server, up, down, subscription)

LEMMA PendingKept ==
    ASSUME NEW ref, NEW S, NEW T, NEW refs, OthersStay(S, T, refs), ref \notin refs,
           NEW us, NEW vs, NEW ds, NEW es,
           Kept(us, vs, RequestsFor(ref)), Kept(ds, es, AnswersTo(ref)),
           Pending(ref, S, us, ds)
    PROVE  Pending(ref, T, vs, es)
  <1>1. NoTask(S, ref) => NoTask(T, ref)
    BY Zenon DEF NoTask, OthersStay
  <1>2. OneTask(S, ref) => OneTask(T, ref)
    BY Zenon DEF OneTask, OthersStay
  <1> QED BY Zenon, <1>1, <1>2 DEF Pending, Idle, AtWork, Kept

LEMMA PromiseKept ==
    ASSUME NEW kind, NEW c, NEW d, NEW us, NEW vs, NEW ds, NEW es,
           Kept(us, vs, Asks(kind)), Kept(ds, es, Infos(kind)),
           kind \in c.promises <=> kind \in d.promises, PromiseOK(kind, c, us, ds)
    PROVE  PromiseOK(kind, d, vs, es)
  BY Zenon DEF PromiseOK, Kept

-----------------------------------------------------------------------------
(* Steps keep what they are not about.                                     *)

Spares(x, y, concern) ==
    /\ y \in ServerSides
    /\ y.s.open = x.s.open /\ (x.s.binary => y.s.binary) /\ (x.s.events => y.s.events)
    /\ OthersStay(x.s.tasks, y.s.tasks, concern.requests)
    /\ Grown(x.out, y.out, Sparing(concern))

LEMMA ServesSpares ==
    ASSUME NEW x \in ServerSides, NEW y, NEW concern, Serves(x, y, concern)
    PROVE  Spares(x, y, concern)
  <1>1. x.out \in Seq(DownMessage) /\ y.out \in Seq(DownMessage)
    BY Zenon DEF Serves, ServerSides
  <1>2. Harmless(concern) \subseteq Sparing(concern)
    BY DEF Harmless
  <1>3. Grown(x.out, y.out, Sparing(concern))
    <2>1. Grown(x.out, y.out, Harmless(concern))
      BY Zenon DEF Serves
    <2> QED BY Zenon, <1>1, <1>2, <2>1, GrownByMore
  <1> QED BY Zenon, <1>3 DEF Spares, Serves, SameLogin

LEMMA SparesTwice ==
    ASSUME NEW x \in ServerSides, NEW y, NEW z, NEW concern,
           Spares(x, y, concern), Spares(y, z, concern)
    PROVE  Spares(x, z, concern)
  <1>1. x.out \in Seq(DownMessage) /\ y.out \in Seq(DownMessage) /\ z.out \in Seq(DownMessage)
    BY Zenon DEF Spares, ServerSides
  <1>2. Grown(x.out, z.out, Sparing(concern))
    BY <1>1, GrownTwice DEF Spares
  <1>3. OthersStay(x.s.tasks, z.s.tasks, concern.requests)
    BY Zenon DEF Spares, OthersStay
  <1> QED BY Zenon, <1>2, <1>3 DEF Spares

LEMMA AccountedServes ==
    ASSUME NEW c \in ClientEnds, NEW x \in ServerSides, NEW y, NEW us, NEW wanted,
           NEW concern, concern.requests \subseteq UsedRefs(c), Spares(x, y, concern),
           Accounted(c, x.s, us, x.out, wanted, concern)
    PROVE  Accounted(c, y.s, us, y.out, wanted, concern)
  <1>1. x.out \in Seq(DownMessage) /\ y.out \in Seq(DownMessage)
    BY Zenon DEF Spares, ServerSides
  <1>2. /\ y.s.open = x.s.open /\ OthersStay(x.s.tasks, y.s.tasks, concern.requests)
        /\ Grown(x.out, y.out, Sparing(concern))
    BY Zenon DEF Spares
  <1>3. ASSUME NEW ref, ref \notin concern.requests
        PROVE  Kept(x.out, y.out, AnswersTo(ref))
    <2>1. \A m \in Sparing(concern) : m \notin AnswersTo(ref)
      BY Zenon, <1>3 DEF Sparing, AnswersTo
    <2> QED BY Zenon, <1>1, <1>2, <2>1, KeptGrown
  <1>4. ASSUME NEW kind, kind \notin concern.questions
        PROVE  Kept(x.out, y.out, Infos(kind))
    <2>1. \A m \in Sparing(concern) : m \notin Infos(kind)
      BY Zenon, <1>4 DEF Sparing, Infos
    <2> QED BY Zenon, <1>1, <1>2, <2>1, KeptGrown
  <1>5. HandlersOK(c, y.s, us, y.out, wanted, concern)
    <2>1. ASSUME NEW h \in c.handlers, h.ref \notin concern.requests
          PROVE  HandlerOK(h, c, y.s, us, y.out, wanted)
      <3>1. HandlerOK(h, c, x.s, us, x.out, wanted)
        BY Zenon, <2>1 DEF Accounted, HandlersOK
      <3>2. Kept(us, us, RequestsFor(h.ref)) /\ Kept(x.out, y.out, AnswersTo(h.ref))
        BY Zenon, <1>3, <2>1 DEF Kept
      <3>3. ASSUME y.s.open, c.state # "Closed", Awaited(h, wanted)
            PROVE  Pending(h.ref, y.s.tasks, us, y.out)
        <4>1. Pending(h.ref, x.s.tasks, us, x.out)
          BY Zenon, <1>2, <3>1, <3>3 DEF HandlerOK
        <4> QED BY Zenon, <1>2, <2>1, <3>2, <4>1, PendingKept
      <3> QED BY Zenon, <3>1, <3>3 DEF HandlerOK
    <2> QED BY Zenon, <2>1 DEF HandlersOK
  <1>6. PromisesOK(c, y.s, us, y.out, concern)
    <2>1. ASSUME Alive(c, y.s), NEW kind \in Questions, kind \notin concern.questions
          PROVE  PromiseOK(kind, c, us, y.out)
      <3>1. PromiseOK(kind, c, us, x.out)
        BY Zenon, <1>2, <2>1 DEF Accounted, PromisesOK, Alive
      <3>2. Kept(us, us, Asks(kind)) /\ Kept(x.out, y.out, Infos(kind))
        BY Zenon, <1>4, <2>1 DEF Kept
      <3> QED BY Zenon, <3>1, <3>2, PromiseKept
    <2> QED BY Zenon, <2>1 DEF PromisesOK
  <1>7. AnswersOK(c, y.out)
    <2>1. ASSUME NEW i \in 1..Len(y.out), IsAnswer(y.out[i])
          PROVE  y.out[i].ref \in UsedRefs(c)
      <3>1. CASE i \in 1..Len(x.out)
        <4>1. y.out[i] = x.out[i]
          BY Zenon, <1>2, <3>1 DEF Grown
        <4> QED BY Zenon, <2>1, <3>1, <4>1 DEF Accounted, AnswersOK
      <3>2. CASE i \in Len(x.out)+1..Len(y.out)
        <4>1. y.out[i] \in Sparing(concern)
          BY Zenon, <1>2, <3>2 DEF Grown
        <4> QED BY Zenon, <2>1, <4>1 DEF Sparing
      <3>3. i \in 1..Len(x.out) \/ i \in Len(x.out)+1..Len(y.out)
        BY <1>1
      <3> QED BY <3>1, <3>2, <3>3
    <2> QED BY Zenon, <2>1 DEF AnswersOK
  <1> QED BY Zenon, <1>5, <1>6, <1>7 DEF Accounted

Keeps(y, z, concern) ==
    /\ z \in ClientSides
    /\ StaysOut(y.c, z.c) /\ KeepsOthers(y.c, z.c, concern)
    /\ y.c.nextRef <= z.c.nextRef
    /\ z.c.loginRef = y.c.loginRef \/ z.c.loginRef \in concern.accounts
    /\ Grown(y.out, z.out, SparingUp(concern))

LEMMA TalksKeeps ==
    ASSUME NEW y \in ClientSides, NEW z, NEW concern, Talks(y, z, concern)
    PROVE  Keeps(y, z, concern)
  <1>1. y.out \in Seq(UpMessage) /\ z.out \in Seq(UpMessage)
    BY Zenon, TalksTyped, ClientTypes
  <1>2. PlainUp(z.c, concern) \subseteq SparingUp(concern)
    BY DEF PlainUp
  <1>3. Grown(y.out, z.out, SparingUp(concern))
    <2>1. Grown(y.out, z.out, PlainUp(z.c, concern))
      BY Zenon DEF Talks
    <2> QED BY Zenon, <1>1, <1>2, <2>1, GrownByMore
  <1> QED BY Zenon, <1>3 DEF Keeps, Talks, KeepsLogin

LEMMA AccountedTalks ==
    ASSUME NEW y \in ClientSides, NEW z, NEW s, NEW ds, NEW wanted, NEW concern,
           Keeps(y, z, concern), \A h \in y.c.handlers : h.ref \notin concern.accounts,
           Accounted(y.c, s, y.out, ds, wanted, concern)
    PROVE  Accounted(z.c, s, z.out, ds, wanted, concern)
  <1> DEFINE c == y.c
             d == z.c
             us == y.out
             vs == z.out
  <1>1. c \in ClientEnds /\ d \in ClientEnds /\ us \in Seq(UpMessage) /\ vs \in Seq(UpMessage)
    BY Zenon, ClientTypes DEF Keeps
  <1>2. /\ StaysOut(c, d) /\ KeepsOthers(c, d, concern) /\ c.nextRef <= d.nextRef
        /\ d.loginRef = c.loginRef \/ d.loginRef \in concern.accounts
        /\ Grown(us, vs, SparingUp(concern)) /\ Accounted(c, s, us, ds, wanted, concern)
        /\ \A h \in c.handlers : h.ref \notin concern.accounts
    BY Zenon DEF Keeps
  <1> HIDE DEF c, d, us, vs
  <1>3. ASSUME NEW ref, ref \notin concern.requests
        PROVE  Kept(us, vs, RequestsFor(ref))
    <2>1. \A m \in SparingUp(concern) : m \notin RequestsFor(ref)
      BY Zenon, <1>3 DEF SparingUp, RequestsFor
    <2> QED BY Zenon, <1>1, <1>2, <2>1, KeptGrown
  <1>4. ASSUME NEW kind, kind \notin concern.questions
        PROVE  Kept(us, vs, Asks(kind))
    <2>1. \A m \in SparingUp(concern) : m \notin Asks(kind)
      BY Zenon, <1>4 DEF SparingUp, Asks
    <2> QED BY Zenon, <1>1, <1>2, <2>1, KeptGrown
  <1>5. UsedRefs(c) \subseteq UsedRefs(d)
    <2>1. c.nextRef \in Nat /\ d.nextRef \in Nat
      BY Zenon, <1>1 DEF ClientEnds
    <2> QED BY <1>2, <2>1 DEF UsedRefs
  <1>6. HandlersOK(d, s, vs, ds, wanted, concern)
    <2>1. ASSUME NEW h \in d.handlers, h.ref \notin concern.requests
          PROVE  HandlerOK(h, d, s, vs, ds, wanted)
      <3>1. h \in c.handlers
        BY Zenon, <1>2, <2>1 DEF KeepsOthers, OthersStay
      <3>2. HandlerOK(h, c, s, us, ds, wanted) /\ h.ref \notin concern.accounts
        BY Zenon, <1>2, <2>1, <3>1 DEF Accounted, HandlersOK
      <3>3. h.ref \in OtherRefs(d) /\ h.ref # d.accountRef
        BY Zenon, <1>2, <1>5, <3>2 DEF HandlerOK, OtherRefs, KeepsOthers
      <3>4. KnownUp(h, vs)
        <4>1. ASSUME NEW i \in 1..Len(vs), vs[i].type \in Referring, vs[i].ref = h.ref
              PROVE  vs[i].type = "Request" /\ vs[i].kind = h.kind
          <5>1. i \in 1..Len(us) \/ i \in Len(us)+1..Len(vs)
            BY <1>1
          <5>2. CASE i \in Len(us)+1..Len(vs)
            <6>1. vs[i] \in SparingUp(concern)
              BY Zenon, <1>2, <5>2 DEF Grown
            <6> QED BY Zenon, <2>1, <3>2, <4>1, <6>1 DEF SparingUp, Referring
          <5>3. CASE i \in 1..Len(us)
            <6>1. vs[i] = us[i]
              BY Zenon, <1>2, <5>3 DEF Grown
            <6> QED BY Zenon, <3>2, <4>1, <5>3, <6>1 DEF HandlerOK, KnownUp
          <5> QED BY Zenon, <5>1, <5>2, <5>3
        <4> QED BY Zenon, <4>1 DEF KnownUp
      <3>5. ASSUME s.open, d.state # "Closed", Awaited(h, wanted)
            PROVE  Pending(h.ref, s.tasks, vs, ds)
        <4>1. Pending(h.ref, s.tasks, us, ds)
          BY Zenon, <1>2, <3>2, <3>5 DEF HandlerOK, StaysOut
        <4>2. OthersStay(s.tasks, s.tasks, {}) /\ Kept(ds, ds, AnswersTo(h.ref))
          BY Zenon DEF OthersStay, Kept
        <4>3. Kept(us, vs, RequestsFor(h.ref)) /\ h.ref \notin {}
          BY Zenon, <1>3, <2>1
        <4> QED BY Zenon, <4>1, <4>2, <4>3, PendingKept
      <3> QED BY Zenon, <3>3, <3>4, <3>5 DEF HandlerOK
    <2> QED BY Zenon, <2>1 DEF HandlersOK
  <1>7. PromisesOK(d, s, vs, ds, concern)
    <2>1. ASSUME Alive(d, s), NEW kind \in Questions, kind \notin concern.questions
          PROVE  PromiseOK(kind, d, vs, ds)
      <3>1. Alive(c, s)
        BY Zenon, <1>2, <2>1 DEF Alive, StaysOut
      <3>2. PromiseOK(kind, c, us, ds)
        BY Zenon, <1>2, <2>1, <3>1 DEF Accounted, PromisesOK
      <3>3. kind \in c.promises <=> kind \in d.promises
        BY Zenon, <1>2, <2>1 DEF KeepsOthers, Alive
      <3>4. Kept(us, vs, Asks(kind)) /\ Kept(ds, ds, Infos(kind))
        BY Zenon, <1>4, <2>1 DEF Kept
      <3> QED BY Zenon, <3>2, <3>3, <3>4, PromiseKept
    <2> QED BY Zenon, <2>1 DEF PromisesOK
  <1>8. AnswersOK(d, ds)
    BY Zenon, <1>2, <1>5 DEF Accounted, AnswersOK
  <1>9. Accounted(d, s, vs, ds, wanted, concern)
    BY Zenon, <1>6, <1>7, <1>8 DEF Accounted
  <1> QED BY Zenon, <1>9 DEF d, vs

(* A message is read: the step is about the request or the question of it. *)
LEMMA AccountedUp ==
    ASSUME NEW c, NEW s, NEW us \in Seq(UpMessage), us # << >>, NEW ds, NEW wanted,
           NEW concern, Accounted(c, s, us, ds, wanted, Nothing),
           Head(us).type = "Request" => Head(us).ref \in concern.requests,
           Head(us).type = "Ask" => Head(us).kind \in concern.questions
    PROVE  /\ Accounted(c, s, Tail(us), ds, wanted, concern)
           /\ \A h : KnownUp(h, us) => KnownUp(h, Tail(us))
  <1>1. ASSUME NEW ref, ref \notin concern.requests
        PROVE  Kept(us, Tail(us), RequestsFor(ref))
    <2>1. Head(us) \notin RequestsFor(ref)
      BY Zenon, <1>1 DEF RequestsFor
    <2> QED BY Zenon, <2>1, KeptTail
  <1>2. ASSUME NEW kind, kind \notin concern.questions
        PROVE  Kept(us, Tail(us), Asks(kind))
    <2>1. Head(us) \notin Asks(kind)
      BY Zenon, <1>2 DEF Asks
    <2> QED BY Zenon, <2>1, KeptTail
  <1>3. ASSUME NEW h, KnownUp(h, us)
        PROVE  KnownUp(h, Tail(us))
    <2>1. ASSUME NEW i \in 1..Len(Tail(us))
          PROVE  i + 1 \in 1..Len(us) /\ Tail(us)[i] = us[i + 1]
      BY <2>1, TailOfList
    <2> QED BY Zenon, <1>3, <2>1 DEF KnownUp
  <1>4. HandlersOK(c, s, Tail(us), ds, wanted, concern)
    <2>1. ASSUME NEW h \in c.handlers, h.ref \notin concern.requests
          PROVE  HandlerOK(h, c, s, Tail(us), ds, wanted)
      <3>1. HandlerOK(h, c, s, us, ds, wanted)
        BY DEF Accounted, HandlersOK, Nothing
      <3>2. ASSUME s.open, c.state # "Closed", Awaited(h, wanted)
            PROVE  Pending(h.ref, s.tasks, Tail(us), ds)
        <4>1. Pending(h.ref, s.tasks, us, ds)
          BY Zenon, <3>1, <3>2 DEF HandlerOK
        <4>2. OthersStay(s.tasks, s.tasks, {}) /\ Kept(ds, ds, AnswersTo(h.ref))
          BY Zenon DEF OthersStay, Kept
        <4>3. Kept(us, Tail(us), RequestsFor(h.ref)) /\ h.ref \notin {}
          BY Zenon, <1>1, <2>1
        <4> QED BY Zenon, <4>1, <4>2, <4>3, PendingKept
      <3> QED BY Zenon, <1>3, <3>1, <3>2 DEF HandlerOK
    <2> QED BY Zenon, <2>1 DEF HandlersOK
  <1>5. PromisesOK(c, s, Tail(us), ds, concern)
    <2>1. ASSUME Alive(c, s), NEW kind \in Questions, kind \notin concern.questions
          PROVE  PromiseOK(kind, c, Tail(us), ds)
      <3>1. PromiseOK(kind, c, us, ds)
        BY <2>1 DEF Accounted, PromisesOK, Nothing
      <3>2. Kept(us, Tail(us), Asks(kind)) /\ Kept(ds, ds, Infos(kind))
        BY Zenon, <1>2, <2>1 DEF Kept
      <3> QED BY Zenon, <3>1, <3>2, PromiseKept
    <2> QED BY Zenon, <2>1 DEF PromisesOK
  <1> QED BY Zenon, <1>3, <1>4, <1>5 DEF Accounted

LEMMA AccountedWhole ==
    ASSUME NEW c, NEW s, NEW us, NEW ds, NEW wanted, NEW concern,
           Accounted(c, s, us, ds, wanted, concern),
           \A h \in c.handlers : h.ref \in concern.requests =>
                                    HandlerOK(h, c, s, us, ds, wanted),
           Alive(c, s) => \A kind \in Questions : kind \in concern.questions =>
                                                    PromiseOK(kind, c, us, ds)
    PROVE  Accounted(c, s, us, ds, wanted, Nothing)
  BY Zenon DEF Accounted, HandlersOK, PromisesOK

LEMMA AccountedPart ==
    ASSUME NEW c, NEW s, NEW us, NEW ds, NEW wanted, NEW concern,
           Accounted(c, s, us, ds, wanted, Nothing)
    PROVE  Accounted(c, s, us, ds, wanted, concern)
  BY DEF Accounted, HandlersOK, PromisesOK, Nothing

-----------------------------------------------------------------------------
(* The server answers a request, or works at it, when it has read it, and  *)
(* answers it when it has done the work.                                   *)

Speaking(x) == x.s.open /\ x.s.binary
Resting(x, ref) == Idle(ref, x.s.tasks, x.out)
Working(x, ref) == AtWork(ref, x.s.tasks, x.out)

LEMMA RestingServed ==
    ASSUME NEW x \in ServerSides, NEW y, NEW ref, Serves(x, y, Nothing)
    PROVE  /\ Speaking(x) => Speaking(y)
           /\ Resting(x, ref) => Resting(y, ref)
           /\ Working(x, ref) => Working(y, ref)
  <1>1. x.out \in Seq(DownMessage) /\ y.out \in Seq(DownMessage)
    BY Zenon DEF Serves, ServerSides
  <1>2. Kept(x.out, y.out, AnswersTo(ref))
    <2>1. \A m \in Harmless(Nothing) : m \notin AnswersTo(ref)
      BY DEF Harmless, Sparing, AnswersTo, Nothing
    <2>2. Grown(x.out, y.out, Harmless(Nothing))
      BY Zenon DEF Serves
    <2> QED BY Zenon, <1>1, <2>1, <2>2, KeptGrown
  <1>3. \A task \in x.s.tasks \cup y.s.tasks : task \in x.s.tasks \cap y.s.tasks
    BY DEF Serves, OthersStay, Nothing
  <1>4. NoTask(x.s.tasks, ref) => NoTask(y.s.tasks, ref)
    BY Zenon, <1>3 DEF NoTask
  <1>5. OneTask(x.s.tasks, ref) => OneTask(y.s.tasks, ref)
    BY Zenon, <1>3 DEF OneTask
  <1>6. Speaking(x) => Speaking(y)
    BY Zenon DEF Serves, SameLogin, Speaking
  <1> QED BY Zenon, <1>2, <1>4, <1>5, <1>6 DEF Resting, Working, Idle, AtWork, Kept

LEMMA AnswerSent ==
    ASSUME NEW x \in ServerSides, Speaking(x), NEW ref \in Nat, Resting(x, ref)
    PROVE  /\ \A code \in Codes : Working(SendResult(x, code, ref), ref)
           /\ Working(SendSuccess(x, ref), ref)
           /\ Working(SendReply(x, ref), ref)
           /\ Working(SendQueueEntryAdditionConfirmationMessage(x, ref), ref)
  <1>1. ASSUME NEW n \in DownMessage, n \in AnswersTo(ref)
        PROVE  Working(SendBinaryMessage(x, n), ref)
    <2> DEFINE z == SendBinaryMessage(x, n)
    <2>1. z.s = x.s /\ z.out = Append(x.out, n)
      BY Zenon, SendingWrites DEF Speaking
    <2>2. x.out \in Seq(DownMessage)
      BY Zenon DEF ServerSides
    <2>3. NoTask(x.s.tasks, ref) /\ NoneOf(x.out, AnswersTo(ref))
      BY Zenon DEF Resting, Idle
    <2>4. OneOf(Append(x.out, n), AnswersTo(ref))
      BY Zenon, <1>1, <2>2, <2>3, OneMore
    <2> HIDE DEF z
    <2>5. Working(z, ref)
      BY Zenon, <2>1, <2>3, <2>4 DEF Working, AtWork
    <2> QED BY Zenon, <2>5 DEF z
  <1>2. ASSUME NEW code \in Codes
        PROVE  Working(SendResult(x, code, ref), ref)
    <2> DEFINE n == [type |-> "Result", code |-> code, ref |-> ref, user |-> Nobody]
    <2>1. n \in DownMessage /\ n \in AnswersTo(ref)
      BY DEF AnswersTo, DownMessage, IsAnswer, Names
    <2>2. SendResult(x, code, ref) = SendBinaryMessage(x, n)
      BY Zenon DEF SendResult, SendResultMessage
    <2> HIDE DEF n
    <2> QED BY Zenon, <1>1, <2>1, <2>2
  <1>3. "NoError" \in Codes
    BY DEF Codes
  <1>4. Working(SendReply(x, ref), ref)
    <2> DEFINE n == [type |-> "Reply", ref |-> ref]
    <2>1. n \in DownMessage /\ n \in AnswersTo(ref)
      BY DEF AnswersTo, DownMessage, IsAnswer
    <2>2. SendReply(x, ref) = SendBinaryMessage(x, n)
      BY Zenon DEF SendReply
    <2> HIDE DEF n
    <2> QED BY Zenon, <1>1, <2>1, <2>2
  <1>5. Working(SendQueueEntryAdditionConfirmationMessage(x, ref), ref)
    <2> DEFINE n == [type |-> "AdditionConfirmation", ref |-> ref]
    <2>1. n \in DownMessage /\ n \in AnswersTo(ref)
      BY DEF AnswersTo, DownMessage, IsAnswer
    <2>2. SendQueueEntryAdditionConfirmationMessage(x, ref) = SendBinaryMessage(x, n)
      BY Zenon DEF SendQueueEntryAdditionConfirmationMessage
    <2> HIDE DEF n
    <2> QED BY Zenon, <1>1, <2>1, <2>2
  <1> QED BY Zenon, <1>2, <1>3, <1>4, <1>5 DEF SendSuccess

LEMMA WorkBegun ==
    ASSUME NEW x \in ServerSides, NEW m, m.kind \in Kinds, m.ref \in Nat,
           Resting(x, m.ref), NEW permitted \in BOOLEAN
    PROVE  Working(Later(x, m, permitted), m.ref)
  <1> DEFINE task == [kind |-> m.kind, ref |-> m.ref, step |-> 0, permitted |-> permitted]
             T == x.s.tasks \cup {task}
             y == [x EXCEPT !.s.tasks = T]
             z == Later(x, m, permitted)
  <1>1. z = y
    BY Zenon DEF Later
  <1>2. NoTask(x.s.tasks, m.ref) /\ NoneOf(x.out, AnswersTo(m.ref))
    BY Zenon DEF Resting, Idle
  <1>3. task \in T /\ task.ref = m.ref /\ \A other \in T : other.ref = m.ref => other = task
    BY <1>2 DEF NoTask
  <1> HIDE DEF task
  <1>4. OneTask(T, m.ref)
    BY Zenon, <1>3 DEF OneTask
  <1> HIDE DEF T
  <1>5. y.s.tasks = T /\ y.out = x.out
    BY Zenon DEF ServerSides, ServerEnds
  <1> HIDE DEF y, z
  <1>6. Working(z, m.ref)
    BY Zenon, <1>1, <1>2, <1>4, <1>5 DEF Working, AtWork
  <1> QED BY Zenon, <1>6 DEF z

LEMMA ScanAnswered ==
    ASSUME NEW x \in ServerSides, Speaking(x), NEW ref \in Nat, Resting(x, ref), NEW t \in Topics
    PROVE  Working(StartScan(x, t, ref), ref)
  <1> DEFINE y == Change(x, t)
  <1>1. Serves(x, y, Nothing)
    BY Zenon, ServesChange
  <1>2. StartScan(x, t, ref) = IF ~ IsLoggedIn(x) THEN SendResult(x, "NotLoggedIn", ref)
                               ELSE IF Scanning(x.w)
                               THEN SendResult(x, "OperationAlreadyRunning", ref)
                               ELSE SendSuccess(y, ref)
    BY Zenon DEF StartScan
  <1> HIDE DEF y
  <1>3. Working(SendSuccess(y, ref), ref)
    BY Zenon, <1>1, RestingServed, ServesTyped, AnswerSent
  <1>4. "NotLoggedIn" \in Codes /\ "OperationAlreadyRunning" \in Codes
    BY DEF Codes
  <1> QED BY Zenon, <1>2, <1>3, <1>4, AnswerSent

LEMMA SwitchAnswered ==
    ASSUME NEW x \in ServerSides, Speaking(x), NEW ref \in Nat, Resting(x, ref), NEW on
    PROVE  Working(SwitchDelayedStart(x, on, ref), ref)
  <1> DEFINE y == Change(x, "delayed")
             code == IF on THEN "OperationAlreadyRunning" ELSE "AlreadyDone"
  <1>0. "delayed" \in Topics
    BY DEF Topics
  <1>1. Serves(x, y, Nothing)
    BY Zenon, <1>0, ServesChange
  <1>2. SwitchDelayedStart(x, on, ref)
        = IF ~ IsLoggedIn(x) THEN SendResult(x, "NotLoggedIn", ref)
          ELSE IF On(x.w["delayed"]) = on THEN SendResult(x, code, ref)
          ELSE SendSuccess(y, ref)
    BY Zenon DEF SwitchDelayedStart
  <1>3. "NotLoggedIn" \in Codes /\ code \in Codes
    BY DEF Codes
  <1> HIDE DEF y, code
  <1>4. Working(SendSuccess(y, ref), ref)
    BY Zenon, <1>1, RestingServed, ServesTyped, AnswerSent
  <1> QED BY Zenon, <1>2, <1>3, <1>4, AnswerSent

(* The confirmation of an insertion is an event.                           *)
LEMMA InsertionAnswered ==
    ASSUME NEW x \in ServerSides, Speaking(x), x.s.events, NEW ref \in Nat, Resting(x, ref),
           NEW possible
    PROVE  Working(InsertIntoQueue(x, possible, ref), ref)
  <1> DEFINE y == [x EXCEPT !.w["length"] = @ + 1]
             z == SendQueueEntryAdditionConfirmationMessage(y, ref)
             u == SchedulePlayerStateNotification(z)
  <1>0. "length" \in Topics
    BY DEF Topics
  <1>1. Serves(x, y, Nothing)
    BY Zenon, <1>0, ServesTopic
  <1>2. InsertIntoQueue(x, possible, ref)
        = IF ~ IsLoggedIn(x) THEN SendResult(x, "NotLoggedIn", ref)
          ELSE IF ~ possible THEN SendResult(x, "InvalidQueueIndex", ref)
          ELSE IF y.s.events THEN u ELSE y
    BY Zenon DEF InsertIntoQueue
  <1> HIDE DEF y
  <1>3. y \in ServerSides /\ y.s.events
    BY Zenon, <1>1 DEF Serves, SameLogin
  <1>4. Working(z, ref)
    BY Zenon, <1>1, <1>3, RestingServed, AnswerSent
  <1>5. z \in ServerSides
    <2> DEFINE n == [type |-> "AdditionConfirmation", ref |-> ref]
    <2>1. n \in DownMessage
      BY DEF DownMessage
    <2>2. z = SendBinaryMessage(y, n)
      BY Zenon DEF SendQueueEntryAdditionConfirmationMessage
    <2> HIDE DEF n, z
    <2> QED BY Zenon, <1>3, <2>1, <2>2, SendingIsTyped
  <1> HIDE DEF z
  <1>6. Serves(z, u, Nothing)
    BY Zenon, <1>5, ServesPending DEF SchedulePlayerStateNotification
  <1> HIDE DEF u
  <1>7. Working(u, ref)
    BY Zenon, <1>4, <1>5, <1>6, RestingServed
  <1>8. "NotLoggedIn" \in Codes /\ "InvalidQueueIndex" \in Codes
    BY DEF Codes
  <1> QED BY Zenon, <1>2, <1>3, <1>7, <1>8, AnswerSent

LEMMA RequestAnswered ==
    ASSUME NEW x \in ServerSides, Speaking(x), NEW m, m.kind \in Kinds, m.ref \in Nat,
           Resting(x, m.ref), m.kind = "insert" => x.s.events
    PROVE  Working(HandleRequest(x, m), m.ref)
  <1>0. IsLoggedIn(x) \in BOOLEAN
    BY DEF IsLoggedIn
  <1>1. CASE m.kind = "delay"
    BY Zenon, <1>1, SwitchAnswered DEF HandleRequest
  <1>2. CASE m.kind = "insert"
    BY Zenon, <1>2, InsertionAnswered DEF HandleRequest
  <1>3. CASE m.kind = "hash info"
    BY Zenon, <1>3, WorkBegun DEF HandleRequest, GetHashInfo
  <1>4. CASE m.kind = "collection"
    <2>1. "NotLoggedIn" \in Codes
      BY DEF Codes
    <2> QED BY Zenon, <1>4, <2>1, WorkBegun, AnswerSent DEF HandleRequest, FetchCollection
  <1>5. CASE m.kind = "history"
    BY Zenon, <1>0, <1>5, WorkBegun DEF HandleRequest, GetPersonalTrackHistory
  <1>6. CASE m.kind = "authenticate"
    BY Zenon, <1>0, <1>6, WorkBegun DEF HandleRequest, AuthenticateScrobblingProvider
  <1>7. CASE m.kind \in {"indexing", "scanning"}
    <2>1. m.kind \in Topics
      BY <1>7 DEF Topics
    <2>2. HandleRequest(x, m) = StartScan(x, m.kind, m.ref)
      BY Zenon, <1>7 DEF HandleRequest, HandleParameterlessAction
    <2> QED BY Zenon, <2>1, <2>2, ScanAnswered
  <1>8. CASE m.kind = "undelay"
    BY Zenon, <1>8, SwitchAnswered DEF HandleRequest, HandleParameterlessAction
  <1>9. CASE m.kind = "reload"
    BY Zenon, <1>0, <1>9, WorkBegun DEF HandleRequest, HandleParameterlessAction
  <1> QED BY Zenon, <1>1, <1>2, <1>3, <1>4, <1>5, <1>6, <1>7, <1>8, <1>9 DEF Kinds

(* The last batch of the collection is followed by a result.               *)
LEMMA TaskAnswered ==
    ASSUME NEW x \in ServerSides, Speaking(x), NEW task \in x.s.tasks, Working(x, task.ref)
    PROVE  Working(FinishTask(x, task), task.ref)
  <1> DEFINE ref == task.ref
             T == x.s.tasks \ {task}
             next == [task EXCEPT !.step = @ + 1]
             U == T \cup {next}
             y == [x EXCEPT !.s.tasks = T]
             z == [y EXCEPT !.s.tasks = @ \cup {next}]
  <1>1. x.s.tasks \in SUBSET Task
    BY Zenon DEF ServerSides, ServerEnds
  <1>2. task \in Task
    BY Zenon, <1>1
  <1>3. task.ref \in Nat
    BY Zenon, <1>2 DEF Task
  <1>4. next \in Task /\ next.ref = task.ref
    <2>1. task.step + 1 \in Nat
      BY <1>2 DEF Task
    <2> QED BY Zenon, <1>2, <2>1 DEF Task
  <1>5. /\ NoneOf(x.out, AnswersTo(ref))
        /\ \A other \in x.s.tasks : other.ref = ref => other = task
    BY Zenon DEF Working, AtWork, NoTask, OneTask
  <1> HIDE DEF next
  <1>6. T \in SUBSET Task /\ U \in SUBSET Task
    BY Zenon, <1>1, <1>4
  <1>7. NoTask(T, ref)
    BY <1>5 DEF NoTask
  <1>8. OneTask(U, ref)
    <2>1. next \in U /\ next.ref = ref /\ \A other \in U : other.ref = ref => other = next
      BY <1>4, <1>7 DEF NoTask
    <2> QED BY Zenon, <2>1 DEF OneTask
  <1>9. /\ y \in ServerSides /\ y.s.tasks = T /\ y.out = x.out
        /\ y.s.open = x.s.open /\ y.s.binary = x.s.binary
    <2> HIDE DEF T
    <2> QED BY Zenon, <1>6 DEF ServerSides, ServerEnds
  <1>10. /\ z \in ServerSides /\ z.s.tasks = U /\ z.out = x.out
    <2>1. z = [x EXCEPT !.s.tasks = U]
      BY Zenon, <1>9 DEF ServerSides, ServerEnds
    <2> HIDE DEF U, z
    <2> QED BY Zenon, <1>6, <2>1 DEF ServerSides, ServerEnds
  <1>11. FinishTask(x, task)
         = IF task.kind = "collection"
           THEN IF task.step = CollectionBatches THEN SendSuccess(y, task.ref)
                                                 ELSE SendTrackInfoBatchMessage(z, task.ref)
           ELSE IF ~ task.permitted THEN SendResult(y, "NotLoggedIn", task.ref)
           ELSE IF task.kind \in {"history", "hash info"} THEN SendReply(y, task.ref)
           ELSE SendSuccess(y, task.ref)
    BY Zenon DEF FinishTask, SendNextBatch, OnCollectionTrackInfoCompleted, next
  <1> HIDE DEF y, z, T, U
  <1>12. Speaking(y) /\ Resting(y, ref)
    BY Zenon, <1>5, <1>7, <1>9 DEF Speaking, Resting, Idle
  <1>13. Working(z, ref)
    BY Zenon, <1>5, <1>8, <1>10 DEF Working, AtWork
  <1>14. Working(SendTrackInfoBatchMessage(z, ref), ref)
    <2>1. Serves(z, SendTrackInfoBatchMessage(z, ref), Nothing)
      BY Zenon, <1>3, <1>10, PlainIsHarmless, ServesSend DEF SendTrackInfoBatchMessage
    <2> QED BY Zenon, <1>10, <1>13, <2>1, RestingServed
  <1>15. "NotLoggedIn" \in Codes
    BY DEF Codes
  <1> QED BY Zenon, <1>3, <1>9, <1>11, <1>12, <1>14, <1>15, AnswerSent

-----------------------------------------------------------------------------
(* The server reads a message.                                             *)

LEMMA SparesSilently ==
    ASSUME NEW x \in ServerSides, NEW y \in ServerSides, NEW concern, y.out = x.out,
           y.s.open = x.s.open, y.s.binary = x.s.binary, y.s.events = x.s.events,
           y.s.tasks = x.s.tasks
    PROVE  Spares(x, y, concern)
  <1>1. Grown(x.out, y.out, Sparing(concern))
    BY GrownSame DEF ServerSides
  <1> QED BY Zenon, <1>1 DEF Spares, OthersStay

LEMMA SparesSend ==
    ASSUME NEW x \in ServerSides, NEW concern, NEW m \in Sparing(concern)
    PROVE  Spares(x, SendBinaryMessage(x, m), concern)
  <1> DEFINE z == SendBinaryMessage(x, m)
  <1>1. m \in DownMessage /\ x.out \in Seq(DownMessage)
    BY DEF Sparing, ServerSides
  <1>2. z \in ServerSides /\ z.s = x.s /\ (z.out = x.out \/ z.out = Append(x.out, m))
    BY Zenon, <1>1, SendingWrites
  <1>3. Grown(x.out, Append(x.out, m), Sparing(concern)) /\ Grown(x.out, x.out, Sparing(concern))
    BY Zenon, <1>1, GrownAppend, GrownSame
  <1> HIDE DEF z
  <1>4. Spares(x, z, concern)
    BY Zenon, <1>2, <1>3 DEF Spares, OthersStay
  <1> QED BY Zenon, <1>4 DEF z

LEMMA InitiationSpares ==
    ASSUME NEW x \in ServerSides, NEW concern, NEW m, m.login \in Users, m.ref \in Nat,
           m.ref \in concern.requests
    PROVE  Spares(x, InitiateLogin(x, m), concern)
  <1> DEFINE salt == x.salts + 1
             y == [WithNewSalt(x) EXCEPT !.s.loggingIn = m.login, !.s.sessionSalt = salt]
             n == [type |-> "LoginSalt", login |-> m.login, salt |-> salt]
  <1>1. salt \in Nat /\ m.login \in Names
    BY DEF ServerSides, Names
  <1>2. n \in Sparing(concern)
    BY <1>1 DEF DownMessage, Sparing, IsAnswer
  <1>3. InitiateLogin(x, m) = IF IsLoggedIn(x) THEN SendResult(x, "AlreadyLoggedIn", m.ref)
                              ELSE IF m.login \notin x.users
                              THEN SendResult(x, "AuthenticationFailed", m.ref)
                              ELSE SendBinaryMessage(y, n)
    BY Zenon DEF InitiateLogin
  <1>4. WithNewSalt(x) = [x EXCEPT !.salts = salt]
    BY Zenon DEF WithNewSalt
  <1> HIDE DEF salt, n
  <1>5. /\ y \in ServerSides /\ y.out = x.out /\ y.s.open = x.s.open
        /\ y.s.binary = x.s.binary /\ y.s.events = x.s.events /\ y.s.tasks = x.s.tasks
    BY Zenon, <1>1, <1>4 DEF ServerSides, ServerEnds
  <1> HIDE DEF y
  <1>6. Spares(x, y, concern)
    BY Zenon, <1>5, SparesSilently
  <1>7. Spares(y, SendBinaryMessage(y, n), concern)
    BY Zenon, <1>2, <1>5, SparesSend
  <1>8. Spares(x, SendBinaryMessage(y, n), concern)
    BY Zenon, <1>6, <1>7, SparesTwice
  <1>9. "AlreadyLoggedIn" \in Codes /\ "AuthenticationFailed" \in Codes
    BY DEF Codes
  <1>10. /\ Serves(x, SendResult(x, "AlreadyLoggedIn", m.ref), concern)
         /\ Serves(x, SendResult(x, "AuthenticationFailed", m.ref), concern)
    BY Zenon, <1>9, ServesResult
  <1> QED BY Zenon, <1>3, <1>8, <1>10, ServesSpares

LEMMA FinishSpares ==
    ASSUME NEW x \in ServerSides, NEW concern, NEW m, m.login \in Users, m.ref \in Nat,
           m.ref \in concern.requests
    PROVE  Spares(x, FinishLogin(x, m), concern)
  <1> DEFINE y == [x EXCEPT !.s.loggingIn = Nobody, !.s.sessionSalt = NoSalt]
             w == [y EXCEPT !.s = SetLoggedIn(@, m)]
  <1>1. m.login \in Names /\ Nobody \in Names /\ NoSalt \in Nat
    BY DEF Names, NoSalt
  <1>2. FinishLogin(x, m)
        = IF m.login \notin x.users THEN SendResult(x, "AuthenticationFailed", m.ref)
          ELSE IF m.login # x.s.loggingIn \/ m.salt # x.s.sessionSalt
          THEN SendResult(x, "LoginMismatch", m.ref)
          ELSE IF ~ m.right THEN SendResult(y, "AuthenticationFailed", m.ref)
          ELSE SendResultMessage(w, "NoError", m.ref, m.login)
    BY Zenon DEF FinishLogin
  <1>3. /\ y \in ServerSides /\ y.out = x.out /\ y.s.open = x.s.open
        /\ y.s.binary = x.s.binary /\ y.s.events = x.s.events /\ y.s.tasks = x.s.tasks
    BY Zenon, <1>1 DEF ServerSides, ServerEnds
  <1> HIDE DEF y
  <1>4. w = [y EXCEPT !.s = [y.s EXCEPT !.loggedIn = m.login]]
    BY Zenon DEF SetLoggedIn
  <1>5. /\ w \in ServerSides /\ w.out = y.out /\ w.s.open = y.s.open
        /\ w.s.binary = y.s.binary /\ w.s.events = y.s.events /\ w.s.tasks = y.s.tasks
    <2> DEFINE t == [y.s EXCEPT !.loggedIn = m.login]
    <2>1. y.s \in ServerEnds
      BY Zenon, <1>3 DEF ServerSides
    <2>2. /\ t \in ServerEnds /\ t.open = y.s.open /\ t.binary = y.s.binary
          /\ t.events = y.s.events /\ t.tasks = y.s.tasks
      BY Zenon, <1>1, <2>1 DEF ServerEnds
    <2> HIDE DEF t
    <2>3. w \in ServerSides /\ w.s = t /\ w.out = y.out
      BY Zenon, <1>3, <1>4, <2>2 DEF ServerSides, t
    <2> QED BY Zenon, <2>2, <2>3
  <1> HIDE DEF w
  <1>6. Spares(x, y, concern) /\ Spares(y, w, concern)
    BY Zenon, <1>3, <1>5, SparesSilently
  <1>7. Spares(x, w, concern)
    BY Zenon, <1>6, SparesTwice
  <1>8. "NoError" \in Codes /\ "LoginMismatch" \in Codes /\ "AuthenticationFailed" \in Codes
    BY DEF Codes
  <1>9. Spares(w, SendResultMessage(w, "NoError", m.ref, m.login), concern)
    BY Zenon, <1>1, <1>5, <1>8, ServesResult, ServesSpares
  <1>10. Spares(y, SendResult(y, "AuthenticationFailed", m.ref), concern)
    BY Zenon, <1>3, <1>8, ServesResult, ServesSpares
  <1>11. /\ Spares(x, SendResultMessage(w, "NoError", m.ref, m.login), concern)
         /\ Spares(x, SendResult(y, "AuthenticationFailed", m.ref), concern)
    BY Zenon, <1>6, <1>7, <1>9, <1>10, SparesTwice
  <1>12. /\ Spares(x, SendResult(x, "LoginMismatch", m.ref), concern)
         /\ Spares(x, SendResult(x, "AuthenticationFailed", m.ref), concern)
    BY Zenon, <1>8, ServesResult, ServesSpares
  <1> QED BY Zenon, <1>2, <1>11, <1>12

LEMMA SwitchSpares ==
    ASSUME NEW x \in ServerSides, NEW concern
    PROVE  Spares(x, HandleBinaryModeSwitchRequest(x), concern)
  <1>1. CASE x.s.binary
    BY Zenon, <1>1, SparesSilently DEF HandleBinaryModeSwitchRequest
  <1>2. CASE ~ x.s.binary
    <2> DEFINE z == HandleBinaryModeSwitchRequest(x)
               ns == << [type |-> "TextBinary"], [type |-> "Header"] >>
               out == x.out \o ns
    <2>1. x.out \in Seq(DownMessage) /\ ns \in Seq(DownMessage) /\ out \in Seq(DownMessage)
      BY DEF ServerSides, DownMessage
    <2>2. \A i \in 1..Len(ns) : ns[i] \in Sparing(concern)
      BY DEF Sparing, DownMessage, IsAnswer
    <2>3. z = [x EXCEPT !.s.binary = TRUE, !.out = out]
      BY Zenon, <1>2 DEF HandleBinaryModeSwitchRequest
    <2> HIDE DEF ns
    <2>4. Grown(x.out, out, Sparing(concern))
      BY Zenon, <2>1, <2>2, GrownConcat
    <2> HIDE DEF out
    <2>5. z \in ServerSides
      <3> DEFINE t == [x.s EXCEPT !.binary = TRUE]
      <3>1. t \in ServerEnds
        BY Zenon DEF ServerSides, ServerEnds
      <3>2. z = [x EXCEPT !.s = t, !.out = out]
        BY Zenon, <2>3 DEF ServerSides, ServerEnds
      <3> HIDE DEF t, z
      <3> QED BY Zenon, <2>1, <3>1, <3>2 DEF ServerSides
    <2>6. /\ z.out = out /\ z.s.tasks = x.s.tasks /\ z.s.open = x.s.open
          /\ z.s.events = x.s.events /\ z.s.binary
      <3> HIDE DEF z
      <3> QED BY Zenon, <2>1, <2>3 DEF ServerSides, ServerEnds
    <2> HIDE DEF z
    <2>7. Spares(x, z, concern)
      BY Zenon, <2>4, <2>5, <2>6 DEF Spares, OthersStay
    <2> QED BY Zenon, <2>7 DEF z
  <1> QED BY Zenon, <1>1, <1>2

LEMMA ReadingSpares ==
    ASSUME NEW x \in ServerSides, NEW m \in UpMessage, m.type # "Shutdown"
    PROVE  Spares(x, DataArrived(x, m), Concern(m))
  <1> DEFINE concern == Concern(m)
  <1>1. /\ m.type \in {"Request", "InitiateLogin", "FinishLogin", "InitiateAccount",
                       "FinishAccount"} => m.ref \in concern.requests
        /\ m.type = "Ask" => m.kind \in concern.questions
    BY DEF Concern
  <1> HIDE DEF concern
  <1>2. CASE m.type = "InitiateLogin"
    <2>1. DataArrived(x, m) = InitiateLogin(x, m)
      BY Zenon, <1>2 DEF DataArrived, HandleStandardBinaryMessage
    <2>2. m.login \in Users /\ m.ref \in Nat /\ m.ref \in concern.requests
      BY Zenon, <1>1, <1>2, UpFields
    <2>3. Spares(x, DataArrived(x, m), concern)
      BY Zenon, <2>1, <2>2, InitiationSpares
    <2> QED BY Zenon, <2>3 DEF concern
  <1>3. CASE m.type = "FinishLogin"
    <2>1. DataArrived(x, m) = FinishLogin(x, m)
      BY Zenon, <1>3 DEF DataArrived, HandleStandardBinaryMessage
    <2>2. m.login \in Users /\ m.ref \in Nat /\ m.ref \in concern.requests
      BY Zenon, <1>1, <1>3, UpFields
    <2>3. Spares(x, DataArrived(x, m), concern)
      BY Zenon, <2>1, <2>2, FinishSpares
    <2> QED BY Zenon, <2>3 DEF concern
  <1>4. CASE m.type = "TextBinary"
    BY Zenon, <1>4, SwitchSpares DEF DataArrived
  <1>5. CASE m.type \notin {"InitiateLogin", "FinishLogin", "TextBinary", "Shutdown"}
    <2>1. /\ m.type \in {"Request", "InitiateAccount", "FinishAccount"} =>
                m.ref \in concern.requests
          /\ m.type = "Ask" => m.kind \in concern.questions
      BY Zenon, <1>1
    <2>2. Serves(x, DataArrived(x, m), concern)
      BY Zenon, <1>5, <2>1, ServesMessage
    <2>3. Spares(x, DataArrived(x, m), concern)
      BY Zenon, <2>2, ServesSpares
    <2> QED BY Zenon, <2>3 DEF concern
  <1> QED BY Zenon, <1>2, <1>3, <1>4, <1>5

(* The events that the client has asked for are enabled by then.           *)
LEMMA EventsEnabled ==
    ASSUME NEW x \in ServerSides, NEW m, m = Action("all events")
    PROVE  DataArrived(x, m).s.events
  <1>1. m.type = "Action" /\ m.action = "all events"
    BY DEF Action
  <1>2. DataArrived(x, m) = EnableEvents(x)
    BY Zenon, <1>1 DEF DataArrived, HandleStandardBinaryMessage, HandleSingleByteAction
  <1> DEFINE y == EnableHealthEvents(x)
  <1>3. y \in ServerSides
    BY Zenon, ServesEnabling, ServesTyped
  <1>4. EnableEvents(x) = IF x.s.events THEN x ELSE [y EXCEPT !.s.events = TRUE]
    BY Zenon DEF EnableEvents
  <1> HIDE DEF y
  <1>5. [y EXCEPT !.s.events = TRUE].s.events
    BY Zenon, <1>3 DEF ServerSides, ServerEnds
  <1> QED BY Zenon, <1>2, <1>4, <1>5

LEMMA TailElements ==
    ASSUME NEW M, NEW us \in Seq(M), us # << >>
    PROVE  /\ \A i \in 1..Len(Tail(us)) : i + 1 \in 1..Len(us) /\ Tail(us)[i] = us[i + 1]
           /\ \A k \in 1..Len(us) : k # 1 =>
                 /\ k - 1 \in 1..Len(Tail(us)) /\ Tail(us)[k - 1] = us[k]
                 /\ \A i \in 1..(k - 1) :
                       i \in 1..Len(Tail(us)) /\ i + 1 \in 1..k /\ Tail(us)[i] = us[i + 1]
  <1>1. ASSUME NEW i \in 1..Len(Tail(us))
        PROVE  i + 1 \in 1..Len(us) /\ Tail(us)[i] = us[i + 1]
    BY TailOfList
  <1>2. ASSUME NEW k \in 1..Len(us), k # 1
        PROVE  /\ k - 1 \in 1..Len(Tail(us)) /\ (k - 1) + 1 = k
               /\ \A i \in 1..(k - 1) : i \in 1..Len(Tail(us)) /\ i + 1 \in 1..k
    BY <1>2, TailOfList
  <1> QED BY Zenon, <1>1, <1>2

LEMMA EventsWhenRead ==
    ASSUME NEW c, NEW s, NEW us \in Seq(UpMessage), us # << >>, NEW wanted,
           EventsOK(c, s, us, wanted), NEW t, Head(us) = Action("all events") => t.events,
           t.open = s.open, s.events => t.events
    PROVE  EventsOK(c, t, Tail(us), wanted)
  <1> SUFFICES ASSUME wanted = "All", t.open,
                      c.state = "BinaryMode" \/ ~ NoRequest(Tail(us)), ~ t.events
               PROVE  \E k \in 1..Len(Tail(us)) :
                         /\ Tail(us)[k] = Action("all events")
                         /\ \A i \in 1..k : Tail(us)[i].type # "Request"
    BY Zenon DEF EventsOK
  <1>0. \A i \in 1..Len(Tail(us)) : i + 1 \in 1..Len(us) /\ Tail(us)[i] = us[i + 1]
    BY Zenon, TailElements
  <1>1. c.state = "BinaryMode" \/ ~ NoRequest(us)
    BY Zenon, <1>0 DEF NoRequest
  <1>2. PICK k \in 1..Len(us) : /\ us[k] = Action("all events")
                                /\ \A i \in 1..k : us[i].type # "Request"
    BY Zenon, <1>1 DEF EventsOK
  <1>3. k # 1
    BY Zenon, <1>2, TailOfList
  <1>4. k - 1 \in 1..Len(Tail(us)) /\ Tail(us)[k - 1] = us[k]
    BY Zenon, <1>3, TailElements
  <1>5. \A i \in 1..(k - 1) : Tail(us)[i].type # "Request"
    <2>1. \A i \in 1..(k - 1) :
             i \in 1..Len(Tail(us)) /\ i + 1 \in 1..k /\ Tail(us)[i] = us[i + 1]
      BY Zenon, <1>3, TailElements
    <2> QED BY Zenon, <1>2, <2>1
  <1> QED BY Zenon, <1>2, <1>4, <1>5

LEMMA EndIsAccounted ==
    ASSUME NEW c, c.state \notin {"NotConnected", "Connecting"}, NEW s, NEW us, NEW ds,
           NEW wanted, AnswersComing(c, s, us, ds, wanted), NEW t, ~ t.open
    PROVE  AnswersComing(c, t, us, ds, wanted)
  <1>1. HandlersOK(c, t, us, ds, wanted, Nothing)
    BY Zenon DEF AnswersComing, Accounted, HandlersOK, HandlerOK
  <1>2. PromisesOK(c, t, us, ds, Nothing)
    BY Zenon DEF PromisesOK, Alive
  <1>3. AnswersOK(c, ds)
    BY Zenon DEF AnswersComing, Accounted
  <1>4. FreshOK(c, t, us) /\ EventsOK(c, t, us, wanted)
    BY Zenon DEF FreshOK, EventsOK
  <1> QED BY Zenon, <1>1, <1>2, <1>3, <1>4 DEF AnswersComing, Accounted

LEMMA RequestIsRead ==
    ASSUME NEW c, NEW x \in ServerSides, NEW us \in Seq(UpMessage), us # << >>,
           x.s.open, NEW wanted, AnswersComing(c, x.s, us, x.out, wanted),
           NEW h \in c.handlers, c.state # "Closed", Awaited(h, wanted),
           NEW m, m = Head(us), m.type \in Referring, m.ref = h.ref,
           NEW z, z = DataArrived(x, m)
    PROVE  Pending(h.ref, z.s.tasks, Tail(us), z.out)
  <1>1. m \in UpMessage /\ m = us[1] /\ 1 \in 1..Len(us)
    BY TailOfList
  <1>2. HandlerOK(h, c, x.s, us, x.out, wanted)
    BY DEF AnswersComing, Accounted, HandlersOK, Nothing
  <1>3. m.type = "Request" /\ m.kind = h.kind
    BY Zenon, <1>1, <1>2 DEF HandlerOK, KnownUp
  <1>4. m.kind \in Kinds /\ m.ref \in Nat
    BY Zenon, <1>1, <1>3, UpFields
  <1>5. m \in RequestsFor(h.ref)
    BY Zenon, <1>1, <1>3 DEF RequestsFor
  <1>6. Pending(h.ref, x.s.tasks, us, x.out)
    BY Zenon, <1>2 DEF HandlerOK
  <1>7. ~ NoneOf(us, RequestsFor(h.ref))
    BY Zenon, <1>1, <1>5 DEF NoneOf
  <1>8. OneOf(us, RequestsFor(h.ref)) /\ Idle(h.ref, x.s.tasks, x.out)
    BY Zenon, <1>6, <1>7 DEF Pending
  <1>9. NoneOf(Tail(us), RequestsFor(h.ref))
    BY Zenon, <1>5, <1>8, OneWasFirst
  <1>10. Speaking(x)
    BY Zenon DEF AnswersComing, FreshOK, Speaking
  <1>11. m.kind = "insert" => x.s.events
    <2>1. SUFFICES ASSUME wanted = "All"
                   PROVE  x.s.events
      BY Zenon, <1>3 DEF Awaited
    <2>2. ~ NoRequest(us)
      BY Zenon, <1>1, <1>3 DEF NoRequest
    <2>3. \A k \in 1..Len(us) : 1 \in 1..k /\ us[1].type = "Request"
      BY <1>1, <1>3
    <2> QED BY Zenon, <2>1, <2>2, <2>3 DEF AnswersComing, EventsOK
  <1>12. z = HandleRequest(x, m)
    BY Zenon, <1>3 DEF DataArrived, HandleStandardBinaryMessage
  <1>13. Working(z, m.ref)
    BY Zenon, <1>4, <1>8, <1>10, <1>11, <1>12, RequestAnswered DEF Resting
  <1> QED BY Zenon, <1>9, <1>13 DEF Working, Pending

LEMMA QuestionIsRead ==
    ASSUME NEW c, NEW x \in ServerSides, NEW us \in Seq(UpMessage), us # << >>,
           x.s.open, NEW wanted, AnswersComing(c, x.s, us, x.out, wanted),
           NEW kind \in Questions, Alive(c, x.s),
           NEW m, m = Head(us), m.type = "Ask", m.kind = kind,
           NEW z, z = DataArrived(x, m)
    PROVE  PromiseOK(kind, c, Tail(us), z.out)
  <1>1. m \in UpMessage /\ m = us[1] /\ 1 \in 1..Len(us)
    BY TailOfList
  <1>2. PromiseOK(kind, c, us, x.out)
    BY DEF AnswersComing, Accounted, PromisesOK, Nothing
  <1>3. m \in Asks(kind)
    BY Zenon, <1>1 DEF Asks
  <1>4. ~ NoneOf(us, Asks(kind))
    BY Zenon, <1>1, <1>3 DEF NoneOf
  <1>5. kind \in c.promises /\ OneOf(us, Asks(kind)) /\ NoneOf(x.out, Infos(kind))
    BY Zenon, <1>2, <1>4 DEF PromiseOK
  <1>6. NoneOf(Tail(us), Asks(kind))
    BY Zenon, <1>3, <1>5, OneWasFirst
  <1>7. x.s.binary
    BY <1>5 DEF AnswersComing, FreshOK
  <1> DEFINE n == [type |-> "Info", kind |-> kind]
  <1>8. n \in DownMessage /\ n \in Infos(kind)
    BY DEF Infos, DownMessage
  <1>9. z = SendBinaryMessage(x, n)
    BY Zenon DEF DataArrived, HandleStandardBinaryMessage, SendInfo
  <1> HIDE DEF n
  <1>10. z.out = Append(x.out, n) /\ x.out \in Seq(DownMessage)
    BY Zenon, <1>7, <1>8, <1>9, SendingWrites DEF ServerSides
  <1>11. OneOf(z.out, Infos(kind))
    BY Zenon, <1>5, <1>8, <1>10, OneMore
  <1> QED BY Zenon, <1>5, <1>6, <1>11 DEF PromiseOK

LEMMA ServerReadsAnswering ==
    ASSUME NEW c \in ClientEnds, NEW x \in ServerSides, NEW us \in Seq(UpMessage),
           us # << >>, x.s.open, Consistent(c, x.s, x.users, us, x.out),
           NEW wanted, AnswersComing(c, x.s, us, x.out, wanted),
           NEW z, z = DataArrived(x, Head(us))
    PROVE  AnswersComing(c, z.s, Tail(us), z.out, wanted)
  <1> DEFINE m == Head(us)
             concern == Concern(m)
             vs == Tail(us)
  <1>1. m \in UpMessage /\ m = us[1] /\ 1 \in 1..Len(us)
    BY TailOfList
  <1>2. c.state \notin {"NotConnected", "Connecting"}
    BY Zenon DEF Consistent, BeforeTheConnection
  <1>3. /\ m.type \in Referring => m.ref \in concern.requests
        /\ m.type = "Ask" => m.kind \in concern.questions
        /\ \A ref \in concern.requests : m.type \in Referring /\ m.ref = ref
        /\ \A kind \in concern.questions : m.type = "Ask" /\ m.kind = kind
    BY DEF Concern, Referring
  <1>4. concern.requests \subseteq UsedRefs(c)
    <2>1. UpOK(m, c)
      BY Zenon, <1>1 DEF Consistent, ReferencesOK
    <2>2. m.type \in Referring => m.ref \in UsedRefs(c)
      BY <2>1 DEF UpOK, OtherRefs, Referring
    <2> HIDE DEF concern
    <2> QED BY Zenon, <1>3, <2>2
  <1>5. m.type # "Shutdown" => Spares(x, z, concern)
    BY Zenon, <1>1, ReadingSpares
  <1>6. "Request" \in Referring
    BY DEF Referring
  <1> HIDE DEF concern
  <1>7. /\ Accounted(c, x.s, vs, x.out, wanted, concern)
        /\ \A h : KnownUp(h, us) => KnownUp(h, vs)
    <2>1. Accounted(c, x.s, us, x.out, wanted, Nothing)
      BY Zenon DEF AnswersComing
    <2> QED BY Zenon, <1>3, <1>6, <2>1, AccountedUp
  <1>8. ASSUME z.s.open = x.s.open, x.s.binary => z.s.binary
        PROVE  FreshOK(c, z.s, vs)
    BY Zenon, <1>2, <1>8 DEF FreshOK, AnswersComing
  <1>9. ASSUME z.s.open = x.s.open, x.s.events => z.s.events
        PROVE  EventsOK(c, z.s, vs, wanted)
    BY Zenon, <1>9, EventsEnabled, EventsWhenRead DEF AnswersComing
  <1>10. CASE m.type # "Shutdown"
    <2>1. Spares(x, z, concern)
      BY Zenon, <1>5, <1>10
    <2>2. Accounted(c, z.s, vs, z.out, wanted, concern)
      BY Zenon, <1>4, <1>7, <2>1, AccountedServes
    <2>3. z.s.open = x.s.open /\ (x.s.binary => z.s.binary) /\ (x.s.events => z.s.events)
      BY Zenon, <2>1 DEF Spares
    <2>4. ASSUME NEW h \in c.handlers, h.ref \in concern.requests
          PROVE  HandlerOK(h, c, z.s, vs, z.out, wanted)
      <3>1. HandlerOK(h, c, x.s, us, x.out, wanted)
        BY DEF AnswersComing, Accounted, HandlersOK, Nothing
      <3>2. m.type \in Referring /\ m.ref = h.ref
        BY Zenon, <1>3, <2>4
      <3>3. c.state # "Closed" /\ Awaited(h, wanted) => Pending(h.ref, z.s.tasks, vs, z.out)
        BY Zenon, <3>2, RequestIsRead
      <3> QED BY Zenon, <1>7, <3>1, <3>3 DEF HandlerOK
    <2>5. ASSUME Alive(c, z.s), NEW kind \in Questions, kind \in concern.questions
          PROVE  PromiseOK(kind, c, vs, z.out)
      <3>1. Alive(c, x.s)
        BY Zenon, <2>5 DEF Alive
      <3>2. m.type = "Ask" /\ m.kind = kind
        BY Zenon, <1>3, <2>5
      <3> QED BY Zenon, <3>1, <3>2, QuestionIsRead
    <2>6. Accounted(c, z.s, vs, z.out, wanted, Nothing)
      BY Zenon, <2>2, <2>4, <2>5, AccountedWhole
    <2> QED BY Zenon, <1>8, <1>9, <2>3, <2>6 DEF AnswersComing
  <1>11. CASE m.type = "Shutdown"
    <2>1. z = IF IsLoggedIn(x) THEN TerminateConnection(x) ELSE x
      BY Zenon, <1>11 DEF DataArrived, HandleStandardBinaryMessage
    <2>2. concern = Nothing
      BY <1>11 DEF concern, Concern, Nothing
    <2>3. AnswersComing(c, x.s, vs, x.out, wanted)
      <3>1. FreshOK(c, x.s, vs)
        BY Zenon, <1>2 DEF FreshOK, AnswersComing
      <3>2. m # Action("all events")
        <4>1. Action("all events").type = "Action"
          BY DEF Action
        <4> QED BY <1>11, <4>1
      <3>3. EventsOK(c, x.s, vs, wanted)
        BY Zenon, <3>2, EventsWhenRead DEF AnswersComing
      <3> QED BY Zenon, <1>7, <2>2, <3>1, <3>3 DEF AnswersComing
    <2>4. CASE z = x
      BY Zenon, <2>3, <2>4
    <2>5. CASE z = TerminateConnection(x)
      <3>1. z.s = NewServerEnd /\ z.out = x.out
        BY Zenon, <2>5 DEF ServerSides, TerminateConnection
      <3>2. ~ z.s.open
        BY <3>1 DEF NewServerEnd
      <3> QED BY Zenon, <1>2, <2>3, <3>1, <3>2, EndIsAccounted
    <2> QED BY Zenon, <2>1, <2>4, <2>5
  <1> QED BY Zenon, <1>10, <1>11
-----------------------------------------------------------------------------
(* The server finishes work; the start and the end of the connection at    *)
(* it; what is about no request.                                           *)

LEMMA FreshStays ==
    ASSUME NEW c, NEW s, NEW t, NEW us, NEW wanted, t.open = s.open,
           s.binary => t.binary, s.events => t.events,
           FreshOK(c, s, us), EventsOK(c, s, us, wanted)
    PROVE  FreshOK(c, t, us) /\ EventsOK(c, t, us, wanted)
  BY Zenon DEF FreshOK, EventsOK

LEMMA ServerServesAnswering ==
    ASSUME NEW c \in ClientEnds, NEW x \in ServerSides, NEW us, NEW wanted,
           AnswersComing(c, x.s, us, x.out, wanted), NEW z, Serves(x, z, Nothing)
    PROVE  AnswersComing(c, z.s, us, z.out, wanted)
  <1> DEFINE concern == Nothing
  <1>1. concern.requests \subseteq UsedRefs(c)
    BY DEF Nothing
  <1>2. Accounted(c, x.s, us, x.out, wanted, concern)
    BY Zenon DEF AnswersComing
  <1>3. Spares(x, z, concern)
    BY Zenon, ServesSpares
  <1> HIDE DEF concern
  <1>4. Accounted(c, z.s, us, z.out, wanted, concern)
    BY Zenon, <1>1, <1>2, <1>3, AccountedServes
  <1>5. FreshOK(c, z.s, us) /\ EventsOK(c, z.s, us, wanted)
    <2>1. z.s.open = x.s.open /\ (x.s.binary => z.s.binary) /\ (x.s.events => z.s.events)
      BY Zenon, <1>3 DEF Spares
    <2> QED BY Zenon, <2>1, FreshStays DEF AnswersComing
  <1> QED BY Zenon, <1>4, <1>5 DEF AnswersComing, concern

LEMMA ServerFinishesAnswering ==
    ASSUME NEW c \in ClientEnds, NEW x \in ServerSides, NEW us, NEW wanted,
           AnswersComing(c, x.s, us, x.out, wanted), TasksOK(c, x.s.tasks),
           NEW task \in x.s.tasks, NEW z, z = FinishTask(x, task)
    PROVE  AnswersComing(c, z.s, us, z.out, wanted)
  <1> DEFINE concern == About(task.ref)
  <1>1. /\ task.ref \in concern.requests
        /\ \A ref \in concern.requests : ref = task.ref
        /\ \A kind : kind \notin concern.questions
    BY DEF About
  <1>2. concern.requests \subseteq UsedRefs(c)
    BY DEF About, TasksOK, OtherRefs
  <1> HIDE DEF concern
  <1>3. Spares(x, z, concern)
    BY Zenon, <1>1, ServesTask, ServesSpares
  <1>4. Accounted(c, x.s, us, x.out, wanted, concern)
    BY Zenon, AccountedPart DEF AnswersComing
  <1>5. Accounted(c, z.s, us, z.out, wanted, concern)
    BY Zenon, <1>2, <1>3, <1>4, AccountedServes
  <1>6. z.s.open = x.s.open /\ (x.s.binary => z.s.binary) /\ (x.s.events => z.s.events)
    BY Zenon, <1>3 DEF Spares
  <1>7. ASSUME NEW h \in c.handlers, h.ref \in concern.requests
        PROVE  HandlerOK(h, c, z.s, us, z.out, wanted)
    <2>1. HandlerOK(h, c, x.s, us, x.out, wanted)
      BY DEF AnswersComing, Accounted, HandlersOK, Nothing
    <2>2. h.ref = task.ref
      BY Zenon, <1>1, <1>7
    <2>3. ASSUME x.s.open, Pending(h.ref, x.s.tasks, us, x.out)
          PROVE  Pending(h.ref, z.s.tasks, us, z.out)
      <3>1. NoneOf(us, RequestsFor(h.ref)) /\ Working(x, task.ref)
        BY Zenon, <2>2, <2>3 DEF Pending, Idle, NoTask, Working
      <3>2. Speaking(x)
        BY <2>3 DEF AnswersComing, FreshOK, Speaking
      <3>3. Working(z, task.ref)
        BY Zenon, <3>1, <3>2, TaskAnswered
      <3> QED BY Zenon, <2>2, <3>1, <3>3 DEF Pending, Working
    <2> QED BY Zenon, <1>6, <2>1, <2>3 DEF HandlerOK
  <1>8. Accounted(c, z.s, us, z.out, wanted, Nothing)
    BY Zenon, <1>1, <1>5, <1>7, AccountedWhole
  <1>9. FreshOK(c, z.s, us) /\ EventsOK(c, z.s, us, wanted)
    BY Zenon, <1>6, FreshStays DEF AnswersComing
  <1> QED BY Zenon, <1>8, <1>9 DEF AnswersComing

LEMMA ServerAcceptsAnswering ==
    ASSUME NEW c \in ClientEnds, NEW x \in ServerSides, NEW us, NEW wanted,
           c.state = "Connecting", AnswersComing(c, x.s, us, x.out, wanted),
           NEW d, d = [c EXCEPT !.state = "Handshake"], NEW z, z = NewConnection(x)
    PROVE  AnswersComing(d, z.s, us, z.out, wanted)
  <1> DEFINE greeting == [type |-> "Greeting"]
             s == [NewServerEnd EXCEPT !.open = TRUE]
  <1>1. /\ d.state = "Handshake" /\ d.handlers = c.handlers /\ d.promises = c.promises
        /\ UsedRefs(d) = UsedRefs(c)
    <2>1. /\ d.state = "Handshake" /\ d.handlers = c.handlers /\ d.promises = c.promises
          /\ d.nextRef = c.nextRef
      BY Zenon DEF ClientEnds
    <2> QED BY Zenon, <2>1 DEF UsedRefs
  <1>2. c.handlers = {} /\ c.promises = {} /\ NoRequest(us)
    BY Zenon DEF AnswersComing, FreshOK
  <1>3. z.s = s /\ z.out = Append(x.out, greeting)
    BY Zenon DEF NewConnection, ServerSides
  <1>4. z.s.open /\ ~ z.s.binary
    BY <1>3 DEF NewServerEnd
  <1>5. /\ greeting \in DownMessage /\ ~ IsAnswer(greeting)
        /\ \A kind : greeting \notin Infos(kind)
    BY DEF DownMessage, IsAnswer, Infos
  <1>6. x.out \in Seq(DownMessage)
    BY DEF ServerSides
  <1> HIDE DEF greeting, s
  <1>7. HandlersOK(d, z.s, us, z.out, wanted, Nothing)
    BY Zenon, <1>1, <1>2 DEF HandlersOK
  <1>8. PromisesOK(d, z.s, us, z.out, Nothing)
    <2>1. ASSUME NEW kind \in Questions
          PROVE  PromiseOK(kind, d, us, z.out)
      <3>1. PromiseOK(kind, c, us, x.out)
        <4>1. Alive(c, x.s) /\ kind \notin Nothing.questions
          BY DEF Alive, Nothing
        <4> QED BY Zenon, <4>1 DEF AnswersComing, Accounted, PromisesOK
      <3>2. NoneOf(us, Asks(kind)) /\ NoneOf(x.out, Infos(kind))
        BY <1>2, <3>1 DEF PromiseOK
      <3>3. NoneOf(z.out, Infos(kind))
        BY <1>3, <1>5, <1>6, <3>2 DEF NoneOf
      <3> QED BY <1>1, <1>2, <3>2, <3>3 DEF PromiseOK
    <2> QED BY Zenon, <2>1 DEF PromisesOK
  <1>9. AnswersOK(d, z.out)
    <2>1. AnswersOK(c, x.out)
      BY Zenon DEF AnswersComing, Accounted
    <2> QED BY <1>1, <1>3, <1>5, <1>6, <2>1 DEF AnswersOK
  <1>10. FreshOK(d, z.s, us)
    BY <1>1, <1>2 DEF FreshOK
  <1>11. EventsOK(d, z.s, us, wanted)
    BY <1>1, <1>2 DEF EventsOK
  <1> QED BY Zenon, <1>7, <1>8, <1>9, <1>10, <1>11 DEF AnswersComing, Accounted

LEMMA ServerEndsAnswering ==
    ASSUME NEW c \in ClientEnds, NEW x \in ServerSides, NEW us, NEW wanted,
           AnswersComing(c, x.s, us, x.out, wanted),
           c.state \notin {"NotConnected", "Connecting"}, NEW z, z = TerminateConnection(x)
    PROVE  AnswersComing(c, z.s, us, z.out, wanted)
  <1>1. z.s = NewServerEnd /\ z.out = x.out
    BY Zenon DEF ServerSides, TerminateConnection
  <1>2. ~ z.s.open
    BY <1>1 DEF NewServerEnd
  <1> QED BY Zenon, <1>1, <1>2, EndIsAccounted

-----------------------------------------------------------------------------
(* The client reads a message.  An answer takes its handler away, and the  *)
(* information that was asked for its question.                            *)

LEMMA AnswerRead ==
    ASSUME NEW c, NEW d, NEW s, NEW us, NEW ds \in Seq(DownMessage), ds # << >>, NEW wanted,
           AnswersComing(c, s, us, ds, wanted), NEW m, m = Head(ds),
           d.state = c.state, d.nextRef = c.nextRef, d.loginRef = c.loginRef,
           d.accountRef = c.accountRef,
           \A h \in d.handlers :
              /\ h \in c.handlers
              /\ IsAnswer(m) => h.ref # m.ref \/ m.ref \in {c.loginRef, c.accountRef},
           \A kind \in Questions :
              kind \in d.promises <=> kind \in c.promises /\ ~ (m.type = "Info" /\ m.kind = kind),
           d.promises \subseteq c.promises
    PROVE  AnswersComing(d, s, us, Tail(ds), wanted)
  <1>1. m \in DownMessage /\ m = ds[1] /\ 1 \in 1..Len(ds)
    BY TailOfList
  <1>2. UsedRefs(d) = UsedRefs(c) /\ OtherRefs(d) = OtherRefs(c)
    BY Zenon DEF UsedRefs, OtherRefs
  <1>3. HandlersOK(d, s, us, Tail(ds), wanted, Nothing)
    <2>1. ASSUME NEW h \in d.handlers
          PROVE  HandlerOK(h, d, s, us, Tail(ds), wanted)
      <3>1. HandlerOK(h, c, s, us, ds, wanted)
        BY DEF AnswersComing, Accounted, HandlersOK, Nothing
      <3>2. IsAnswer(m) => h.ref # m.ref
        BY <3>1 DEF HandlerOK, OtherRefs
      <3>3. m \notin AnswersTo(h.ref)
        BY Zenon, <3>2 DEF AnswersTo
      <3>4. Kept(ds, Tail(ds), AnswersTo(h.ref))
        BY Zenon, <3>3, KeptTail
      <3>5. ASSUME Pending(h.ref, s.tasks, us, ds)
            PROVE  Pending(h.ref, s.tasks, us, Tail(ds))
        BY Zenon, <3>4, <3>5 DEF Pending, Idle, AtWork, Kept
      <3> QED BY Zenon, <1>2, <3>1, <3>5 DEF HandlerOK
    <2> QED BY Zenon, <2>1 DEF HandlersOK
  <1>4. PromisesOK(d, s, us, Tail(ds), Nothing)
    <2>1. ASSUME Alive(d, s), NEW kind \in Questions
          PROVE  PromiseOK(kind, d, us, Tail(ds))
      <3>1. Alive(c, s)
        BY Zenon, <2>1 DEF Alive
      <3>2. PromiseOK(kind, c, us, ds)
        BY <3>1 DEF AnswersComing, Accounted, PromisesOK, Nothing
      <3>3. CASE m.type = "Info" /\ m.kind = kind
        <4>1. m \in Infos(kind)
          BY Zenon, <1>1, <3>3 DEF Infos
        <4>2. ~ NoneOf(ds, Infos(kind))
          BY Zenon, <1>1, <4>1 DEF NoneOf
        <4>3. NoneOf(us, Asks(kind)) /\ OneOf(ds, Infos(kind))
          BY Zenon, <3>2, <4>2 DEF PromiseOK
        <4>4. NoneOf(Tail(ds), Infos(kind))
          BY Zenon, <4>1, <4>3, OneWasFirst
        <4>5. kind \notin d.promises
          BY Zenon, <3>3
        <4> QED BY Zenon, <4>3, <4>4, <4>5 DEF PromiseOK
      <3>4. CASE ~ (m.type = "Info" /\ m.kind = kind)
        <4>1. m \notin Infos(kind)
          BY Zenon, <3>4 DEF Infos
        <4>2. Kept(ds, Tail(ds), Infos(kind))
          BY Zenon, <4>1, KeptTail
        <4>3. kind \in c.promises <=> kind \in d.promises
          BY Zenon, <3>4
        <4> QED BY Zenon, <3>2, <4>2, <4>3 DEF PromiseOK, Kept
      <3> QED BY Zenon, <3>3, <3>4
    <2> QED BY Zenon, <2>1 DEF PromisesOK
  <1>5. AnswersOK(d, Tail(ds))
    <2>1. ASSUME NEW i \in 1..Len(Tail(ds))
          PROVE  i + 1 \in 1..Len(ds) /\ Tail(ds)[i] = ds[i + 1]
      BY <2>1, TailOfList
    <2> QED BY Zenon, <1>2, <2>1 DEF AnswersComing, Accounted, AnswersOK
  <1>6. FreshOK(d, s, us)
    BY DEF AnswersComing, FreshOK
  <1>7. EventsOK(d, s, us, wanted)
    BY Zenon DEF AnswersComing, EventsOK
  <1> QED BY Zenon, <1>3, <1>4, <1>5, <1>6, <1>7 DEF AnswersComing, Accounted

(* Steps that are about no request and no question.                        *)
LEMMA NoNewRequest ==
    ASSUME NEW us \in Seq(UpMessage), NEW vs \in Seq(UpMessage), NEW concern,
           concern.requests = {}, Grown(us, vs, SparingUp(concern))
    PROVE  NoRequest(us) => NoRequest(vs)
  <1>1. \A m \in SparingUp(concern) : m.type # "Request"
    BY DEF SparingUp
  <1> QED BY <1>1 DEF Grown, NoRequest

LEMMA EventsTalk ==
    ASSUME NEW c, NEW d, NEW s, NEW us \in Seq(UpMessage), NEW vs \in Seq(UpMessage), NEW S,
           NEW wanted, Grown(us, vs, S), EventsOK(c, s, us, wanted),
           d.state = "BinaryMode" \/ ~ NoRequest(vs) =>
              c.state = "BinaryMode" \/ ~ NoRequest(us)
    PROVE  EventsOK(d, s, vs, wanted)
  <1> SUFFICES ASSUME wanted = "All", s.open, d.state = "BinaryMode" \/ ~ NoRequest(vs),
                      ~ s.events
               PROVE  \E k \in 1..Len(vs) : /\ vs[k] = Action("all events")
                                            /\ \A i \in 1..k : vs[i].type # "Request"
    BY Zenon DEF EventsOK
  <1>1. PICK k \in 1..Len(us) : /\ us[k] = Action("all events")
                                /\ \A i \in 1..k : us[i].type # "Request"
    BY Zenon DEF EventsOK
  <1>2. \A i \in 1..k : i \in 1..Len(us)
    OBVIOUS
  <1>3. k \in 1..Len(vs) /\ k \in 1..k
    BY DEF Grown
  <1>4. \A i \in 1..Len(us) : vs[i] = us[i]
    BY Zenon DEF Grown
  <1> QED BY Zenon, <1>1, <1>2, <1>3, <1>4

LEMMA ClientKeepsAnswering ==
    ASSUME NEW y \in ClientSides, NEW z, NEW s, NEW ds, NEW wanted, NEW concern,
           Keeps(y, z, concern), concern.requests = {}, concern.questions = {},
           \A h \in y.c.handlers : h.ref \notin concern.accounts,
           z.c.state = "BinaryMode" => y.c.state = "BinaryMode",
           AnswersComing(y.c, s, y.out, ds, wanted)
    PROVE  AnswersComing(z.c, s, z.out, ds, wanted)
  <1>1. y.out \in Seq(UpMessage) /\ z.out \in Seq(UpMessage)
    BY Zenon, ClientTypes DEF Keeps
  <1>2. Accounted(z.c, s, z.out, ds, wanted, Nothing)
    <2>1. Accounted(y.c, s, y.out, ds, wanted, concern)
      BY Zenon, AccountedPart DEF AnswersComing
    <2>2. Accounted(z.c, s, z.out, ds, wanted, concern)
      BY Zenon, <2>1, AccountedTalks
    <2>3. (\A ref : ref \notin concern.requests) /\ \A kind : kind \notin concern.questions
      OBVIOUS
    <2> QED BY Zenon, <2>2, <2>3, AccountedWhole
  <1>3. NoRequest(y.out) => NoRequest(z.out)
    BY Zenon, <1>1, NoNewRequest DEF Keeps
  <1>4. FreshOK(z.c, s, z.out)
    <2>1. /\ z.c.state \in {"NotConnected", "Connecting"} =>
                y.c.state \in {"NotConnected", "Connecting"}
          /\ \A h \in z.c.handlers : h \in y.c.handlers
          /\ \A kind \in z.c.promises : kind \in y.c.promises
      BY DEF Keeps, StaysOut, KeepsOthers, OthersStay
    <2>2. FreshOK(y.c, s, y.out)
      BY Zenon DEF AnswersComing
    <2> QED BY <1>3, <2>1, <2>2 DEF FreshOK
  <1>5. EventsOK(z.c, s, z.out, wanted)
    BY Zenon, <1>1, <1>3, EventsTalk DEF AnswersComing, Keeps
  <1> QED BY Zenon, <1>2, <1>4, <1>5 DEF AnswersComing
(* What the client does with an answer, or with information.               *)
SameEnd(c, d) ==
    /\ d.state = c.state /\ d.nextRef = c.nextRef /\ d.loginRef = c.loginRef
    /\ d.accountRef = c.accountRef

Takes(y, z, m) ==
    /\ SameEnd(y.c, z.c) /\ z.out = y.out
    /\ \A h \in z.c.handlers :
          /\ h \in y.c.handlers
          /\ IsAnswer(m) => h.ref # m.ref \/ m.ref \in {y.c.loginRef, y.c.accountRef}
    /\ z.c.promises \subseteq y.c.promises
    /\ \A kind \in Questions :
          kind \in z.c.promises <=> kind \in y.c.promises /\ ~ (m.type = "Info" /\ m.kind = kind)

LEMMA HandlerTaken ==
    ASSUME NEW y \in ClientSides, NEW m, m.type # "Info"
    PROVE  Takes(y, TakeHandler(y, m.ref), m)
  <1> DEFINE z == TakeHandler(y, m.ref)
  <1>1. /\ SameEnd(y.c, z.c) /\ z.out = y.out /\ z.c.promises = y.c.promises
        /\ z.c.handlers = {h \in y.c.handlers : h.ref # m.ref}
    BY Zenon DEF TakeHandler, ClientSides, ClientEnds, SameEnd
  <1> HIDE DEF z
  <1>2. Takes(y, z, m)
    BY Zenon, <1>1 DEF Takes
  <1> QED BY Zenon, <1>2 DEF z

LEMMA ResultTaken ==
    ASSUME NEW y \in ClientSides, NEW m, m.type = "Result"
    PROVE  Takes(y, HandleResultMessage(y, m), m)
  <1> DEFINE z == HandleResultMessage(y, m)
  <1>1. CASE m.ref = y.c.loginRef
    <2> DEFINE w == HandleUserLoginResult(y, m)
    <2>1. /\ SameEnd(y.c, w.c) /\ w.out = y.out /\ w.c.promises = y.c.promises
          /\ w.c.handlers = y.c.handlers
      BY Zenon DEF HandleUserLoginResult, ClientSides, ClientEnds, SameEnd
    <2>2. z = w
      BY Zenon, <1>1 DEF HandleResultMessage
    <2>3. m.ref \in {y.c.loginRef, y.c.accountRef} /\ m.type # "Info"
      BY <1>1
    <2> HIDE DEF w
    <2>4. Takes(y, w, m)
      BY Zenon, <2>1, <2>3 DEF Takes
    <2> QED BY Zenon, <2>2, <2>4
  <1>2. CASE m.ref # y.c.loginRef /\ m.ref = y.c.accountRef
    <2> DEFINE w == HandleUserRegistrationResult(y, m)
    <2>1. /\ SameEnd(y.c, w.c) /\ w.out = y.out /\ w.c.promises = y.c.promises
          /\ w.c.handlers = y.c.handlers
      BY Zenon DEF HandleUserRegistrationResult, ClientSides, ClientEnds, SameEnd
    <2>2. z = w
      BY Zenon, <1>2 DEF HandleResultMessage
    <2>3. m.ref \in {y.c.loginRef, y.c.accountRef} /\ m.type # "Info"
      BY <1>2
    <2> HIDE DEF w
    <2>4. Takes(y, w, m)
      BY Zenon, <2>1, <2>3 DEF Takes
    <2> QED BY Zenon, <2>2, <2>4
  <1>3. CASE m.ref # y.c.loginRef /\ m.ref # y.c.accountRef
    <2>1. z = TakeHandler(y, m.ref)
      BY Zenon, <1>3 DEF HandleResultMessage
    <2>2. m.type # "Info"
      OBVIOUS
    <2> QED BY Zenon, <2>1, <2>2, HandlerTaken
  <1> QED BY Zenon, <1>1, <1>2, <1>3

LEMMA InfoTaken ==
    ASSUME NEW y \in ClientSides, NEW m, m.type = "Info"
    PROVE  Takes(y, ReceivedInfo(y, m), m)
  <1> DEFINE z == ReceivedInfo(y, m)
  <1>1. /\ SameEnd(y.c, z.c) /\ z.out = y.out /\ z.c.promises = y.c.promises \ {m.kind}
        /\ z.c.handlers = y.c.handlers
    BY Zenon DEF ReceivedInfo, ClientSides, ClientEnds, SameEnd
  <1>2. ~ IsAnswer(m)
    BY DEF IsAnswer
  <1> HIDE DEF z
  <1>3. Takes(y, z, m)
    BY Zenon, <1>1, <1>2 DEF Takes
  <1> QED BY Zenon, <1>3 DEF z

LEMMA ReadingTakes ==
    ASSUME NEW y \in ClientSides, NEW m, IsAnswer(m) \/ m.type = "Info", NEW wanted
    PROVE  Takes(y, OnReadyRead(y, m, wanted), m)
  <1> DEFINE w == WithTimer(y)
             z == OnReadyRead(y, m, wanted)
  <1>1. m.type \in {"Result", "AdditionConfirmation", "Reply", "Info"}
    BY DEF IsAnswer
  <1>2. z = HandleStandardMessage(w, m)
    BY Zenon, <1>1 DEF OnReadyRead, HandleBinaryMessage, WithTimer
  <1>3. /\ w \in ClientSides /\ SameEnd(y.c, w.c) /\ w.out = y.out
        /\ w.c.handlers = y.c.handlers /\ w.c.promises = y.c.promises
    BY Zenon, TimerRestarted DEF SameEnd, KeepsLogin
  <1> HIDE DEF w, z
  <1>4. Takes(w, z, m)
    <2>1. CASE m.type = "Result"
      BY Zenon, <1>2, <1>3, <2>1, ResultTaken DEF HandleStandardMessage
    <2>2. CASE m.type = "Info"
      BY Zenon, <1>2, <1>3, <2>2, InfoTaken DEF HandleStandardMessage
    <2>3. CASE m.type \in {"AdditionConfirmation", "Reply"}
      <3>1. m.type # "Info"
        BY <2>3
      <3>2. z = TakeHandler(w, m.ref)
        BY Zenon, <1>2, <2>3
           DEF HandleStandardMessage, ReceivedAdditionConfirmation, ReceivedReply
      <3> QED BY Zenon, <1>3, <3>1, <3>2, HandlerTaken
    <2> QED BY Zenon, <1>1, <2>1, <2>2, <2>3
  <1>5. Takes(y, z, m)
    BY Zenon, <1>3, <1>4 DEF Takes, SameEnd
  <1> QED BY Zenon, <1>5 DEF z

(* In binary mode the client asks for the events before anything else.     *)
LEMMA BinaryModeAnswering ==
    ASSUME NEW y \in ClientSides, NEW s, NEW ds, NEW wanted,
           y.c.state \notin {"NotConnected", "Connecting", "Closed"},
           AnswersComing(y.c, s, y.out, ds, wanted), NEW z, z = EnterBinaryMode(y, wanted),
           z \in ClientSides
    PROVE  AnswersComing(z.c, s, z.out, ds, wanted)
  <1> DEFINE ms == OpeningMessages(wanted)
             us == y.out
  <1>1. /\ ms \in Seq(UpMessage) /\ \A i \in 1..Len(ms) : ms[i] \in PlainUp(y.c, Nothing)
        /\ 3 \in 1..Len(ms) /\ ms[3] = EventRequest(wanted)
    BY Zenon, OpeningIsPlain
  <1>2. \A i \in 1..Len(ms) : ms[i] \in SparingUp(Nothing) /\ ms[i].type # "Request"
    BY <1>1 DEF PlainUp, SparingUp, Nothing
  <1>3. us \in Seq(UpMessage)
    BY Zenon, ClientTypes
  <1> HIDE DEF ms
  <1>4. /\ z.out = us \o ms /\ z.c.state = "BinaryMode" /\ z.c.nextRef = y.c.nextRef
        /\ z.c.loginRef = y.c.loginRef /\ z.c.accountRef = y.c.accountRef
        /\ z.c.handlers = y.c.handlers /\ z.c.promises = y.c.promises
    BY Zenon DEF EnterBinaryMode, ClientSides, ClientEnds, ms
  <1> HIDE DEF us
  <1>5. Grown(us, z.out, SparingUp(Nothing))
    BY Zenon, <1>1, <1>2, <1>3, <1>4, GrownConcat
  <1>6. Keeps(y, z, Nothing)
    <2>1. StaysOut(y.c, z.c)
      BY <1>4 DEF StaysOut
    <2>2. KeepsOthers(y.c, z.c, Nothing)
      BY Zenon, <1>4 DEF KeepsOthers, OthersStay
    <2>3. y.c.nextRef <= z.c.nextRef
      BY <1>4, ClientTypes
    <2> QED BY Zenon, <1>4, <1>5, <2>1, <2>2, <2>3 DEF Keeps, us
  <1>7. Accounted(z.c, s, z.out, ds, wanted, Nothing)
    <2>1. \A h \in y.c.handlers : h.ref \notin Nothing.accounts
      BY DEF Nothing
    <2> QED BY Zenon, <1>6, <2>1, AccountedTalks DEF AnswersComing
  <1>8. FreshOK(z.c, s, z.out)
    BY <1>4 DEF AnswersComing, FreshOK
  <1>9. EventsOK(z.c, s, z.out, wanted)
    <2>1. CASE ~ NoRequest(us)
      <3>1. z.out \in Seq(UpMessage) /\ EventsOK(y.c, s, us, wanted)
        BY Zenon DEF ClientSides, AnswersComing, us
      <3> QED BY Zenon, <1>3, <1>5, <2>1, <3>1, EventsTalk
    <2>2. CASE NoRequest(us)
      <3> DEFINE k == Len(us) + 3
      <3>1. k \in 1..Len(z.out) /\ z.out[k] = ms[3]
        BY <1>1, <1>3, <1>4
      <3>2. \A i \in 1..Len(z.out) : z.out[i].type # "Request"
        BY <1>1, <1>2, <1>3, <1>4, <2>2 DEF NoRequest
      <3>3. \A i \in 1..k : i \in 1..Len(z.out)
        BY <3>1
      <3>4. wanted = "All" => z.out[k] = Action("all events")
        BY Zenon, <1>1, <3>1 DEF EventRequest
      <3> HIDE DEF k
      <3> QED BY Zenon, <3>1, <3>2, <3>3, <3>4 DEF EventsOK
    <2> QED BY Zenon, <2>1, <2>2
  <1> QED BY Zenon, <1>7, <1>8, <1>9 DEF AnswersComing

LEMMA SaltKeeps ==
    ASSUME NEW y \in ClientSides, NEW m \in DownMessage, m.type = "LoginSalt"
    PROVE  Keeps(y, HandleLoginSalt(y, m), AboutAccount(y.c.loginRef))
  <1> DEFINE n == Finish("FinishLogin", m.login, y.c.loginRef, m.salt, y.c.right)
             out == Append(y.out, n)
             z == HandleLoginSalt(y, m)
             concern == AboutAccount(y.c.loginRef)
  <1>1. y.c \in ClientEnds /\ y.out \in Seq(UpMessage) /\ y.c.loginRef \in Nat
    BY Zenon, ClientTypes
  <1>2. m.login \in Users /\ m.salt \in Nat /\ y.c.right \in BOOLEAN
    BY <1>1, DownFields DEF ClientEnds
  <1>3. n \in SparingUp(concern) /\ n \in UpMessage
    BY <1>1, <1>2 DEF UpMessage, Finish, SparingUp, AboutAccount
  <1>4. z = IF m.login # y.c.loggingIn THEN y ELSE [y EXCEPT !.out = out]
    BY Zenon DEF HandleLoginSalt, SendBinary
  <1> HIDE DEF n, concern
  <1>5. /\ out \in Seq(UpMessage) /\ Grown(y.out, out, SparingUp(concern))
        /\ Grown(y.out, y.out, SparingUp(concern))
    <2>1. Grown(y.out, out, SparingUp(concern)) /\ Grown(y.out, y.out, SparingUp(concern))
      BY Zenon, <1>1, <1>3, GrownAppend, GrownSame
    <2>2. out \in Seq(UpMessage)
      BY <1>1, <1>3
    <2> QED BY <2>1, <2>2
  <1> HIDE DEF out, z
  <1>6. z \in ClientSides /\ z.c = y.c /\ z.out \in {y.out, out}
    BY Zenon, <1>4, <1>5 DEF ClientSides
  <1>7. Grown(y.out, z.out, SparingUp(concern))
    BY Zenon, <1>5, <1>6
  <1>8. y.c.nextRef <= y.c.nextRef
    BY ClientTypes
  <1>9. Keeps(y, z, concern)
    BY Zenon, <1>6, <1>7, <1>8 DEF Keeps, StaysOut, KeepsOthers, OthersStay
  <1> QED BY Zenon, <1>9 DEF z, concern

LEMMA ClientReadsAnswering ==
    ASSUME NEW y \in ClientSides, NEW s, NEW users, NEW ds \in Seq(DownMessage), ds # << >>,
           Consistent(y.c, s, users, y.out, ds),
           y.c.state \notin {"NotConnected", "Connecting", "Closed"},
           NEW wanted, AnswersComing(y.c, s, y.out, ds, wanted),
           NEW z, z = OnReadyRead(y, Head(ds), wanted), z \in ClientSides
    PROVE  AnswersComing(z.c, s, z.out, Tail(ds), wanted)
  <1> DEFINE m == Head(ds)
             rest == Tail(ds)
  <1>1. m \in DownMessage /\ RefsOK(y.c)
    BY Zenon, TailOfList DEF Consistent, ReferencesOK
  <1>2. CASE IsAnswer(m) \/ m.type = "Info"
    <2>1. Takes(y, z, m)
      BY Zenon, <1>2, ReadingTakes
    <2>2. AnswersComing(z.c, s, y.out, rest, wanted)
      BY Zenon, <2>1, AnswerRead DEF Takes, SameEnd
    <2> QED BY Zenon, <2>1, <2>2 DEF Takes
  <1>3. CASE ~ (IsAnswer(m) \/ m.type = "Info")
    <2>1. AnswersComing(y.c, s, y.out, rest, wanted)
      BY Zenon, <1>3, AnswerRead
    <2>2. CASE m.type = "Header"
      <3>1. z = EnterBinaryMode(y, wanted)
        BY Zenon, <2>2 DEF OnReadyRead
      <3> QED BY Zenon, <2>1, <3>1, BinaryModeAnswering
    <2>3. \A h \in y.c.handlers : h.ref # y.c.loginRef /\ h.ref # y.c.accountRef
      BY DEF AnswersComing, Accounted, HandlersOK, HandlerOK, Nothing, OtherRefs
    <2>4. CASE m.type = "LoginSalt"
      <3> DEFINE w == WithTimer(y)
                 none == Nothing
                 concern == AboutAccount(w.c.loginRef)
      <3>1. z = HandleLoginSalt(w, m)
        BY Zenon, <2>4 DEF OnReadyRead, HandleBinaryMessage, HandleStandardMessage, WithTimer
      <3>2. /\ w \in ClientSides /\ Talks(y, w, none) /\ w.c.loginRef = y.c.loginRef
            /\ w.c.handlers = y.c.handlers /\ w.c.state = y.c.state
        BY Zenon, <1>1, TimerRestarted DEF KeepsLogin
      <3>3. none.requests = {} /\ none.questions = {} /\ \A ref : ref \notin none.accounts
        BY DEF Nothing
      <3>4. /\ concern.requests = {} /\ concern.questions = {}
            /\ \A ref \in concern.accounts : ref = w.c.loginRef
        BY DEF AboutAccount
      <3>5. Keeps(w, HandleLoginSalt(w, m), concern)
        BY Zenon, <1>1, <2>4, <3>2, SaltKeeps
      <3>6. z.c.state = "BinaryMode" => w.c.state = "BinaryMode"
        <4>1. z.c = w.c
          <5> HIDE DEF w
          <5> QED BY Zenon, <3>1, <3>2 DEF HandleLoginSalt, SendBinary, ClientSides
        <4> QED BY Zenon, <4>1
      <3> HIDE DEF w, none, concern
      <3>7. AnswersComing(w.c, s, w.out, rest, wanted)
        BY Zenon, <2>1, <3>2, <3>3, TalksKeeps, ClientKeepsAnswering
      <3>8. \A h \in w.c.handlers : h.ref \notin concern.accounts
        BY Zenon, <2>3, <3>2, <3>4
      <3> QED BY Zenon, <3>1, <3>2, <3>4, <3>5, <3>6, <3>7, <3>8, ClientKeepsAnswering
    <2>5. CASE m.type \notin {"Header", "LoginSalt"}
      <3> DEFINE concern == AboutAccount(y.c.accountRef)
      <3>1. /\ concern.requests = {} /\ concern.questions = {}
            /\ \A ref : ref \in concern.accounts <=> ref = y.c.accountRef
        BY DEF AboutAccount
      <3>2. m.type # "Result"
        BY <1>3 DEF IsAnswer
      <3> HIDE DEF concern
      <3>3. Talks(y, z, concern)
        BY Zenon, <1>1, <1>3, <2>5, <3>1, <3>2, TalksReading
      <3>4. z.c.state = "BinaryMode" => y.c.state = "BinaryMode"
        BY Zenon, <3>3 DEF Talks
      <3>5. \A h \in y.c.handlers : h.ref \notin concern.accounts
        BY Zenon, <2>3, <3>1
      <3> QED BY Zenon, <2>1, <3>1, <3>3, <3>4, <3>5, TalksKeeps, ClientKeepsAnswering
    <2> QED BY Zenon, <2>2, <2>4, <2>5
  <1> QED BY Zenon, <1>2, <1>3
-----------------------------------------------------------------------------
(* The user of the client asks for something.                              *)

LEMMA BinaryModeFresh ==
    ASSUME NEW c, NEW s, NEW users, NEW us, NEW ds, c.state = "BinaryMode",
           Consistent(c, s, users, us, ds), NEW d, d.state = "BinaryMode", NEW vs
    PROVE  FreshOK(d, s, vs)
  <1>1. s.open => s.binary
    BY Zenon DEF Consistent, BinaryOK
  <1> QED BY <1>1 DEF FreshOK

LEMMA BinaryModeEvents ==
    ASSUME NEW y \in ClientSides, NEW s, NEW wanted, y.c.state = "BinaryMode",
           EventsOK(y.c, s, y.out, wanted), NEW z, NEW concern, Talks(y, z, concern)
    PROVE  EventsOK(z.c, s, z.out, wanted)
  <1>1. y.out \in Seq(UpMessage) /\ z.out \in Seq(UpMessage)
    BY Zenon, TalksTyped, ClientTypes
  <1>2. Grown(y.out, z.out, PlainUp(z.c, concern))
    BY Zenon DEF Talks
  <1> QED BY Zenon, <1>1, <1>2, EventsTalk

LEMMA RequestIsSent ==
    ASSUME NEW y \in ClientSides, NEW s, NEW users, NEW ds, NEW wanted,
           y.c.state = "BinaryMode", Consistent(y.c, s, users, y.out, ds),
           AnswersComing(y.c, s, y.out, ds, wanted),
           NEW kind \in Kinds, NEW possible \in BOOLEAN,
           NEW z, z = SendRequest(y, kind, possible)
    PROVE  AnswersComing(z.c, s, z.out, ds, wanted)
  <1> DEFINE ref == y.c.nextRef
             next == ref + 1
             new == [ref |-> ref, kind |-> kind]
             handlers == y.c.handlers \cup {new}
             m == Request(kind, ref, possible)
             out == Append(y.out, m)
             concern == About(ref)
  <1>1. /\ y.c \in ClientEnds /\ y.out \in Seq(UpMessage) /\ ref \in Nat /\ next \in Nat
        /\ y.c.loginRef \in Nat /\ y.c.accountRef \in Nat
    BY ClientTypes
  <1>2. RefsOK(y.c) /\ TasksOK(y.c, s.tasks) /\ \A i \in 1..Len(y.out) : UpOK(y.out[i], y.c)
    BY Zenon DEF Consistent, ReferencesOK
  <1>3. m \in UpMessage /\ m.type = "Request" /\ m.ref = ref /\ m.kind = kind
    BY <1>1 DEF UpMessage, Request
  <1>4. new.ref = ref /\ new.kind = kind
    OBVIOUS
  <1>5. ref \in concern.requests /\ concern.accounts = {} /\ concern.questions = {}
        /\ \A other \in concern.requests : other = ref
    BY DEF About
  <1> HIDE DEF concern, m, new
  <1>6. Talks(y, z, concern)
    BY Zenon, <1>2, <1>5, TalksRequest
  <1>7. /\ z.c.state = "BinaryMode" /\ z.c.nextRef = next /\ z.c.loginRef = y.c.loginRef
        /\ z.c.accountRef = y.c.accountRef /\ z.c.handlers = handlers
        /\ z.c.promises = y.c.promises /\ z.out = out
    <2> DEFINE w == [y EXCEPT !.c.nextRef = next, !.c.handlers = handlers]
    <2>1. z = SendBinary(w, m)
      BY Zenon DEF SendRequest, WithNewReference, ClientSides, ClientEnds, m, new
    <2> HIDE DEF handlers, next
    <2>2. /\ w.c.state = y.c.state /\ w.c.nextRef = next /\ w.c.loginRef = y.c.loginRef
          /\ w.c.accountRef = y.c.accountRef /\ w.c.handlers = handlers
          /\ w.c.promises = y.c.promises /\ w.out = y.out
      BY Zenon DEF ClientSides, ClientEnds
    <2>3. z.c = w.c /\ z.out = Append(w.out, m)
      BY Zenon, <2>1 DEF SendBinary, ClientSides
    <2> HIDE DEF w
    <2> QED BY Zenon, <2>2, <2>3
  <1>8. Accounted(z.c, s, z.out, ds, wanted, concern)
    <2>1. \A h \in y.c.handlers : h.ref \notin concern.accounts
      BY <1>5
    <2>2. Accounted(y.c, s, y.out, ds, wanted, concern)
      BY Zenon, AccountedPart DEF AnswersComing
    <2> QED BY Zenon, <1>6, <2>1, <2>2, TalksKeeps, AccountedTalks
  <1>9. ref \notin UsedRefs(y.c) /\ ref \in OtherRefs(z.c) /\ ref # z.c.accountRef
    BY <1>1, <1>2, <1>7 DEF UsedRefs, OtherRefs, RefsOK
  <1>10. \A h \in y.c.handlers : h.ref \in UsedRefs(y.c)
    BY DEF AnswersComing, Accounted, HandlersOK, HandlerOK, Nothing, OtherRefs
  <1>11. /\ \A i \in 1..Len(y.out) : y.out[i].type \in Referring => y.out[i].ref # ref
         /\ m \in RequestsFor(ref)
    BY <1>1, <1>2, <1>3, <1>9 DEF UpOK, OtherRefs, Referring, RequestsFor
  <1>12. HandlerOK(new, z.c, s, z.out, ds, wanted)
    <2>1. KnownUp(new, z.out)
      <3>1. ASSUME NEW i \in 1..Len(out)
            PROVE  (i \in 1..Len(y.out) /\ out[i] = y.out[i]) \/ out[i] = m
        BY <1>1, <1>3
      <3> HIDE DEF out
      <3> QED BY Zenon, <1>3, <1>4, <1>7, <1>11, <3>1 DEF KnownUp
    <2>2. NoneOf(y.out, RequestsFor(ref))
      <3>1. "Request" \in Referring
        BY DEF Referring
      <3> QED BY Zenon, <1>11, <3>1 DEF NoneOf, RequestsFor
    <2>3. OneOf(z.out, RequestsFor(ref))
      BY Zenon, <1>1, <1>3, <1>7, <1>11, <2>2, OneMore
    <2>4. NoTask(s.tasks, ref)
      BY Zenon, <1>2, <1>9 DEF TasksOK, OtherRefs, NoTask
    <2>5. NoneOf(ds, AnswersTo(ref))
      BY Zenon, <1>9 DEF AnswersComing, Accounted, AnswersOK, NoneOf, AnswersTo
    <2>6. Pending(ref, s.tasks, z.out, ds)
      BY Zenon, <2>3, <2>4, <2>5 DEF Pending, Idle
    <2> QED BY Zenon, <1>4, <1>9, <2>1, <2>6 DEF HandlerOK
  <1>13. Accounted(z.c, s, z.out, ds, wanted, Nothing)
    <2>1. ASSUME NEW h \in z.c.handlers, h.ref \in concern.requests
          PROVE  HandlerOK(h, z.c, s, z.out, ds, wanted)
      <3>1. h.ref = ref
        BY Zenon, <1>5, <2>1
      <3>2. h = new
        BY <1>7, <1>9, <1>10, <3>1
      <3> QED BY Zenon, <1>12, <3>2
    <2>2. \A q : q \notin concern.questions
      BY <1>5
    <2> QED BY Zenon, <1>8, <2>1, <2>2, AccountedWhole
  <1>14. FreshOK(z.c, s, z.out)
    BY Zenon, <1>7, BinaryModeFresh
  <1>15. EventsOK(z.c, s, z.out, wanted)
    BY Zenon, <1>6, BinaryModeEvents DEF AnswersComing
  <1> QED BY Zenon, <1>13, <1>14, <1>15 DEF AnswersComing

LEMMA QuestionIsAsked ==
    ASSUME NEW y \in ClientSides, NEW s, NEW users, NEW ds, NEW wanted,
           y.c.state = "BinaryMode", Consistent(y.c, s, users, y.out, ds),
           AnswersComing(y.c, s, y.out, ds, wanted), NEW kind \in Questions,
           NEW z, z = AskOnce(y, kind)
    PROVE  AnswersComing(z.c, s, z.out, ds, wanted)
  <1> DEFINE promises == y.c.promises \cup {kind}
             m == Ask(kind)
             out == Append(y.out, m)
             concern == AboutQuestion(kind)
  <1>1. CASE kind \in y.c.promises \cup y.c.cached
    BY Zenon, <1>1 DEF AskOnce
  <1>2. CASE kind \notin y.c.promises \cup y.c.cached
    <2>1. y.c \in ClientEnds /\ y.out \in Seq(UpMessage)
      BY Zenon, ClientTypes
    <2>2. RefsOK(y.c)
      BY Zenon DEF Consistent, ReferencesOK
    <2>3. m \in UpMessage /\ m \in Asks(kind)
      BY DEF UpMessage, Ask, Asks
    <2>4. kind \in concern.questions /\ concern.accounts = {} /\ concern.requests = {}
          /\ \A other \in concern.questions : other = kind
      BY DEF AboutQuestion
    <2> HIDE DEF concern, m
    <2>5. Talks(y, z, concern)
      BY Zenon, <2>2, <2>4, TalksOnce
    <2>6. z.c.state = "BinaryMode" /\ z.c.promises = promises /\ z.out = out
      <3> DEFINE w == [y EXCEPT !.c.promises = promises]
      <3>1. z = SendBinary(w, m)
        BY Zenon, <1>2 DEF AskOnce, ClientSides, ClientEnds, m
      <3> HIDE DEF promises
      <3>2. w.c.state = y.c.state /\ w.c.promises = promises /\ w.out = y.out
        BY Zenon DEF ClientSides, ClientEnds
      <3>3. z.c = w.c /\ z.out = Append(w.out, m)
        BY Zenon, <3>1 DEF SendBinary, ClientSides
      <3> HIDE DEF w
      <3> QED BY Zenon, <3>2, <3>3
    <2>7. Accounted(z.c, s, z.out, ds, wanted, concern)
      <3>1. \A h \in y.c.handlers : h.ref \notin concern.accounts
        BY <2>4
      <3>2. Accounted(y.c, s, y.out, ds, wanted, concern)
        BY Zenon, AccountedPart DEF AnswersComing
      <3> QED BY Zenon, <2>5, <3>1, <3>2, TalksKeeps, AccountedTalks
    <2>8. ASSUME Alive(z.c, s)
          PROVE  PromiseOK(kind, z.c, z.out, ds)
      <3>1. Alive(y.c, s)
        BY <2>6, <2>8 DEF Alive
      <3>2. PromiseOK(kind, y.c, y.out, ds)
        BY <3>1 DEF AnswersComing, Accounted, PromisesOK, Nothing
      <3>3. NoneOf(y.out, Asks(kind)) /\ NoneOf(ds, Infos(kind))
        BY <1>2, <3>2 DEF PromiseOK
      <3>4. OneOf(z.out, Asks(kind))
        BY Zenon, <2>1, <2>3, <2>6, <3>3, OneMore
      <3>5. kind \in z.c.promises
        BY <2>6
      <3> QED BY Zenon, <3>3, <3>4, <3>5 DEF PromiseOK
    <2>9. Accounted(z.c, s, z.out, ds, wanted, Nothing)
      <3>1. \A ref : ref \notin concern.requests
        BY <2>4
      <3> QED BY Zenon, <2>4, <2>7, <2>8, <3>1, AccountedWhole
    <2>10. FreshOK(z.c, s, z.out)
      BY Zenon, <2>6, BinaryModeFresh
    <2>11. EventsOK(z.c, s, z.out, wanted)
      BY Zenon, <2>5, BinaryModeEvents DEF AnswersComing
    <2> QED BY Zenon, <2>9, <2>10, <2>11 DEF AnswersComing
  <1> QED BY Zenon, <1>1, <1>2

LEMMA LoginKeepsAnswering ==
    ASSUME NEW y \in ClientSides, NEW s, NEW users, NEW ds, NEW wanted,
           y.c.state = "BinaryMode", AnswersComing(y.c, s, y.out, ds, wanted),
           NEW user \in Users, NEW right \in BOOLEAN,
           NEW z, z = Login(y, user, right), z \in ClientSides
    PROVE  AnswersComing(z.c, s, z.out, ds, wanted)
  <1> DEFINE ref == y.c.nextRef
             next == ref + 1
             m == Initiate("InitiateLogin", user, ref)
             out == Append(y.out, m)
             concern == AboutAccount(ref)
  <1>1. y.c \in ClientEnds /\ y.out \in Seq(UpMessage) /\ ref \in Nat /\ next \in Nat
    BY ClientTypes
  <1>2. /\ concern.requests = {} /\ concern.questions = {}
        /\ \A other : other \in concern.accounts <=> other = ref
    BY DEF AboutAccount
  <1>3. m \in UpMessage /\ m.type = "InitiateLogin" /\ m.ref = ref
    BY <1>1 DEF UpMessage, Initiate
  <1>4. m \in SparingUp(concern)
    BY <1>2, <1>3 DEF SparingUp
  <1> HIDE DEF concern, m
  <1>5. Grown(y.out, out, SparingUp(concern))
    BY Zenon, <1>1, <1>3, <1>4, GrownAppend
  <1>6. /\ z.c.state = y.c.state /\ z.c.nextRef = next /\ z.c.loginRef = ref
        /\ z.c.accountRef = y.c.accountRef /\ z.c.handlers = y.c.handlers
        /\ z.c.promises = y.c.promises /\ z.out = out
    <2> DEFINE over == y.c.overtaken \/ y.c.loggingIn # Nobody
           w == [y EXCEPT !.c.nextRef = next, !.c.overtaken = over, !.c.loginRef = ref,
                          !.c.loggingIn = user, !.c.right = right]
    <2>1. z = SendBinary(w, m)
      BY Zenon DEF Login, WithNewReference, ClientSides, ClientEnds, m
    <2> HIDE DEF next, over
    <2>2. /\ w.c.state = y.c.state /\ w.c.nextRef = next /\ w.c.loginRef = ref
          /\ w.c.accountRef = y.c.accountRef /\ w.c.handlers = y.c.handlers
          /\ w.c.promises = y.c.promises /\ w.out = y.out
      BY Zenon DEF ClientSides, ClientEnds
    <2>3. z.c = w.c /\ z.out = Append(w.out, m)
      BY Zenon, <2>1 DEF SendBinary, ClientSides
    <2> HIDE DEF w
    <2> QED BY Zenon, <2>2, <2>3
  <1>7. y.c.nextRef <= next
    BY <1>1
  <1> HIDE DEF next, out
  <1>8. Keeps(y, z, concern)
    BY Zenon, <1>2, <1>5, <1>6, <1>7 DEF Keeps, StaysOut, KeepsOthers, OthersStay
  <1>9. \A h \in y.c.handlers : h.ref \notin concern.accounts
    <2>1. \A h \in y.c.handlers : h.ref \in UsedRefs(y.c)
      BY DEF AnswersComing, Accounted, HandlersOK, HandlerOK, Nothing, OtherRefs
    <2>2. ref \notin UsedRefs(y.c)
      BY <1>1 DEF UsedRefs
    <2> QED BY Zenon, <1>2, <2>1, <2>2
  <1> QED BY Zenon, <1>2, <1>6, <1>8, <1>9, ClientKeepsAnswering
-----------------------------------------------------------------------------
(* The steps of the whole system keep the invariant of requests.           *)

LEMMA AnswersServerStep ==
    ASSUME NEW x, ServerBecomes(x), subscription' = subscription,
           AnswersComing(client', x.s, up', x.out, subscription)
    PROVE  AnswersInv'
  <1>1. server' = x.s /\ down' = x.out
    BY Zenon DEF ServerBecomes
  <1>2. AnswersComing(client', server', up', down', subscription')
    BY Zenon, <1>1
  <1> QED BY Zenon, <1>2 DEF AnswersInv

LEMMA AnswersClientStep ==
    ASSUME NEW y, ClientBecomes(y), server' = server, subscription' = subscription,
           AnswersComing(y.c, server, y.out, down', subscription)
    PROVE  AnswersInv'
  <1>1. client' = y.c /\ up' = y.out
    BY Zenon DEF ClientBecomes
  <1>2. AnswersComing(client', server', up', down', subscription')
    BY Zenon, <1>1
  <1> QED BY Zenon, <1>2 DEF AnswersInv

(* Both invariants, of the ends as they are before a step.                 *)
LEMMA BothInvariants ==
    ASSUME SessionInv, AnswersInv
    PROVE  /\ ServerSide \in ServerSides /\ ClientSide \in ClientSides
           /\ client \in ClientEnds /\ up \in Seq(UpMessage) /\ down \in Seq(DownMessage)
           /\ ServerSide.s = server /\ ServerSide.users = world.users
           /\ ServerSide.out = down /\ ClientSide.c = client /\ ClientSide.out = up
           /\ Consistent(client, server, world.users, up, down)
           /\ AnswersComing(client, server, up, down, subscription)
  BY Zenon, SideTypes DEF SessionInv, SessionTypeOK, AnswersInv

LEMMA AnswersServing ==
    ASSUME SessionInv, AnswersInv, Serving(Nothing)
    PROVE  AnswersInv'
  <1> DEFINE v == ServerSide
  <1>1. PICK x : /\ Serves(v, x, Nothing) /\ ServerBecomes(x)
                 /\ UNCHANGED <<client, up, subscription>>
    BY Zenon DEF Serving
  <1>2. /\ v \in ServerSides /\ client \in ClientEnds
        /\ AnswersComing(client, v.s, up, v.out, subscription)
    BY Zenon, BothInvariants
  <1> HIDE DEF v
  <1>3. AnswersComing(client, x.s, up, x.out, subscription)
    BY Zenon, <1>1, <1>2, ServerServesAnswering
  <1> QED BY Zenon, <1>1, <1>3, AnswersServerStep

LEMMA AnswersTask ==
    ASSUME SessionInv, AnswersInv, NEW task \in server.tasks, RunTask(task)
    PROVE  AnswersInv'
  <1> DEFINE v == ServerSide
             x == FinishTask(v, task)
  <1>1. /\ v \in ServerSides /\ client \in ClientEnds /\ task \in v.s.tasks
        /\ TasksOK(client, v.s.tasks)
        /\ AnswersComing(client, v.s, up, v.out, subscription)
    BY Zenon, BothInvariants DEF Consistent, ReferencesOK
  <1>2. ServerBecomes(x) /\ client' = client /\ up' = up /\ subscription' = subscription
    BY Zenon DEF RunTask
  <1> HIDE DEF v
  <1>3. AnswersComing(client, x.s, up, x.out, subscription)
    BY Zenon, <1>1, ServerFinishesAnswering
  <1> HIDE DEF x
  <1> QED BY Zenon, <1>2, <1>3, AnswersServerStep

LEMMA AnswersTalking ==
    ASSUME SessionInv, AnswersInv, NEW concern, Talking(concern),
           concern.requests = {}, concern.questions = {},
           \A h \in client.handlers : h.ref \notin concern.accounts
    PROVE  AnswersInv'
  <1> DEFINE v == ClientSide
  <1>1. PICK y : /\ Talks(v, y, concern) /\ ClientBecomes(y)
                 /\ UNCHANGED <<server, world, down, subscription>>
    BY Zenon DEF Talking
  <1>2. /\ v \in ClientSides /\ AnswersComing(v.c, server, v.out, down, subscription)
        /\ \A h \in v.c.handlers : h.ref \notin concern.accounts
    BY Zenon, BothInvariants
  <1> HIDE DEF v
  <1>3. Keeps(v, y, concern) /\ (y.c.state = "BinaryMode" => v.c.state = "BinaryMode")
    BY Zenon, <1>1, <1>2, TalksKeeps DEF Talks
  <1>4. AnswersComing(y.c, server, y.out, down, subscription)
    BY Zenon, <1>2, <1>3, ClientKeepsAnswering
  <1>5. AnswersComing(y.c, server, y.out, down', subscription)
    BY Zenon, <1>1, <1>4
  <1> QED BY Zenon, <1>1, <1>5, AnswersClientStep

LEMMA AnswersTalkingOfNothing ==
    ASSUME SessionInv, AnswersInv, Talking(Nothing)
    PROVE  AnswersInv'
  <1> DEFINE concern == Nothing
  <1>1. /\ concern.requests = {} /\ concern.questions = {}
        /\ \A h \in client.handlers : h.ref \notin concern.accounts
    BY DEF Nothing
  <1> HIDE DEF concern
  <1>2. Talking(concern)
    BY Zenon DEF concern
  <1> QED BY Zenon, <1>1, <1>2, AnswersTalking

LEMMA AnswersAccept ==
    ASSUME SessionInv, AnswersInv, Accept
    PROVE  AnswersInv'
  <1> DEFINE v == ServerSide
             x == NewConnection(v)
             d == [client EXCEPT !.state = "Handshake"]
  <1>1. /\ v \in ServerSides /\ client \in ClientEnds /\ client.state = "Connecting"
        /\ AnswersComing(client, v.s, up, v.out, subscription)
    BY Zenon, BothInvariants DEF Accept
  <1>2. ServerBecomes(x) /\ client' = d /\ up' = up /\ subscription' = subscription
    BY Zenon DEF Accept
  <1> HIDE DEF v
  <1>3. AnswersComing(d, x.s, up, x.out, subscription)
    BY Zenon, <1>1, ServerAcceptsAnswering
  <1> HIDE DEF x, d
  <1> QED BY Zenon, <1>2, <1>3, AnswersServerStep

LEMMA AnswersTerminating ==
    ASSUME SessionInv, AnswersInv, ServerShutdown \/ SocketDisconnected
    PROVE  AnswersInv'
  <1> DEFINE v == ServerSide
             x == TerminateConnection(v)
  <1>1. /\ v \in ServerSides /\ client \in ClientEnds
        /\ AnswersComing(client, v.s, up, v.out, subscription)
    BY Zenon, BothInvariants
  <1>2. /\ ServerBecomes(x) /\ client' = client /\ up' = up /\ subscription' = subscription
        /\ server.open
    BY Zenon DEF ServerShutdown, SocketDisconnected
  <1>3. client.state \notin {"NotConnected", "Connecting"}
    BY Zenon, <1>2 DEF SessionInv, Consistent, BeforeTheConnection
  <1> HIDE DEF v
  <1>4. AnswersComing(client, x.s, up, x.out, subscription)
    BY Zenon, <1>1, <1>3, ServerEndsAnswering
  <1> HIDE DEF x
  <1> QED BY Zenon, <1>2, <1>4, AnswersServerStep

LEMMA AnswersServerReading ==
    ASSUME SessionInv, AnswersInv, ServerReads
    PROVE  AnswersInv'
  <1> DEFINE v == ServerSide
             x == DataArrived(v, Head(up))
  <1>1. /\ v \in ServerSides /\ client \in ClientEnds /\ up \in Seq(UpMessage) /\ up # << >>
        /\ v.s.open /\ Consistent(client, v.s, v.users, up, v.out)
        /\ AnswersComing(client, v.s, up, v.out, subscription)
    BY Zenon, BothInvariants DEF ServerReads
  <1>2. /\ ServerBecomes(x) /\ client' = client /\ up' = Tail(up)
        /\ subscription' = subscription
    BY Zenon DEF ServerReads
  <1> HIDE DEF v
  <1>3. AnswersComing(client, x.s, Tail(up), x.out, subscription)
    BY Zenon, <1>1, ServerReadsAnswering
  <1> HIDE DEF x
  <1> QED BY Zenon, <1>2, <1>3, AnswersServerStep

LEMMA AnswersClientReading ==
    ASSUME SessionInv, AnswersInv, ClientReads
    PROVE  AnswersInv'
  <1> DEFINE v == ClientSide
             users == world.users
             y == OnReadyRead(v, Head(down), subscription)
  <1>1. /\ v \in ClientSides /\ down \in Seq(DownMessage) /\ down # << >>
        /\ v.c.state \notin {"NotConnected", "Connecting", "Closed"}
        /\ Consistent(v.c, server, users, v.out, down)
        /\ AnswersComing(v.c, server, v.out, down, subscription)
    BY Zenon, BothInvariants DEF ClientReads
  <1>2. /\ ClientBecomes(y) /\ server' = server /\ down' = Tail(down)
        /\ subscription' = subscription
    BY Zenon DEF ClientReads
  <1> HIDE DEF v, users
  <1>3. y \in ClientSides
    BY Zenon, <1>1, ClientReadsOK
  <1>4. AnswersComing(y.c, server, y.out, Tail(down), subscription)
    BY Zenon, <1>1, <1>3, ClientReadsAnswering
  <1> HIDE DEF y
  <1> QED BY Zenon, <1>2, <1>4, AnswersClientStep

LEMMA AnswersRequest ==
    ASSUME SessionInv, AnswersInv, NEW kind \in Kinds, NEW possible \in BOOLEAN,
           UserDoes(SendRequest(ClientSide, kind, possible))
    PROVE  AnswersInv'
  <1> DEFINE v == ClientSide
             users == world.users
             y == SendRequest(v, kind, possible)
  <1>1. /\ v \in ClientSides /\ v.c.state = "BinaryMode"
        /\ Consistent(v.c, server, users, v.out, down)
        /\ AnswersComing(v.c, server, v.out, down, subscription)
    BY Zenon, BothInvariants DEF UserDoes, IsConnected
  <1>2. /\ ClientBecomes(y) /\ server' = server /\ down' = down
        /\ subscription' = subscription
    BY Zenon DEF UserDoes
  <1> HIDE DEF v, users
  <1>3. AnswersComing(y.c, server, y.out, down, subscription)
    BY Zenon, <1>1, RequestIsSent
  <1> HIDE DEF y
  <1> QED BY Zenon, <1>2, <1>3, AnswersClientStep

LEMMA AnswersQuestion ==
    ASSUME SessionInv, AnswersInv, NEW kind \in Questions, AskFor(kind)
    PROVE  AnswersInv'
  <1> DEFINE v == ClientSide
             users == world.users
             y == AskOnce(v, kind)
  <1>1. /\ v \in ClientSides /\ v.c.state = "BinaryMode"
        /\ Consistent(v.c, server, users, v.out, down)
        /\ AnswersComing(v.c, server, v.out, down, subscription)
    BY Zenon, BothInvariants DEF AskFor, UserDoes, IsConnected
  <1>2. /\ ClientBecomes(y) /\ server' = server /\ down' = down
        /\ subscription' = subscription
    BY Zenon DEF AskFor, UserDoes
  <1> HIDE DEF v, users
  <1>3. AnswersComing(y.c, server, y.out, down, subscription)
    BY Zenon, <1>1, QuestionIsAsked
  <1> HIDE DEF y
  <1> QED BY Zenon, <1>2, <1>3, AnswersClientStep

LEMMA AnswersLogin ==
    ASSUME SessionInv, AnswersInv, NEW user \in Users, NEW right \in BOOLEAN,
           LoginAs(user, right)
    PROVE  AnswersInv'
  <1> DEFINE v == ClientSide
             users == world.users
             y == Login(v, user, right)
  <1>1. /\ v \in ClientSides /\ v.c.state = "BinaryMode" /\ v.c.loggedIn = Nobody
        /\ down \in Seq(DownMessage) /\ Consistent(v.c, server, users, v.out, down)
        /\ AnswersComing(v.c, server, v.out, down, subscription)
    BY Zenon, BothInvariants DEF LoginAs, UserDoes, IsConnected
  <1>2. /\ ClientBecomes(y) /\ server' = server /\ down' = down
        /\ subscription' = subscription
    BY Zenon DEF LoginAs, UserDoes
  <1> HIDE DEF v, users
  <1>3. y \in ClientSides
    BY Zenon, <1>1, ClientLogsIn
  <1>4. AnswersComing(y.c, server, y.out, down, subscription)
    BY Zenon, <1>1, <1>3, LoginKeepsAnswering
  <1> HIDE DEF y
  <1> QED BY Zenon, <1>2, <1>4, AnswersClientStep

LEMMA AnswersRegistration ==
    ASSUME SessionInv, AnswersInv, NEW user \in Users, Register(user)
    PROVE  AnswersInv'
  <1> DEFINE concern == AboutAccount(client.nextRef)
  <1>1. Talking(concern)
    BY Zenon, AccountTalks
  <1>2. /\ concern.requests = {} /\ concern.questions = {}
        /\ \A ref : ref \in concern.accounts <=> ref = client.nextRef
    BY DEF AboutAccount
  <1>3. \A h \in client.handlers : h.ref \in UsedRefs(client)
    BY DEF AnswersInv, AnswersComing, Accounted, HandlersOK, HandlerOK, Nothing, OtherRefs
  <1>4. client.nextRef \notin UsedRefs(client)
    <2>1. client.nextRef \in Nat
      BY Zenon, BothInvariants DEF ClientEnds
    <2> QED BY <2>1 DEF UsedRefs
  <1> HIDE DEF concern
  <1>5. \A h \in client.handlers : h.ref \notin concern.accounts
    BY Zenon, <1>2, <1>3, <1>4
  <1> QED BY Zenon, <1>1, <1>2, <1>5, AnswersTalking

LEMMA AnswersOfNoMessage ==
    ASSUME AnswersInv, UNCHANGED <<client, server, up, down, subscription>>
    PROVE  AnswersInv'
  <1>1. AnswersComing(client', server', up', down', subscription')
    BY Zenon DEF AnswersInv
  <1> QED BY Zenon, <1>1 DEF AnswersInv

LEMMA AnswersOfUser ==
    ASSUME SessionInv, AnswersInv, User
    PROVE  AnswersInv'
  <1>1. CASE \E user \in Users, right \in BOOLEAN : LoginAs(user, right)
    BY Zenon, <1>1, AnswersLogin
  <1>2. CASE \E user \in Users : Register(user)
    BY Zenon, <1>2, AnswersRegistration
  <1>3. CASE \/ \E t \in OwnTopics : GiveCommand(t)
             \/ SwitchScrobbling \/ OpenScrobblingDialog \/ ShutdownByClient
    BY Zenon, <1>3, CommandsTalk, AnswersTalkingOfNothing
  <1>4. CASE \/ \E possible \in BOOLEAN : Insert(possible)
             \/ \E kind \in RequestKinds \ {"insert"} : MakeRequest(kind)
             \/ Authenticate
    BY Zenon, <1>4, UserRequests, AnswersRequest, AnswersTalkingOfNothing
  <1>5. CASE \E kind \in {"users", "version"} : AskFor(kind)
    BY Zenon, <1>5, AnswersQuestion DEF Questions
  <1>6. CASE Disconnect
    BY Zenon, <1>6, EndingTalks, AnswersTalkingOfNothing
  <1> QED BY Zenon, <1>1, <1>2, <1>3, <1>4, <1>5, <1>6 DEF User

LEMMA AnswersNext ==
    ASSUME SessionInv, AnswersInv, [Next]_vars
    PROVE  AnswersInv'
  <1>0. SessionTypeOK
    BY Zenon DEF SessionInv
  <1>1. CASE UNCHANGED vars
    BY Zenon, <1>1, AnswersOfNoMessage DEF vars
  <1>2. CASE Accept \/ SocketDisconnected
    BY Zenon, <1>2, AnswersAccept, AnswersTerminating
  <1>3. CASE ConnectToHost \/ OnSocketError
    BY Zenon, <1>3, ConnectingTalks, EndingTalks, AnswersTalkingOfNothing
  <1>4. CASE ServerReads \/ ClientReads
    BY Zenon, <1>4, AnswersServerReading, AnswersClientReading
  <1>5. CASE Timers
    BY Zenon, <1>0, <1>5, OthersServing, AnswersServing, EndingTalks, AnswersTalkingOfNothing
       DEF Timers
  <1>6. CASE \E task \in server.tasks : RunTask(task)
    BY Zenon, <1>6, AnswersTask
  <1>7. CASE Others
    <2>1. CASE ServerShutdown
      BY Zenon, <2>1, AnswersTerminating
    <2>2. CASE NetworkFallsSilent
      BY Zenon, <2>2, AnswersOfNoMessage DEF NetworkFallsSilent
    <2>3. CASE ~ ServerShutdown /\ ~ NetworkFallsSilent
      BY Zenon, <1>0, <1>7, <2>3, OthersServing, AnswersServing DEF Others
    <2> QED BY Zenon, <2>1, <2>2, <2>3
  <1>8. CASE User
    BY Zenon, <1>8, AnswersOfUser
  <1> QED BY Zenon, <1>1, <1>2, <1>3, <1>4, <1>5, <1>6, <1>7, <1>8 DEF Next

LEMMA AnswersInit ==
    ASSUME Init
    PROVE  AnswersInv
  <1>1. /\ client.handlers = {} /\ client.promises = {} /\ client.state = "NotConnected"
        /\ ~ server.open
    BY DEF Init, NewClientEnd, NewServerEnd
  <1>2. Len(up) = 0 /\ Len(down) = 0
    BY DEF Init
  <1>3. /\ \A i \in 1..Len(up) : FALSE
        /\ \A i \in 1..Len(down) : FALSE
    BY <1>2
  <1>4. HandlersOK(client, server, up, down, subscription, Nothing)
    BY Zenon, <1>1 DEF HandlersOK
  <1>5. PromisesOK(client, server, up, down, Nothing)
    BY Zenon, <1>1, <1>3 DEF PromisesOK, PromiseOK, NoneOf
  <1>6. AnswersOK(client, down) /\ NoRequest(up)
    BY Zenon, <1>3 DEF AnswersOK, NoRequest
  <1>7. FreshOK(client, server, up) /\ EventsOK(client, server, up, subscription)
    BY Zenon, <1>1, <1>6 DEF FreshOK, EventsOK
  <1> QED BY Zenon, <1>4, <1>5, <1>6, <1>7 DEF AnswersInv, AnswersComing, Accounted

-----------------------------------------------------------------------------
(* The invariant counts what is on its way.                                *)

Places(ms, W) == {i \in DOMAIN ms : ms[i] \in W}

LEMMA NoneInTransit ==
    ASSUME NEW M, NEW ms \in Seq(M), NEW W, NoneOf(ms, W)
    PROVE  Cardinality(Places(ms, W)) = 0
  <1>1. DOMAIN ms = 1..Len(ms)
    OBVIOUS
  <1>2. Places(ms, W) = {}
    BY Zenon, <1>1 DEF Places, NoneOf
  <1> QED BY Zenon, <1>2, FS_EmptySet

LEMMA OneInTransit ==
    ASSUME NEW M, NEW ms \in Seq(M), NEW W, OneOf(ms, W)
    PROVE  Cardinality(Places(ms, W)) = 1
  <1>1. DOMAIN ms = 1..Len(ms)
    OBVIOUS
  <1>2. PICK i \in 1..Len(ms) : ms[i] \in W /\ \A j \in 1..Len(ms) : j # i => ms[j] \notin W
    BY Zenon DEF OneOf
  <1>3. Places(ms, W) = {i}
    BY <1>1, <1>2 DEF Places
  <1> QED BY Zenon, <1>3, FS_Singleton

LEMMA TasksAtWork ==
    ASSUME NEW tasks, NEW ref
    PROVE  /\ NoTask(tasks, ref) => Cardinality({task \in tasks : task.ref = ref}) = 0
           /\ OneTask(tasks, ref) => Cardinality({task \in tasks : task.ref = ref}) = 1
  <1>1. ASSUME NoTask(tasks, ref)
        PROVE  Cardinality({task \in tasks : task.ref = ref}) = 0
    <2>1. {task \in tasks : task.ref = ref} = {}
      BY Zenon, <1>1 DEF NoTask
    <2> QED BY Zenon, <2>1, FS_EmptySet
  <1>2. ASSUME OneTask(tasks, ref)
        PROVE  Cardinality({task \in tasks : task.ref = ref}) = 1
    <2>1. PICK task \in tasks : /\ task.ref = ref
                                /\ \A other \in tasks : other.ref = ref => other = task
      BY Zenon, <1>2 DEF OneTask
    <2>2. {other \in tasks : other.ref = ref} = {task}
      BY <2>1
    <2> QED BY Zenon, <2>2, FS_Singleton
  <1> QED BY Zenon, <1>1, <1>2

LEMMA AnswersAreCounted ==
    ASSUME SessionTypeOK, AnswersInv
    PROVE  EachRequestIsAnswered
  <1> SUFFICES ASSUME BothOpen
               PROVE  /\ \A h \in client.handlers :
                            h.kind # "insert" \/ subscription = "All" =>
                            1 = InTransit(up, LAMBDA m : m.type = "Request" /\ m.ref = h.ref)
                                + Cardinality({task \in server.tasks : task.ref = h.ref})
                                + InTransit(down, LAMBDA m : IsAnswer(m) /\ m.ref = h.ref)
                      /\ \A kind \in client.promises :
                            1 = InTransit(up, LAMBDA m : m.type = "Ask" /\ m.kind = kind)
                                + InTransit(down, LAMBDA m : m.type = "Info" /\ m.kind = kind)
    BY DEF EachRequestIsAnswered
  <1>1. /\ up \in Seq(UpMessage) /\ down \in Seq(DownMessage)
        /\ client.promises \subseteq Questions
    BY Zenon DEF SessionTypeOK, ClientEnds
  <1>2. server.open /\ client.state = "BinaryMode"
    BY Zenon, SideTypes DEF BothOpen, IsConnected
  <1>3. ASSUME NEW h \in client.handlers, h.kind # "insert" \/ subscription = "All"
        PROVE  1 = InTransit(up, LAMBDA m : m.type = "Request" /\ m.ref = h.ref)
                   + Cardinality({task \in server.tasks : task.ref = h.ref})
                   + InTransit(down, LAMBDA m : IsAnswer(m) /\ m.ref = h.ref)
    <2> DEFINE p == Cardinality(Places(up, RequestsFor(h.ref)))
               q == Cardinality({task \in server.tasks : task.ref = h.ref})
               r == Cardinality(Places(down, AnswersTo(h.ref)))
    <2>1. Pending(h.ref, server.tasks, up, down)
      <3>1. HandlerOK(h, client, server, up, down, subscription)
        BY DEF AnswersInv, AnswersComing, Accounted, HandlersOK, Nothing
      <3>2. client.state # "Closed" /\ Awaited(h, subscription)
        BY <1>2, <1>3 DEF Awaited
      <3> QED BY Zenon, <1>2, <3>1, <3>2 DEF HandlerOK
    <2>2. \/ p = 1 /\ q = 0 /\ r = 0
          \/ p = 0 /\ q = 0 /\ r = 1
          \/ p = 0 /\ q = 1 /\ r = 0
      <3>1. /\ NoneOf(up, RequestsFor(h.ref)) => p = 0
            /\ OneOf(up, RequestsFor(h.ref)) => p = 1
        BY Zenon, <1>1, NoneInTransit, OneInTransit
      <3>2. /\ NoneOf(down, AnswersTo(h.ref)) => r = 0
            /\ OneOf(down, AnswersTo(h.ref)) => r = 1
        BY Zenon, <1>1, NoneInTransit, OneInTransit
      <3>3. /\ NoTask(server.tasks, h.ref) => q = 0
            /\ OneTask(server.tasks, h.ref) => q = 1
        BY Zenon, TasksAtWork
      <3> HIDE DEF p, q, r
      <3> QED BY Zenon, <2>1, <3>1, <3>2, <3>3 DEF Pending, Idle, AtWork
    <2>3. Places(up, RequestsFor(h.ref))
          = {i \in DOMAIN up : up[i].type = "Request" /\ up[i].ref = h.ref}
      <3>1. \A i \in DOMAIN up : up[i] \in UpMessage
        BY <1>1
      <3> QED BY Zenon, <3>1 DEF Places, RequestsFor
    <2>4. Places(down, AnswersTo(h.ref))
          = {i \in DOMAIN down : IsAnswer(down[i]) /\ down[i].ref = h.ref}
      <3>1. \A i \in DOMAIN down : down[i] \in DownMessage
        BY <1>1
      <3> QED BY Zenon, <3>1 DEF Places, AnswersTo
    <2>5. InTransit(up, LAMBDA m : m.type = "Request" /\ m.ref = h.ref) = p
      BY Zenon, <2>3 DEF InTransit
    <2>6. InTransit(down, LAMBDA m : IsAnswer(m) /\ m.ref = h.ref) = r
      BY Zenon, <2>4 DEF InTransit
    <2> HIDE DEF p, q, r
    <2>7. 1 = p + q + r
      BY <2>2
    <2> QED BY Zenon, <2>5, <2>6, <2>7 DEF q
  <1>4. ASSUME NEW kind \in client.promises
        PROVE  1 = InTransit(up, LAMBDA m : m.type = "Ask" /\ m.kind = kind)
                   + InTransit(down, LAMBDA m : m.type = "Info" /\ m.kind = kind)
    <2> DEFINE p == Cardinality(Places(up, Asks(kind)))
               r == Cardinality(Places(down, Infos(kind)))
    <2>1. PromiseOK(kind, client, up, down)
      <3>1. Alive(client, server) /\ kind \in Questions
        BY <1>1, <1>2, <1>4 DEF Alive
      <3> QED BY <3>1 DEF AnswersInv, AnswersComing, Accounted, PromisesOK, Nothing
    <2>2. \/ p = 1 /\ r = 0
          \/ p = 0 /\ r = 1
      BY Zenon, <1>1, <1>4, <2>1, NoneInTransit, OneInTransit DEF PromiseOK
    <2>3. Places(up, Asks(kind))
          = {i \in DOMAIN up : up[i].type = "Ask" /\ up[i].kind = kind}
      <3>1. \A i \in DOMAIN up : up[i] \in UpMessage
        BY <1>1
      <3> QED BY Zenon, <3>1 DEF Places, Asks
    <2>4. Places(down, Infos(kind))
          = {i \in DOMAIN down : down[i].type = "Info" /\ down[i].kind = kind}
      <3>1. \A i \in DOMAIN down : down[i] \in DownMessage
        BY <1>1
      <3> QED BY Zenon, <3>1 DEF Places, Infos
    <2>5. InTransit(up, LAMBDA m : m.type = "Ask" /\ m.kind = kind) = p
      BY Zenon, <2>3 DEF InTransit
    <2>6. InTransit(down, LAMBDA m : m.type = "Info" /\ m.kind = kind) = r
      BY Zenon, <2>4 DEF InTransit
    <2> HIDE DEF p, r
    <2>7. 1 = p + r
      BY <2>2
    <2> QED BY Zenon, <2>5, <2>6, <2>7
  <1> QED BY Zenon, <1>3, <1>4

-----------------------------------------------------------------------------
(* Theorems.                                                               *)

(* On every connection, in every order in which the two ends handle what   *)
(* they are sent, the login of the client (login, handleLoginSalt,         *)
(* handleUserLoginResult) is in one of five phases that both ends and both *)
(* channels agree on, no other request shares its reference, and a client  *)
(* is in binary mode only when the server is.                              *)
THEOREM SessionInvariant == FairSpec => []SessionInv
  <1>1. Init => SessionInv
    BY Zenon, SessionInvInit
  <1>2. SessionInv /\ [Next]_vars => SessionInv'
    BY Zenon, SessionInvNext
  <1> QED BY <1>1, <1>2, PTL DEF FairSpec

(* A client that takes its user for logged in (handleUserLoginResult) has  *)
(* a server that does (parseUserLoginHashMessage), for the same user; and  *)
(* unless a login was begun before the previous one had ended, both agree  *)
(* whenever nothing is on its way.                                         *)
THEOREM LoginsAreMutual == FairSpec => []LoginIsMutual
  <1>1. SessionInv => LoginIsMutual
    BY Zenon, LoginIsMutualInPhases
  <1> QED BY <1>1, SessionInvariant, PTL

(* While both ends have a connection, each thing the client waits for (the *)
(* result handlers of serverconnection.cpp, and the promises for the users *)
(* and for the version) is accounted for exactly once: the request is on   *)
(* its way, or the server is at work on it (connectedclient.cpp), or the   *)
(* answer is on its way.  An insertion is answered by an event, so only    *)
(* for a client that has asked for all events.                             *)
THEOREM RequestsAreAnswered == FairSpec => []EachRequestIsAnswered
  <1>1. Init => AnswersInv
    BY Zenon, AnswersInit
  <1>2. SessionInv /\ AnswersInv /\ [Next]_vars => AnswersInv'
    BY Zenon, AnswersNext
  <1>3. SessionInv /\ AnswersInv => EachRequestIsAnswered
    BY Zenon, AnswersAreCounted DEF SessionInv
  <1> QED BY <1>1, <1>2, <1>3, SessionInvariant, PTL DEF FairSpec
=============================================================================
