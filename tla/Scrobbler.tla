----------------------------- MODULE Scrobbler -----------------------------
(***************************************************************************)
(* Scrobbling to Last.fm for one user: the scrobbler (scrobbler.cpp), its  *)
(* backend (scrobblingbackend.cpp, lastfmscrobblingbackend.cpp), its data  *)
(* provider (lastfmscrobblingdataprovider.cpp) and the host that creates   *)
(* and destroys it (scrobblinghost.cpp), all of src/server/.               *)
(*                                                                         *)
(* The four run in one thread: an action is one event, with all the calls  *)
(* and signals that follow from it.  What is concurrent are the replies of *)
(* Last.fm and of the track information provider, which may come in any    *)
(* order and after the timeout for them, the timers, and the other parts   *)
(* of the server.                                                          *)
(*                                                                         *)
(* The tracks to scrobble are the entries 1..history of the history of the *)
(* user that qualify, in the order of their IDs; 0 stands for no entry.    *)
(***************************************************************************)
EXTENDS Naturals, Sequences, SequencesExt, FiniteSetsExt

CONSTANTS
    FetchSize,           \* history entries fetched at a time (5)
    SslPresent,          \* whether the SSL libraries are present
    MaxHistory,          \* bound on the history
    MaxAnnouncements,    \* bound on the tracks that start playing
    MaxTimeouts,         \* bound on the timeouts
    MaxTrouble,          \* bound on the replies that report an error
    MaxAuthentications,  \* bound on the attempts to authenticate
    MaxToggles           \* bound on the times that scrobbling is disabled

ASSUME ScrobblerConstants ==
    /\ FetchSize \in Nat \ {0} /\ SslPresent \in BOOLEAN
    /\ MaxHistory \in Nat
    /\ MaxAnnouncements \in Nat /\ MaxTimeouts \in Nat /\ MaxTrouble \in Nat
    /\ MaxAuthentications \in Nat /\ MaxToggles \in Nat

VARIABLES
    enabled,             \* whether the scrobbler exists
    scrobbler,           \* its state, and that of its backend and provider
    untitled,            \* entries whose title or artist is unknown
    history,             \* the number of history entries in the database
    saved,               \* the database: scrobbled up to this entry
    savedKey,            \* the database: whether there is a session key
    marked,              \* entries that were marked as scrobbled
    dropped,             \* entries given up for lack of a title or an artist
    accepted,            \* entries that Last.fm has accepted or ignored
    spent                \* how much of each bound has been used

vars == <<enabled, scrobbler, untitled, history, saved, savedKey, marked,
          dropped, accepted, spent>>

Entries == 1..MaxHistory

(* What has been asked and not been answered yet.                          *)
Requests == ({"info", "scrobble"} \X Entries)
               \cup {<<"nowPlaying", 0>>, <<"authenticate", 0>>}

BackendStates == {"NotInitialized", "WaitingForUserCredentials",
                  "ReadyForScrobbling", "PermanentFatalError"}

(* A new scrobbler, whose backend has a session key or not.                *)
New(key) ==
    [backend |-> "NotInitialized",   \* ScrobblingBackend::_state
     key |-> key,                    \* _sessionKey is not empty
     status |-> "Unknown",           \* _status
     queue |-> << >>,                \* _tracksToScrobble
     pending |-> 0,                  \* _pendingScrobble
     nowPlaying |-> [present |-> FALSE, sent |-> FALSE, done |-> FALSE],
     timeout |-> FALSE,              \* _timeoutTimer is active
     backoff |-> FALSE,              \* _backoffTimer is active
     interval |-> FALSE,             \* _backoffMilliseconds is above zero
     wakeUp |-> FALSE,               \* a call of wakeUp() has been scheduled
     scrobbledUpTo |-> 0,            \* of the data provider
     fetchedUpTo |-> 0,              \* of the data provider
     requests |-> [r \in Requests |-> 0]]

Ask(s, request) == [s EXCEPT !.requests[request] = @ + 1]

-----------------------------------------------------------------------------
(* The data provider.                                                      *)

Fetch(s) ==
    LET first == s.fetchedUpTo = 0
        from == IF first THEN saved ELSE s.fetchedUpTo
        to == Min({from + FetchSize, history})
    IN  [s EXCEPT !.scrobbledUpTo = IF first THEN saved ELSE @,
                  !.fetchedUpTo = to,
                  !.queue = [i \in 1..(to - from) |-> from + i]]

-----------------------------------------------------------------------------
(* The scrobbler.  Each operator gives the state after a function that is  *)
(* called in state s.                                                      *)

ReevaluateStatus(s) ==
    [s EXCEPT !.status =
        CASE s.backend = "NotInitialized" -> "Unknown"
          [] s.backend = "WaitingForUserCredentials" -> s.backend
          [] s.backend = "PermanentFatalError" -> "Red"
          [] OTHER -> IF s.backoff /\ s.interval THEN "Yellow" ELSE "Green"]

StartBackoffTimer(s) ==
    ReevaluateStatus([s EXCEPT !.backoff = TRUE, !.interval = TRUE])

(* Mistake: the pending scrobble goes to the back of the queue.            *)
ReinsertAtBack(s) ==
    IF s.pending = 0 THEN s
    ELSE [s EXCEPT !.pending = 0, !.queue = Append(@, s.pending)]

(* Mistake: the pending scrobble is not reinserted at all.                 *)
ForgetPendingScrobble(s) == [s EXCEPT !.pending = 0]

(* reinsertPendingScrobbleAtFrontOfQueue                                   *)
ReinsertPendingScrobble(s) ==
    IF s.pending = 0 THEN s
    ELSE [s EXCEPT !.pending = 0, !.queue = <<s.pending>> \o @]

SendNextScrobble(s) ==
    Ask([s EXCEPT !.pending = Head(s.queue), !.queue = Tail(@), !.timeout = TRUE],
        <<"info", Head(s.queue)>>)

SendNowPlaying(s) ==
    Ask([s EXCEPT !.nowPlaying.sent = TRUE, !.nowPlaying.done = FALSE,
                  !.timeout = TRUE],
        <<"nowPlaying", 0>>)

SendScrobblesOrNowPlaying(s) ==
    LET t == IF s.queue = << >> THEN Fetch(s) ELSE s
    IN  IF t.queue # << >> THEN SendNextScrobble(t)
        ELSE IF t.nowPlaying.present /\ ~ t.nowPlaying.sent THEN SendNowPlaying(t)
        ELSE t

(* Mistake: an announcement that has been answered is still in the way.    *)
MayDoSomethingUnannounced(s) ==
    /\ ~ s.nowPlaying.sent
    /\ s.pending = 0
    /\ ~ s.backoff

MayDoSomething(s) ==
    /\ ~ (s.nowPlaying.sent /\ ~ s.nowPlaying.done)
    /\ s.pending = 0
    /\ ~ s.backoff

(* checkIfWeHaveSomethingToDo, once the backend has been initialized.      *)
CheckInitialized(s) ==
    IF MayDoSomething(s) /\ s.backend = "ReadyForScrobbling"
    THEN SendScrobblesOrNowPlaying(s)
    ELSE s

BackendStateChanged(s) ==
    LET t == ReevaluateStatus([s EXCEPT !.timeout = FALSE])
    IN  IF t.backend = "WaitingForUserCredentials" THEN t ELSE CheckInitialized(t)

SetState(s, state) ==
    IF s.backend = state THEN s
    ELSE BackendStateChanged([s EXCEPT !.backend = state])

LeaveState(s, old) ==
    IF s.backend # old THEN s
    ELSE SetState(s, IF s.key THEN "ReadyForScrobbling"
                     ELSE "WaitingForUserCredentials")

UpdateState(s) ==
    IF s.backend \in {"NotInitialized", "PermanentFatalError"} THEN s
    ELSE LeaveState(s, s.backend)

Initialize(s) ==
    LET t == IF SslPresent THEN s ELSE SetState(s, "PermanentFatalError")
    IN  [LeaveState(t, "NotInitialized") EXCEPT !.wakeUp = TRUE]

CheckIfWeHaveSomethingToDo(s) ==
    IF MayDoSomething(s) /\ s.backend = "NotInitialized"
    THEN Initialize(s)
    ELSE CheckInitialized(s)

ServiceTemporarilyUnavailable(s) == StartBackoffTimer(ReinsertPendingScrobble(s))

GotNowPlayingResult(s, success) ==
    IF success
    THEN CheckIfWeHaveSomethingToDo(ReevaluateStatus(
            [s EXCEPT !.timeout = FALSE, !.nowPlaying.done = TRUE]))
    ELSE StartBackoffTimer([s EXCEPT !.timeout = FALSE, !.nowPlaying.sent = FALSE])

(* The result is credited to whatever entry is pending.                    *)
GotScrobbleResult(s, result) ==
    IF s.pending = 0 THEN s
    ELSE IF result = "error"
    THEN StartBackoffTimer(ReinsertPendingScrobble([s EXCEPT !.timeout = FALSE]))
    ELSE ReevaluateStatus(
            [s EXCEPT !.timeout = FALSE, !.interval = FALSE, !.wakeUp = TRUE,
                      !.pending = 0, !.scrobbledUpTo = Max({@, s.pending})])

(* handleErrorCode, before the generic error that always follows it.       *)
HandleErrorCode(s, code) ==
    CASE code = "tryAgainLater" -> ServiceTemporarilyUnavailable(s)
      [] code = "invalidSessionKey" -> UpdateState([s EXCEPT !.key = FALSE])
      [] code = "fatal" -> SetState(s, "PermanentFatalError")
      [] code = "other" -> s

ErrorCodes == {"tryAgainLater", "invalidSessionKey", "fatal", "other"}

-----------------------------------------------------------------------------
(* Events.                                                                 *)

Spend(what, limit) ==
    /\ spent[what] < limit
    /\ spent' = [spent EXCEPT ![what] = @ + 1]

Reply(request) == enabled /\ scrobbler.requests[request] > 0

Answered(request) == [scrobbler EXCEPT !.requests[request] = @ - 1]

KeepDatabase == UNCHANGED <<untitled, history, saved, savedKey, marked>>

(* An entry is added to the history, by another thread.                    *)
AddToHistory ==
    /\ history < MaxHistory
    /\ history' = history + 1
    /\ UNCHANGED <<enabled, scrobbler, untitled, saved, savedKey, marked, dropped,
                   accepted, spent>>

(* The host wakes the scrobbler when a track has been played, after a      *)
(* delay that is hoped to be long enough for the database.                 *)
WakeUpForUser ==
    /\ enabled
    /\ scrobbler' = CheckIfWeHaveSomethingToDo(scrobbler)
    /\ KeepDatabase
    /\ UNCHANGED <<enabled, dropped, accepted, spent>>

WakeUp ==
    /\ enabled /\ scrobbler.wakeUp
    /\ scrobbler' = CheckIfWeHaveSomethingToDo([scrobbler EXCEPT !.wakeUp = FALSE])
    /\ KeepDatabase
    /\ UNCHANGED <<enabled, dropped, accepted, spent>>

(* A track starts playing, whose title and artist are known or not.        *)
NowPlayingTrack(known) ==
    /\ enabled
    /\ Spend("announcements", MaxAnnouncements)
    /\ scrobbler' =
         IF known
         THEN CheckIfWeHaveSomethingToDo([scrobbler EXCEPT !.nowPlaying =
                 [present |-> TRUE, sent |-> FALSE, done |-> FALSE]])
         ELSE [scrobbler EXCEPT !.nowPlaying.present = FALSE]
    /\ KeepDatabase
    /\ UNCHANGED <<enabled, dropped, accepted>>

TimeoutTimer ==
    /\ enabled /\ scrobbler.timeout
    /\ Spend("timeouts", MaxTimeouts)
    /\ scrobbler' = ReinsertPendingScrobble([scrobbler EXCEPT !.timeout = FALSE])
    /\ KeepDatabase
    /\ UNCHANGED <<enabled, dropped, accepted>>

BackoffTimer ==
    /\ enabled /\ scrobbler.backoff
    /\ scrobbler' = CheckIfWeHaveSomethingToDo([scrobbler EXCEPT !.backoff = FALSE])
    /\ KeepDatabase
    /\ UNCHANGED <<enabled, dropped, accepted, spent>>

(* The title and the artist of an entry are known: scrobbleTrack, which    *)
(* does nothing when the backend is no longer ready.                       *)
TrackInfo(e) ==
    /\ Reply(<<"info", e>>) /\ e \notin untitled
    /\ LET s == Answered(<<"info", e>>)
       IN  scrobbler' = IF s.backend = "ReadyForScrobbling"
                        THEN Ask(s, <<"scrobble", e>>) ELSE s
    /\ KeepDatabase
    /\ UNCHANGED <<enabled, dropped, accepted, spent>>

(* They are not: the entry that is pending is given up, whichever it is.   *)
NoTrackInfo(e) ==
    /\ Reply(<<"info", e>>) /\ e \in untitled
    /\ scrobbler' = [Answered(<<"info", e>>) EXCEPT !.timeout = FALSE, !.pending = 0]
    /\ dropped' = dropped \cup ({scrobbler.pending} \ {0})
    /\ KeepDatabase
    /\ UNCHANGED <<enabled, accepted, spent>>

(* scrobbledSuccessfully and scrobbleIgnored of the data provider.         *)
Mark(s) ==
    IF s.pending = 0
    THEN UNCHANGED <<saved, marked>>
    ELSE /\ saved' = Max({s.scrobbledUpTo, s.pending})
         /\ marked' = marked \cup {s.pending}

(* Last.fm accepted or ignored the scrobble of an entry.                   *)
ScrobbleReply(e) ==
    /\ Reply(<<"scrobble", e>>)
    /\ accepted' = accepted \cup {e}
    /\ Mark(scrobbler)
    /\ scrobbler' = GotScrobbleResult(Answered(<<"scrobble", e>>), "success")
    /\ UNCHANGED <<enabled, untitled, history, savedKey, dropped, spent>>

ScrobbleError(e, code) ==
    /\ Reply(<<"scrobble", e>>)
    /\ Spend("trouble", MaxTrouble)
    /\ scrobbler' = GotScrobbleResult(
                       HandleErrorCode(Answered(<<"scrobble", e>>), code), "error")
    /\ KeepDatabase
    /\ UNCHANGED <<enabled, dropped, accepted>>

NowPlayingReply ==
    /\ Reply(<<"nowPlaying", 0>>)
    /\ scrobbler' = GotNowPlayingResult(Answered(<<"nowPlaying", 0>>), TRUE)
    /\ KeepDatabase
    /\ UNCHANGED <<enabled, dropped, accepted, spent>>

NowPlayingError(code) ==
    /\ Reply(<<"nowPlaying", 0>>)
    /\ Spend("trouble", MaxTrouble)
    /\ scrobbler' = GotNowPlayingResult(
                       HandleErrorCode(Answered(<<"nowPlaying", 0>>), code), FALSE)
    /\ KeepDatabase
    /\ UNCHANGED <<enabled, dropped, accepted>>

(* The user gives a name and a password.                                   *)
AuthenticateWithCredentials ==
    /\ enabled
    /\ Spend("authentications", MaxAuthentications)
    /\ scrobbler' = Ask(scrobbler, <<"authenticate", 0>>)
    /\ KeepDatabase
    /\ UNCHANGED <<enabled, dropped, accepted>>

Authenticated ==
    /\ Reply(<<"authenticate", 0>>)
    /\ scrobbler' = UpdateState([Answered(<<"authenticate", 0>>) EXCEPT !.key = TRUE])
    /\ savedKey' = TRUE
    /\ UNCHANGED <<enabled, untitled, history, saved, marked, dropped, accepted,
                   spent>>

AuthenticationError(code) ==
    /\ Reply(<<"authenticate", 0>>)
    /\ Spend("trouble", MaxTrouble)
    /\ scrobbler' = HandleErrorCode(Answered(<<"authenticate", 0>>), code)
    /\ KeepDatabase
    /\ UNCHANGED <<enabled, dropped, accepted>>

(* setProviderEnabledForUser.  Disabling deletes the scrobbler with all    *)
(* its requests, like a restart of the server does.                        *)
Disable ==
    /\ enabled
    /\ Spend("toggles", MaxToggles)
    /\ enabled' = FALSE
    /\ scrobbler' = New(FALSE)
    /\ KeepDatabase
    /\ UNCHANGED <<dropped, accepted>>

Enable ==
    /\ ~ enabled
    /\ enabled' = TRUE
    /\ scrobbler' = CheckIfWeHaveSomethingToDo(New(savedKey))
    /\ KeepDatabase
    /\ UNCHANGED <<dropped, accepted, spent>>

-----------------------------------------------------------------------------
Init ==
    /\ enabled = FALSE /\ scrobbler = New(FALSE)
    /\ untitled \in SUBSET Entries
    /\ history = 0 /\ saved = 0 /\ savedKey \in BOOLEAN
    /\ marked = {} /\ dropped = {} /\ accepted = {}
    /\ spent = [b \in {"announcements", "timeouts", "trouble", "authentications",
                       "toggles"} |-> 0]

Next ==
    \/ AddToHistory
    \/ WakeUpForUser \/ WakeUp
    \/ TimeoutTimer \/ BackoffTimer
    \/ \E known \in BOOLEAN : NowPlayingTrack(known)
    \/ \E e \in Entries : TrackInfo(e)
    \/ \E e \in Entries : NoTrackInfo(e)
    \/ \E e \in Entries : ScrobbleReply(e)
    \/ \E e \in Entries, code \in ErrorCodes : ScrobbleError(e, code)
    \/ NowPlayingReply
    \/ \E code \in ErrorCodes : NowPlayingError(code)
    \/ AuthenticateWithCredentials
    \/ Authenticated
    \/ \E code \in ErrorCodes \ {"invalidSessionKey"} : AuthenticationError(code)
    \/ Disable \/ Enable

Spec == Init /\ [][Next]_vars

(* Timers expire, every request is answered in the end (by a network error *)
(* at least), and the user keeps on playing tracks, after each of which    *)
(* the host wakes the scrobbler.                                           *)
FairSpec ==
    /\ Spec
    /\ WF_vars(WakeUpForUser) /\ WF_vars(WakeUp) /\ WF_vars(BackoffTimer)
    /\ WF_vars(Enable)
    /\ \A e \in Entries :
          /\ WF_vars(TrackInfo(e) \/ NoTrackInfo(e))
          /\ WF_vars(\/ ScrobbleReply(e)
                     \/ \E code \in ErrorCodes : ScrobbleError(e, code))
    /\ WF_vars(NowPlayingReply \/ \E code \in ErrorCodes : NowPlayingError(code))

-----------------------------------------------------------------------------
(* Properties.                                                             *)

(* Every part of the state has its type.                                   *)
TypeOK ==
    /\ enabled \in BOOLEAN /\ savedKey \in BOOLEAN /\ untitled \subseteq Entries
    /\ history \in 0..MaxHistory /\ saved \in 0..history
    /\ marked \subseteq 1..history /\ dropped \subseteq 1..history
    /\ accepted \subseteq 1..history
    /\ scrobbler.backend \in BackendStates
    /\ scrobbler.status \in {"Unknown", "Green", "Yellow", "Red",
                             "WaitingForUserCredentials"}
    /\ ToSet(scrobbler.queue) \subseteq 1..history
    /\ scrobbler.pending \in 0..history
    /\ scrobbler.fetchedUpTo \in 0..history
    /\ scrobbler.scrobbledUpTo \in 0..scrobbler.fetchedUpTo
    /\ scrobbler.requests \in [Requests -> Nat]

Waiting == IF scrobbler.pending = 0 THEN scrobbler.queue
           ELSE <<scrobbler.pending>> \o scrobbler.queue

(* Through timeouts, errors, retries and late answers every entry that was *)
(* fetched waits to be scrobbled until it is marked or given up            *)
(* (reinsertPendingScrobbleAtFrontOfQueue).                                *)
NoTrackIsForgotten ==
    \A e \in 1..scrobbler.fetchedUpTo :
        e \in marked \cup dropped \cup ToSet(Waiting)

(* Tracks are scrobbled in the order in which they were played, one that   *)
(* has to be tried again before those that were played later; and an entry *)
(* that was marked does not come up again, also after scrobbling was       *)
(* disabled and enabled or the server restarted (scrobbledUpTo in the      *)
(* database; the tests demand that a track is marked at most once).        *)
ScrobbledOnceAndInOrder ==
    /\ \A i, j \in DOMAIN Waiting : i < j => Waiting[i] < Waiting[j]
    /\ marked \cap ToSet(Waiting) = {}

(* After a track was taken to be scrobbled an event will follow: the track *)
(* information, the result of the scrobble, or the timeout.                *)
ResultWillArrive ==
    scrobbler.pending # 0 =>
        \/ scrobbler.timeout
        \/ \E r \in {"info", "scrobble"} \X Entries : scrobbler.requests[r] > 0

(* When the errors stop, every entry of the history is scrobbled or given  *)
(* up, unless the backend needs the user or has failed for good.           *)
EventuallyScrobbled ==
    \A e \in Entries :
        (enabled /\ e <= history)
           ~> \/ e \in marked \cup dropped
              \/ scrobbler.backend \in {"WaitingForUserCredentials",
                                        "PermanentFatalError"}
              \/ ~ ResultWillArrive

(* An entry is given up only when its own title or artist is unknown       *)
(* (sendNextScrobble).                                                     *)
OnlyUntitledIsDropped == dropped \subseteq untitled

(* An entry that is marked as scrobbled was accepted or ignored by Last.fm *)
(* (scrobbledSuccessfully of the data provider).                           *)
MarkedWasAccepted == marked \subseteq accepted
=============================================================================
