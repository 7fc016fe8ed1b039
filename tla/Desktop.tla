------------------------------ MODULE Desktop ------------------------------
(***************************************************************************)
(* The main window of the desktop remote (src/desktop-remote): what its    *)
(* widgets show of the player, how the buttons, the check box and the      *)
(* slider follow the server and pass on what the user wants, the list of   *)
(* the tracks that were played, and the switch to personal mode when the   *)
(* window opens.  The queue and the collection have modules of their own,  *)
(* QueueMediation, QueueModel and Collection.                              *)
(*                                                                         *)
(* c.window is what the widgets and their models keep.                     *)
(***************************************************************************)
EXTENDS Controllers

CONSTANTS
    Me,                  \* the user of the client
    HistoryGoal          \* _historySizeGoal (20)

ASSUME WindowAssumption == Me \in Nat \ {0} /\ HistoryGoal \in Nat \ {0}

(* VolumeMediator: the volume that the user wants, the one that the server *)
(* told, whether a request is waiting for a timer, the timers that run and *)
(* what the slider shows; -1 if there is none.                             *)
NoVolume == [requested |-> -1, received |-> -1, toSend |-> FALSE, timers |-> 0, shown |-> -1]

NoWindow == [open |-> FALSE, history |-> << >>, volume |-> NoVolume, needToCheck |-> TRUE,
             enabled |-> {}, checked |-> FALSE, label |-> Unknown, notice |-> "none",
             user |-> NoUser, radio |-> "none", wishes |-> 0]

-----------------------------------------------------------------------------
(* PlayerHistoryModel: the newest at the end, no more than the goal.       *)
Newest(ids, count) ==
    SubSeq(ids, IF Len(ids) > count THEN Len(ids) - count + 1 ELSE 1, Len(ids))

OnReceivedPlayerHistoryEntry(c, id) ==
    LET rows == Append(c.window.history, id)
        added == [c EXCEPT !.window.history = Newest(rows, HistoryGoal)]
    IN  IF Len(rows) > HistoryGoal THEN DropInfoFor(added, Head(rows)) ELSE added

(* Mistake: what has arrived before the answer is kept.                    *)
OnReceivedMorePlayerHistory(c, ids) ==
    [c EXCEPT !.window.history = Newest(@ \o ids, HistoryGoal)]

OnReceivedPlayerHistory(c, ids) == [c EXCEPT !.window.history = Newest(ids, HistoryGoal)]

(* data, trackHashAt and mimeData                                          *)
ShowRow(c, row) == LookUp(c, c.window.history[row])

(* The connection has been lost: nothing is shown.                         *)
ForgetHistory(c) == [c EXCEPT !.window.history = << >>]

-----------------------------------------------------------------------------
(* VolumeMediator                                                          *)
VolumeOf(v) == IF v.requested >= 0 THEN v.requested ELSE v.received

ShowVolume(c, v) == [c EXCEPT !.window.volume = [v EXCEPT !.shown = VolumeOf(v)]]

(* setVolume: the request follows some time later; none is made when the   *)
(* server told this volume last.                                           *)
WishVolume(c, volume) ==
    LET v == c.window.volume
        wished == [v EXCEPT !.requested = volume]
    IN  IF VolumeOf(v) = volume THEN c
        ELSE IF v.toSend \/ volume = v.received THEN ShowVolume(c, wished)
        ELSE ShowVolume(c, [wished EXCEPT !.toSend = TRUE, !.timers = @ + 1])

SendVolumeChangeRequest(c) ==
    Ask([c EXCEPT !.window.volume.toSend = FALSE, !.window.volume.timers = @ - 1],
        ChangeVolume(c.window.volume.requested))

(* A request that is waiting is not needed any more when the volume is     *)
(* what it would ask for; but its timer is not stopped.                    *)
VolumeUpdateReceived(c) ==
    LET received == c.player.volume
        v == [c.window.volume EXCEPT !.received = received]
    IN  IF received < 0 THEN [c EXCEPT !.window.volume = v]
        ELSE IF v.toSend
        THEN [c EXCEPT !.window.volume = [v EXCEPT !.toSend = received # v.requested]]
        ELSE ShowVolume(c, [v EXCEPT !.requested = received])

-----------------------------------------------------------------------------
(* AutoPersonalModeAction: once, when state and mode are known.            *)
CheckMode(c) ==
    LET p == c.player
        checked == [c EXCEPT !.window.needToCheck = FALSE]
    IN  IF ~ c.window.needToCheck \/ p.state = Unknown \/ p.user = NoUser THEN c
        ELSE IF p.state = "Stopped" /\ p.user = 0 THEN Ask(checked, SwitchToMode(Me))
        ELSE checked

-----------------------------------------------------------------------------
(* UserForStatisticsDisplay: the user whose statistics are shown, who is   *)
(* the one of the player until another is chosen.                          *)
PersonalOrPublic(user) == IF user > 0 THEN "personal" ELSE "public"

ShowUser(c, user) ==
    IF c.window.user = user THEN c
    ELSE [c EXCEPT !.window.user = user,
                   !.window.radio = IF user = NoUser THEN @ ELSE PersonalOrPublic(user)]

(* As long as the mode has not changed, a personal mode is taken for that  *)
(* of the user of the client.                                              *)
InitialUser(c) == IF c.player.user > 0 THEN Me ELSE c.player.user

-----------------------------------------------------------------------------
(* DelayedStartNotification, the only one in the notification bar; it is   *)
(* visible when it has a text.                                             *)
UpdateInfo(c) ==
    LET notice == IF DelayedStartActive(c.player) THEN c.player.delayed ELSE "none"
    IN  [c EXCEPT !.window.notice = notice]

-----------------------------------------------------------------------------
(* MainWidget                                                              *)

Enable(c, buttons, enabled) ==
    [c EXCEPT !.window.enabled = (@ \ buttons) \cup enabled]

(* enableDisablePlayerControlButtons                                       *)
PlayerButtons == {"play", "pause", "skip"}

CanPlay(c) == c.player.length > 0 /\ c.player.state \in {"Paused", "Stopped"}
CanPause(c) == c.player.state = "Playing"

EnablePlayerButtons(c) ==
    Enable(c, PlayerButtons,
           {b \in PlayerButtons : \/ b = "play" /\ CanPlay(c)
                                  \/ b = "pause" /\ CanPause(c)
                                  \/ b = "skip" /\ CanSkip(c)})

(* playerModeChanged                                                       *)
ModeButtons == {"toPublicMode", "toPersonalMode"}

EnableModeButtons(before) ==
    LET c == [before EXCEPT !.window.radio = IF before.player.user = NoUser THEN @
                                             ELSE PersonalOrPublic(before.player.user)]
    IN  Enable(c, ModeButtons,
           {b \in ModeButtons : \/ b = "toPublicMode" /\ c.player.user > 0
                                \/ b = "toPersonalMode" /\ c.player.user \notin {NoUser, Me}})

(* The check box has been checked or unchecked, by the user or because of  *)
(* what the server told.                                                   *)
ChangeDynamicMode(c) ==
    LET wanted == IF c.window.checked THEN "on" ELSE "off"
    IN  IF c.dynamic = wanted THEN c ELSE Ask(c, SwitchDynamicMode(wanted))

SetChecked(c, checked) ==
    IF c.window.checked = checked THEN c
    ELSE ChangeDynamicMode([c EXCEPT !.window.checked = checked])

DynamicModeEnabledChanged(c) ==
    SetChecked(Enable(c, {"dynamicMode"}, IF c.dynamic = Unknown THEN {} ELSE {"dynamicMode"}),
               c.dynamic = "on")

(* currentTrackInfoChanged                                                 *)
CurrentTrackInfoChanged(before) ==
    LET t == before.track
        c == Enable(before, {"trackInfo"}, IF t.hash = 0 THEN {} ELSE {"trackInfo"})
    IN  [c EXCEPT !.window.label =
            CASE ~ t.received -> Unknown
              [] t.received /\ t.id = 0 -> "no track"
              [] t.received /\ t.id # 0 /\ t.tags = "title" -> "title"
              [] OTHER -> IF t.file THEN "file name" ELSE "no title"]

(* What the window does when a signal comes in.                            *)
WindowHears(c, s) ==
    CASE ~ c.window.open -> c
      [] c.window.open /\ s.type = "playerStateChanged" -> EnablePlayerButtons(CheckMode(c))
      [] c.window.open /\ s.type = "playerModeChanged" -> 
            EnableModeButtons(CheckMode(ShowUser(c, c.player.user)))
      [] c.window.open /\ s.type = "playerQueueLengthChanged" -> EnablePlayerButtons(c)
      [] c.window.open /\ s.type = "delayedStartActiveInfoChanged" -> UpdateInfo(c)
      [] c.window.open /\ s.type = "volumeChanged" -> VolumeUpdateReceived(c)
      [] c.window.open /\ s.type = "dynamicModeEnabledChanged" -> DynamicModeEnabledChanged(c)
      [] c.window.open /\ s.type \in {"currentTrackChanged", "currentTrackInfoChanged"} ->
            CurrentTrackInfoChanged(c)
      [] c.window.open /\ s.type = "receivedPlayerHistoryEntry" ->
            OnReceivedPlayerHistoryEntry(c, s.ids[1])
      [] c.window.open /\ s.type = "receivedPlayerHistory" -> OnReceivedPlayerHistory(c, s.ids)
      [] OTHER -> c

(* setConnection: the objects in the order in which they are needed; that  *)
(* of the player is there since before the login.                          *)
WindowObjects == <<"monitor", "storage", "fetcher", "history", "track", "queue",
                   "dynamic", "hashes">>

OpenWindow(before) ==
    LET user == InitialUser(before)
        action == CheckMode(UpdateInfo([before EXCEPT !.window.user = user]))
        c == [CreateAll(action, WindowObjects)
                 EXCEPT !.window.open = TRUE, !.window.volume.received = action.player.volume]
        modes == EnableModeButtons(Ask(c, PlayerHistoryRequest(HistoryGoal)))
        radio == [modes EXCEPT !.window.radio = IF user = NoUser THEN @ ELSE PersonalOrPublic(user)]
        shown == CurrentTrackInfoChanged(EnablePlayerButtons(radio))
    IN  DynamicModeEnabledChanged(ShowVolume(shown, shown.window.volume))

(* What the user does: a button is clicked (that of the notification       *)
(* cancels the delayed start), the check box is changed, the slider is     *)
(* moved, or a track is enqueued again from the history.                   *)
Clickable(w) ==
    (w.enabled \cap (PlayerButtons \cup ModeButtons \cup {"dynamicMode"}))
        \cup {"personalStatistics", "publicStatistics"}
        \cup (IF w.notice = "none" THEN {} ELSE {"deactivate"})

Click(c, button) ==
    CASE button = "deactivate" -> Ask(c, FutureRequest("cancel", 0))
      [] button = "personalStatistics" -> ShowUser(c, Me)
      [] button = "publicStatistics" -> ShowUser(c, 0)
      [] button \in {"play", "pause"} -> Ask(c, PlayOrPause(button))
      [] button = "skip" -> Skip(c)
      [] button = "toPublicMode" -> Ask(c, SwitchToMode(0))
      [] button = "toPersonalMode" -> Ask(c, SwitchToMode(Me))
      [] button = "dynamicMode" -> SetChecked(c, ~ c.window.checked)

EnqueueAgain(before, row, where) ==
    LET c == ShowRow(before, row)
        hash == EntryOf(c, c.window.history[row]).hash
    IN  IF hash = 0 THEN c ELSE Ask(c, InsertQueueEntryAt(where, hash))
=============================================================================
