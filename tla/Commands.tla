------------------------------ MODULE Commands ------------------------------
(***************************************************************************)
(* The commands of the command line remote (src/cmd-remote).  A command    *)
(* runs once: it creates the objects that it needs, connects its listener  *)
(* to their signals and sends its request.  Its steps look at the copies   *)
(* that these objects have; a step is tried when a signal comes in, and it *)
(* completes, or ends the command with an exit code.                       *)
(*                                                                         *)
(* c.program says what was given on the command line, c.command what       *)
(* CommandBase and the class of the command keep.                          *)
(***************************************************************************)
EXTENDS Desktop

NoCode == -1             \* the program has not been told to exit

NotStarted == [started |-> FALSE, step |-> 1, calls |-> 0, timer |-> FALSE,
               completed |-> FALSE, finished |-> FALSE, code |-> NoCode,
               request |-> 0, skipped |-> 0, happened |-> FALSE,
               tracks |-> << >>, due |-> << >>, output |-> << >>]

Success == 0
Failure == 3

(* setCommandExecutionSuccessful and setCommandExecutionFailed: the last   *)
(* exit code counts.                                                       *)
Exit(c, code) == [c EXCEPT !.command.finished = TRUE, !.command.code = code]

(* setCommandExecutionResult                                               *)
ExitWithResult(c, result) ==
    Exit(c, IF result \in {"NoError", "AlreadyDone"} THEN Success ELSE Failure)

-----------------------------------------------------------------------------
(* The steps.  A step returns the client, whose objects it may have asked  *)
(* for something, and what is to happen: it is incomplete, it is completed *)
(* or the command is finished with a code.                                 *)

Incomplete(c) == [is |-> "incomplete", code |-> NoCode, c |-> c]
Completed(c) == [is |-> "completed", code |-> NoCode, c |-> c]
Finished(c, code) == [is |-> "finished", code |-> code, c |-> c]

FinishedIf(condition, c) == IF condition THEN Finished(c, Success) ELSE Incomplete(c)
Printed(c, output) == Finished([c EXCEPT !.command.output = output], Success)

SkipStep(c) ==
    IF c.player.state = Unknown THEN Incomplete(c)
    ELSE IF CanSkip(c)
    THEN Completed(Skip([c EXCEPT !.command.skipped = c.player.id]))
    ELSE Finished(c, Failure)

NowPlayingStep(c) ==
    LET t == c.track
    IN  IF t.received /\ t.id = 0 THEN Printed(c, <<0>>)
        ELSE IF ~ t.received \/ t.hash = 0 THEN Incomplete(c)
        ELSE IF t.tags # "title" /\ ~ t.file THEN Incomplete(c)
        ELSE Printed(c, <<t.id, t.hash>>)

StatusStep(c) ==
    IF c.player.state = Unknown \/ c.player.user = NoUser \/ c.dynamic = Unknown
    THEN Incomplete(c)
    ELSE Printed(c, <<c.player.state, c.player.user, c.dynamic>>)

(* The entries that the queue command prints.                              *)
Shown(c) ==
    [i \in 1..(IF c.monitor.length < c.program.limit THEN c.monitor.length
               ELSE c.program.limit) |-> EntryAt(c.monitor, i - 1)]

(* Ask for what is known of entries, one after the other, until something  *)
(* is missing.                                                             *)
TryEntry(r, id) ==
    IF ~ r.ok \/ id = 0 THEN [r EXCEPT !.ok = FALSE]
    ELSE LET c == LookUp(r.c, id)
         IN  [ok |-> EntryOf(c, id).type \notin {"null", "Unknown"}, c |-> c]

CompletedIfOk(r) == IF r.ok THEN Completed(r.c) ELSE Incomplete(r.c)

TryAll(c, ids) == CompletedIfOk(FoldLeft(TryEntry, [ok |-> TRUE, c |-> c], ids))

PrintAll(c, ids) == Printed(FoldLeft(LookUp, c, ids), ids)

LookAtShown(c) ==
    FoldLeft(LAMBDA x, i : LookAt(x, i - 1), c, [i \in DOMAIN Shown(c) |-> i])

TryQueue(c) == TryAll(c, Shown(c))

QueueStep(c) == IF c.monitor.completed THEN TryQueue(LookAtShown(c)) ELSE Incomplete(c)

PrintQueue(c) == PrintAll(c, Shown(c))

PrintQueueStep(c) == PrintQueue(LookAtShown(c))

HistoryStep(c) ==
    IF c.command.happened THEN TryAll(c, c.command.tracks) ELSE Incomplete(c)

PrintHistoryStep(c) == PrintAll(c, c.command.tracks)

(* The first entry, as far as it is known.                                 *)
LookUpFirst(c) == LookUp(c, EntryAt(c.monitor, 0))

FirstIsBreak(c) == FinishedIf(EntryOf(c, EntryAt(c.monitor, 0)).type = "Break", c)

BreakStep(c) ==
    IF ~ c.monitor.completed \/ c.monitor.length = 0 THEN Incomplete(c)
    ELSE FirstIsBreak(LookUpFirst(LookAt(c, 0)))

(* insertReversed: the position is counted from the end.                   *)
NewRequest == 1

InsertReversedStep(c) ==
    LET index == c.monitor.length - c.program.index
    IN  IF ~ c.monitor.known THEN Incomplete(c)
        ELSE IF index < 0 THEN Finished(c, Failure)
        ELSE Completed(Ask([c EXCEPT !.command.request = NewRequest],
                           InsertQueueEntryAtIndex(NewRequest, c.program.entry, index)))

TrackStatsStep(c) ==
    IF c.program.hash \in c.userData.have THEN Printed(c, <<c.program.hash>>)
    ELSE Incomplete(GetHashData(c, c.program.hash))

(* Mistake: the mode is compared, but not the user.                        *)
PersonalModeOfAnyone(c) == FinishedIf(c.player.user > 0, c)

PersonalModeStep(c) == FinishedIf(c.player.user = Me, c)

Step(c) ==
    LET p == c.program
        first == c.command.step = 1
    IN  CASE p.cmd = "play" -> FinishedIf(c.player.state = "Playing", c)
          [] p.cmd = "pause" -> FinishedIf(c.player.state = "Paused", c)
          [] p.cmd = "skip" -> IF first THEN SkipStep(c)
                               ELSE FinishedIf(c.player.id # c.command.skipped, c)
          [] p.cmd = "nowplaying" -> NowPlayingStep(c)
          [] p.cmd = "status" -> StatusStep(c)
          [] p.cmd = "personal" -> PersonalModeStep(c)
          [] p.cmd = "public" -> FinishedIf(c.player.user = 0, c)
          [] p.cmd = "dynamic" -> FinishedIf(c.dynamic = p.enabled, c)
          [] p.cmd = "volume" ->
                IF c.player.volume >= 0 THEN Printed(c, <<c.player.volume>>)
                ELSE Incomplete(c)
          [] p.cmd = "setvolume" -> FinishedIf(c.player.volume = p.volume, c)
          [] p.cmd = "scrobbling" -> FinishedIf(c.scrobbling = p.enabled, c)
          [] p.cmd = "scrobblingstatus" ->
                IF c.scrobbling = Unknown THEN Incomplete(c)
                ELSE Printed(c, <<c.scrobbling>>)
          [] p.cmd = "trackstats" -> TrackStatsStep(c)
          [] p.cmd = "queue" -> IF first THEN QueueStep(c) ELSE PrintQueueStep(c)
          [] p.cmd = "history" -> IF first THEN HistoryStep(c) ELSE PrintHistoryStep(c)
          [] p.cmd = "break" -> BreakStep(c)
          [] p.cmd = "insertreversed" -> InsertReversedStep(c)
          [] p.cmd \in {"delete", "move"} -> FinishedIf(c.command.happened, c)
          [] p.cmd = "shutdown" -> FinishedIf(~ c.connected, c)

LastStep(cmd) ==
    CASE cmd \in {"skip", "queue", "history"} -> 2
      [] cmd \in {"insert", "action"} -> 0
      [] OTHER -> 1

(* listenerSlot: after a step that is completed, the next one is tried     *)
(* soon.                                                                   *)
AfterStep(r) ==
    CASE r.is = "incomplete" -> r.c
      [] r.is = "finished" -> Exit(r.c, r.code)
      [] r.is = "completed" /\ r.c.command.step = LastStep(r.c.program.cmd) ->
            [r.c EXCEPT !.command.completed = TRUE]
      [] OTHER -> [r.c EXCEPT !.command.step = @ + 1, !.command.calls = @ + 1]

ListenerSlot(c) ==
    IF c.command.finished \/ c.command.completed THEN c ELSE AfterStep(Step(c))

-----------------------------------------------------------------------------
(* Signals.                                                                *)

(* The future of a request without an object: it is successful, with what  *)
(* is to be printed, or the code is that of a failure.                     *)
Outcome(msg) ==
    CASE msg.type = "result" -> [code |-> msg.code, output |-> << >>]
      [] msg.type = "hashInfo" -> [code |-> "NoError", output |-> <<msg.tags>>]
      [] OTHER -> [code |-> "NoError", output |-> << >>]

IsOutcome(msg) == msg.type \in {"result", "version", "hashInfo", "historyFragment"}

HandleOutcome(c, outcome) ==
    ExitWithResult([c EXCEPT !.command.output = outcome.output], outcome.code)

(* The signals that are connected to listenerSlot.                         *)
Connects(cmd) ==
    CASE cmd \in {"play", "pause"} -> {"playerStateChanged"}
      [] cmd = "skip" -> {"playerStateChanged", "playerTrackChanged"}
      [] cmd = "nowplaying" -> {"currentTrackChanged", "currentTrackInfoChanged"}
      [] cmd = "status" -> {"playerStateChanged", "playerModeChanged",
                            "currentTrackChanged", "dynamicModeEnabledChanged"}
      [] cmd \in {"personal", "public"} -> {"playerModeChanged"}
      [] cmd = "dynamic" -> {"dynamicModeEnabledChanged"}
      [] cmd \in {"volume", "setvolume"} -> {"volumeChanged"}
      [] cmd \in {"scrobbling", "scrobblingstatus"} -> {"lastFmInfoChanged"}
      [] cmd = "trackstats" -> {"dataReceivedForUser"}
      [] cmd \in {"queue", "break"} -> {"fetchCompleted", "tracksChanged"}
      [] cmd = "history" -> {"tracksChanged"}
      [] cmd = "insertreversed" -> {"queueLengthChanged"}
      [] OTHER -> {}

(* What the user asked for has happened to the queue.                      *)
IsWhatWasAskedFor(p, msg) ==
    \/ p.cmd = "delete" /\ msg.type = "entryRemoved" /\ msg.id = p.id
    \/ p.cmd = "move" /\ msg.type = "entryMoved" /\ msg.id = p.id
                      /\ msg.to - msg.from = p.offset

(* The signals of the queue controller and of the history controller have  *)
(* listeners of their own, that end the command or that make a note before *)
(* they call listenerSlot.                                                 *)
InsertionListener(c, s) ==
    CASE s.type = "queueEntryAdded" /\ c.program.cmd \in {"insert", "insertreversed"}
            /\ s.msg.ref = c.command.request -> Exit(c, Success)
      [] s.type = "queueEntryInsertionFailed" /\ s.msg.ref = c.command.request ->
            ExitWithResult(c, s.msg.code)
      [] OTHER -> c

IsNoted(c, s) ==
    \/ s.type = "receivedPlayerHistory"
    \/ s.type \in {"queueEntryRemoved", "queueEntryMoved"}
          /\ IsWhatWasAskedFor(c.program, s.msg)

Noted(c, s) ==
    LET noted == [c EXCEPT !.command.happened = TRUE]
    IN  IF s.type = "receivedPlayerHistory"
        THEN FoldLeft(LookUp, [noted EXCEPT !.command.tracks = s.ids], s.ids)
        ELSE noted

CommandHears(c, s) ==
    IF ~ c.command.started THEN c
    ELSE IF s.type \in Connects(c.program.cmd) \/ IsNoted(c, s)
    THEN ListenerSlot(IF IsNoted(c, s) THEN Noted(c, s) ELSE c)
    ELSE InsertionListener(c, s)

(* The signals that were emitted reach their listeners, until there are no *)
(* more of them.                                                           *)
RECURSIVE Deliver(_)
Deliver(c) ==
    IF c.news = << >> THEN c
    ELSE LET s == Head(c.news)
             heard == FoldLeft(LAMBDA x, object : HearsSignal(x, object, s),
                               [c EXCEPT !.news = Tail(@)], c.objects)
         IN  Deliver(WindowHears(CommandHears(heard, s), s))

(* A message, or the end of the connection, is known to one object after   *)
(* the other.                                                              *)
ReceiveAll(c, msg) ==
    FoldLeft(LAMBDA x, object : Deliver(Hears(x, object, msg)), c, c.objects)

LoseAll(c) == FoldLeft(LAMBDA x, object : Deliver(Loses(x, object)), c, c.objects)

-----------------------------------------------------------------------------
(* run(), of each of the commands.                                         *)

WithLimit(c, limit) == MonitorBecomes(c, SetFetchLimit(c.monitor, limit))

(* The objects that a command uses.                                        *)
ObjectsOf(cmd) ==
    CASE cmd \in {"play", "pause", "skip", "personal", "public", "volume", "setvolume"} ->
            <<"player">>
      [] cmd = "nowplaying" -> <<"track">>
      [] cmd = "status" -> <<"player", "track", "dynamic">>
      [] cmd = "dynamic" -> <<"dynamic">>
      [] cmd = "trackstats" -> <<"userData">>
      [] cmd \in {"scrobbling", "scrobblingstatus"} -> <<"scrobbling">>
      [] cmd \in {"insert", "delete", "move"} -> <<"queue">>
      [] cmd = "history" -> <<"history", "storage">>
      [] cmd = "insertreversed" -> <<"queue", "monitor">>
      [] cmd \in {"queue", "break"} -> <<"monitor">>
      [] OTHER -> << >>

RunPlayerCommand(c) ==
    IF c.program.cmd \in {"play", "pause"} THEN Ask(c, PlayOrPause(c.program.cmd)) ELSE c

RunMiscellaneousCommand(c) ==
    LET p == c.program
    IN  CASE p.cmd = "personal" -> Ask(c, SwitchToMode(Me))
          [] p.cmd = "public" -> Ask(c, SwitchToMode(0))
          [] p.cmd = "dynamic" -> Ask(c, SwitchDynamicMode(p.enabled))
          [] p.cmd = "setvolume" -> Ask(c, ChangeVolume(p.volume))
          [] OTHER -> c

RunScrobblingCommand(c) ==
    IF c.program.cmd = "scrobblingstatus" THEN c
    ELSE Ask(c, UserScrobblingEnableDisableRequest(c.program.enabled))

InsertRequest(p) ==
    IF p.entry > 0 THEN InsertQueueEntryAtIndex(NewRequest, p.entry, p.index)
    ELSE InsertSpecialQueueItemAtIndex(NewRequest, p.entry, p.index, p.kind)

RunQueueCommand(c) ==
    LET p == c.program
    IN  CASE p.cmd = "queue" ->
                CreateAll(WithLimit(c, p.limit), <<"storage", "fetcher">>)
          [] p.cmd = "break" ->
                Ask(CreateAll(WithLimit(c, 1), <<"storage", "queue">>), InsertBreakAtFront)
          [] p.cmd = "insert" ->
                Ask([c EXCEPT !.command.request = NewRequest], InsertRequest(p))
          [] p.cmd = "insertreversed" -> WithLimit(c, 1)
          [] p.cmd = "delete" -> Ask(c, DeleteQueueEntry(p.id))
          [] p.cmd = "move" -> Ask(c, MoveQueueEntry(p.id, p.offset))

RunHistoryCommand(c) == Ask(c, PlayerHistoryRequest(c.program.limit))

(* The commands that are one request without an object of the library.     *)
RunAdministrativeCommand(c) ==
    Ask(c, IF c.program.cmd = "shutdown" THEN ShutdownServer
           ELSE FutureRequest(c.program.kind, c.program.hash))

RunWithObjects(c) ==
    CASE c.program.cmd \in {"play", "pause", "skip", "nowplaying"} -> RunPlayerCommand(c)
      [] c.program.cmd \in {"queue", "break", "insert", "insertreversed", "delete", "move"} ->
            RunQueueCommand(c)
      [] c.program.cmd \in {"scrobbling", "scrobblingstatus"} -> RunScrobblingCommand(c)
      [] c.program.cmd = "history" -> RunHistoryCommand(c)
      [] c.program.cmd \in {"shutdown", "action"} -> RunAdministrativeCommand(c)
      [] OTHER -> RunMiscellaneousCommand(c)

Run(c) == RunWithObjects(CreateAll(c, ObjectsOf(c.program.cmd)))

(* execute(): a first look at the first step soon, and a timeout.          *)
Started(c) ==
    [c EXCEPT !.command.started = TRUE,
              !.command.calls = IF LastStep(c.program.cmd) > 0 THEN 1 ELSE 0]

Execute(c) == Started(Deliver(Run([c EXCEPT !.command.timer = TRUE])))

(* The timer of one second.                                                *)
TimeOut(before) ==
    LET c == [before EXCEPT !.command.timer = FALSE]
    IN  IF c.command.finished THEN c ELSE Exit(c, Failure)
=============================================================================
