------------------------------ MODULE MCRemote ------------------------------
(***************************************************************************)
(* Remote for TLC: each command, typed with a login or without, with the   *)
(* servers at which it has something to do; the desktop client; and lines  *)
(* for a server that cannot be reached, to see which of them are taken for *)
(* commands.  Entry i of the queue is the track with hash 1 (tags with a   *)
(* title) or 2 (a length, and a file name); hash 3 is in the queue only    *)
(* when it has been inserted, hash 4 has no tags at all, and hash 5 is not *)
(* known to the server.                                                    *)
(***************************************************************************)
EXTENDS Remote

MCTags == <<"title", "length", "title", "none">>

MCWordParts == "login:" :> <<"login", ":">> @@ ":play" :> <<":", "play">>
                   @@ "login:play" :> <<"login", ":", "play">>
MCNumeral == "0" :> 0 @@ "1" :> 1 @@ "2" :> 2 @@ "60" :> 60 @@ "101" :> 101
                 @@ "+1" :> 1 @@ "-1" :> -1
MCHashWord == "hash1" :> 1 @@ "hash3" :> 3 @@ "hash5" :> 5
MCDateWords == {"yesterday", "today", "tomorrow"}
MCTimeWords == {"early", "late"}
MCFutureTimes == {<<"today", "late">>, <<"tomorrow", "early">>, <<"tomorrow", "late">>}

-----------------------------------------------------------------------------
(* Lines at a server.                                                      *)

Entries == <<1, 2, 1>>

Stopped == NewServer("Stopped", 0, <<1, 2>>, <<1, 2>>)
Playing == NewServer("Playing", 1, <<2>>, <<1, 2>>)
PlayingAnother == NewServer("Playing", 2, <<1>>, <<1, 2>>)
PlayingBare == NewServer("Playing", 1, << >>, <<4>>)
Paused == NewServer("Paused", 1, << >>, <<1>>)
PlayingLast == NewServer("Playing", 1, << >>, <<1>>)
BeforeBarrier == NewServer("Playing", 1, <<2>>, <<1, -1>>)
Longer == NewServer("Stopped", 0, <<1, 2, 3>>, <<1, 2, 1>>)
WithHistory == [Playing EXCEPT !.history = <<3>>, !.entry = Entries, !.nextId = 4]
FullHistory == [NewServer("Playing", 3, << >>, <<1, 2, 1>>) EXCEPT !.history = <<1, 2>>]
Busy == [Stopped EXCEPT !.running = "scan"]
Personal == [Stopped EXCEPT !.user = 2]
Short == NewServer("Stopped", 0, <<1>>, <<1>>)
ShortPersonal == [Short EXCEPT !.user = 2]
Delayed == [Stopped EXCEPT !.delayed = TRUE]
Scrobbling == [Stopped EXCEPT !.scrobbling = "on"]
Refusing == [Scrobbling EXCEPT !.accepts = FALSE]

At(lines, servers) ==
    [words : lines, lines : {0}, credentials : {"right"}, server : servers, reachable : {TRUE},
     busyWith : {""}]

Players == {Stopped, Playing, Paused, PlayingLast}

ConnectedBeginnings == UNION {
    At({<<"play">>, <<"pause">>, <<"skip">>}, Players),
    At({<<"skip">>}, {BeforeBarrier}),
    At({<<"nowplaying">>, <<"status">>}, {Stopped, Playing, PlayingAnother, PlayingBare}),
    At({<<"personalmode">>, <<"publicmode">>, <<"volume">>, <<"volume", "60">>,
        <<"dynamicmode", "on">>, <<"dynamicmode", "off">>, <<"scrobbling", "enable", "lastfm">>,
        <<"scrobbling", "status", "lastfm">>, <<"trackstats", "hash1">>, <<"break">>,
        <<"insert", "break", "front">>, <<"insert", "barrier", "end">>,
        <<"insert", "hash3", "index", "1">>, <<"insert", "hash5", "front">>,
        <<"insert", "break", "index", "60">>, <<"shutdown">>}, {Stopped, Personal}),
    At({<<"insert", "hash3", "end">>, <<"qdel", "2">>, <<"qmove", "2", "-1">>}, {Stopped}),
    At({<<"queue">>}, {Stopped, Longer, PlayingLast}),
    At({<<"history">>}, {Stopped, WithHistory}),
    At({<<"start", "indexation">>, <<"start", "indexation", "new">>,
        <<"delayedstart", "wait", "1", "s">>, <<"delayedstart", "cancel">>},
       {Stopped, Busy, Delayed}),
    At({<<"scrobbling", "authenticate", "lastfm">>}, {Stopped, Scrobbling, Refusing}),
    At({<<"reloadserversettings">>, <<"serverversion">>, <<"trackinfo", "hash1">>,
        <<"trackinfo", "hash5">>, <<"trackhistory", "hash1">>}, {Stopped}),
    [words : {<<"login", ":", "status">>, <<"login", "me", "-", ":", "play">>},
     lines : {1}, credentials : {"right", "wrong"}, server : {Stopped}, reachable : {TRUE},
     busyWith : {""}] }

DesktopBeginnings ==
    [words : {<< >>}, lines : {0}, credentials : {"right"}, server : {Playing, Longer},
     reachable : {TRUE}, busyWith : {"queue"}] \cup
    [words : {<< >>}, lines : {0}, credentials : {"right"}, server : {Short, ShortPersonal},
     reachable : {TRUE}, busyWith : {"player"}] \cup
    [words : {<< >>}, lines : {0}, credentials : {"right"}, server : {Short},
     reachable : {TRUE}, busyWith : {"delayedStart"}] \cup
    [words : {<< >>}, lines : {0}, credentials : {"right"}, server : {Delayed},
     reachable : {TRUE}, busyWith : {"nothing"}] \cup
    [words : {<< >>}, lines : {0}, credentials : {"right"}, server : {Stopped},
     reachable : {TRUE}, busyWith : {"volume"}] \cup
    [words : {<< >>}, lines : {0}, credentials : {"right"}, server : {FullHistory},
     reachable : {TRUE}, busyWith : {"history", "enqueue"}]

-----------------------------------------------------------------------------
(* Lines for the parser: all of two words, and those that are documented,  *)
(* with a word more, less or changed, and with what may come before.       *)

Words == UNION {UNION {UNION {p[i] : i \in DOMAIN p} : p \in Patterns},
                DOMAIN MCWordParts, DOMAIN MCNumeral, MCDateWords, MCTimeWords,
                {"login", ":", "me", "-"}}

LinesOf(p) ==
    CASE Len(p) = 1 -> {<<a>> : a \in p[1]}
      [] Len(p) = 2 -> {<<a, b>> : a \in p[1], b \in p[2]}
      [] Len(p) = 3 -> {<<a, b, c>> : a \in p[1], b \in p[2], c \in p[3]}
      [] OTHER -> {<<a, b, c, d>> : a \in p[1], b \in p[2], c \in p[3], d \in p[4]}

DocumentedLines == UNION {LinesOf(p) : p \in Patterns}

SomeWords == {":", "1", "-1", "late", "end", "new"}

Variations(line) ==
    {Append(line, w) : w \in SomeWords} \cup {RemoveAt(line, i) : i \in DOMAIN line}
        \cup {ReplaceAt(line, i, w) : i \in DOMAIN line, w \in SomeWords}

Logins ==
    {<<"login">>, <<"login", "me">>, <<"login", "-">>, <<"login", "me", "-">>,
     <<"login", "-", "-">>, <<"login", "me", "you">>, <<"login", "-", "me">>,
     <<"login", "me", "-", "-">>, <<"me">>, << >>}

LinesAfterLogin == {<<"play">>, <<"status">>, <<"volume", "60">>, <<"login">>, <<":">>, << >>}

TypedLines ==
    {<<a>> : a \in Words} \cup {<<a, b>> : a \in Words, b \in Words}
        \cup DocumentedLines
        \cup UNION {Variations(l) : l \in {d \in DocumentedLines :
                                             Len(d) > 1 /\ d[Len(d)] \notin TimeUnits \ {"s"}}}
        \cup {l \o <<":">> \o r : l \in Logins, r \in LinesAfterLogin}

UnconnectedBeginnings ==
    [words : TypedLines \ {<< >>}, lines : {2}, credentials : {"right"}, server : {Stopped},
     reachable : {FALSE}, busyWith : {""}] \cup
    [words : {l \o <<":", "status">> : l \in Logins} \cup {<<"play">>, <<"status">>, <<"volume">>},
     lines : {0, 1}, credentials : {"right", "empty"}, server : {Stopped}, reachable : {FALSE},
     busyWith : {""}]

MCBeginnings == DesktopBeginnings \cup ConnectedBeginnings \cup UnconnectedBeginnings

-----------------------------------------------------------------------------
PlayerRequests == {[type |-> t] : t \in {"play", "pause", "skip"}}
QueueRequests ==
    {[type |-> "insert", index |-> i, entry |-> 1, ref |-> 0, kind |-> ""] : i \in {0, 1}}
        \cup {[type |-> "remove", id |-> i] : i \in {1, 2}}
        \cup {[type |-> "move", id |-> i, diff |-> d] : i \in {2, 3}, d \in {-1, 1}}
ModeRequests == {[type |-> "setMode", user |-> u] : u \in {0, 1, 2}}
VolumeRequests == {[type |-> "setVolume", volume |-> v] : v \in {40, 60}}
DynamicRequests == {[type |-> "setDynamic", enabled |-> e] : e \in {"on", "off"}}

MCOtherRequests(p) ==
    CASE p.cmd \in {"play", "pause", "skip", "nowplaying", "history"} -> PlayerRequests
      [] p.kind \in {"delayedstart", "cancel"} -> {[type |-> "play"]}
      [] p.cmd \in {"personal", "public"} -> ModeRequests
      [] p.cmd \in {"volume", "setvolume"} -> VolumeRequests
      [] p.cmd = "dynamic" -> DynamicRequests
      [] p.cmd = "status" -> PlayerRequests \cup {[type |-> "setMode", user |-> 2]}
                                \cup DynamicRequests
      [] p.cmd \in {"queue", "break", "insert", "insertreversed", "delete", "move"} ->
            QueueRequests
      [] p.kind = "queue" -> QueueRequests \cup {[type |-> "skip"], [type |-> "play"]}
      [] p.kind = "player" -> {[type |-> "play"]} \cup ModeRequests \cup DynamicRequests
      [] p.kind = "delayedStart" -> {[type |-> "delayedStart"]}
      [] p.kind = "volume" -> VolumeRequests
      [] p.kind = "history" -> {[type |-> "skip"], [type |-> "pause"]}
      [] OTHER -> {}

MCMaxOtherChanges(p) ==
    IF p.cmd \in {"play", "pause", "skip", "personal", "public", "setvolume", "volume",
                  "dynamic", "delete", "move", "insertreversed"}
    THEN 2 ELSE 1

MCMaxWishes(p, wish) ==
    CASE p.kind \in {"player", "delayedStart"} /\ wish = "click" -> 1
      [] p.kind = "volume" /\ wish = "slider" -> 2
      [] p.kind = "enqueue" /\ wish = "enqueue" -> 1
      [] OTHER -> 0

MCCanLose == {"play", "skip", "insert", "action", "shutdown", "desktop", "status"}
=============================================================================
