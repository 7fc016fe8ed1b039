---------------------------- MODULE CommandLine ----------------------------
(***************************************************************************)
(* The command line of the command line remote: CommandParser and the      *)
(* authentication that main() does before it connects (src/cmd-remote).    *)
(* A line is a sequence of words, the server and its port left out.  What  *)
(* a word can be taken for (a number, a hash, a date, a time) is given by  *)
(* the constants; error texts are left out.                                *)
(***************************************************************************)
EXTENDS Integers, Sequences, SequencesExt

CONSTANTS
    WordParts,           \* the words with a colon, and what they are split into
    Numeral,             \* the words that are numbers, and their values
    HashWord,            \* the words that are hashes of tracks, and these hashes
    DateWords, TimeWords,
    FutureTimes,         \* the pairs of a date and a time that have not come yet
    Today,               \* a date
    FetchLimit           \* number of entries that "queue" and "history" show

BreakItem == 0
BarrierItem == -1

(* A command as the object that the parser creates.                        *)
Plain(cmd) ==
    [cmd |-> cmd, id |-> 0, hash |-> 0, index |-> 0, limit |-> FetchLimit, offset |-> 0,
     volume |-> 0, enabled |-> "on", entry |-> 0, kind |-> ""]

(* There is no command, but an error message.                              *)
NoCommand == Plain("none")

AcceptIf(condition, command) == IF condition THEN command ELSE NoCommand

Value(word) == IF word \in DOMAIN Numeral THEN Numeral[word] ELSE -1
IsSigned(word) == word \in DOMAIN Numeral /\ word \in {"+1", "+0", "-1"}
HashIn(args) == IF Len(args) = 1 /\ args[1] \in DOMAIN HashWord THEN HashWord[args[1]] ELSE 0

-----------------------------------------------------------------------------
(* splitMultipleCommandsInOne: only the first word is looked at.           *)
Split(words) ==
    IF words # << >> /\ Head(words) \in DOMAIN WordParts
    THEN WordParts[Head(words)] \o Tail(words)
    ELSE words

(* handleCommandNotRequiringArguments                                      *)
WithoutArguments ==
    [status |-> Plain("status"), play |-> Plain("play"), pause |-> Plain("pause"),
     skip |-> Plain("skip"), break |-> Plain("break"), nowplaying |-> Plain("nowplaying"),
     queue |-> Plain("queue"), history |-> Plain("history"),
     personalmode |-> Plain("personal"), publicmode |-> Plain("public"),
     shutdown |-> Plain("shutdown"),
     reloadserversettings |-> [Plain("action") EXCEPT !.kind = "reload"],
     serverversion |-> [Plain("action") EXCEPT !.kind = "version"]]

(* A track is inserted at the end by counting from the front.              *)
BuildInsertCommand(entry, index, kind) ==
    IF entry > 0 /\ kind = "reverse" THEN [Plain("insertreversed") EXCEPT !.entry = entry]
    ELSE [Plain("insert") EXCEPT !.entry = entry, !.index = index, !.kind = kind]

ItemIn(word) ==
    CASE word = "break" -> BreakItem
      [] word = "barrier" -> BarrierItem
      [] OTHER -> HashWord[word]

ParseInsert(args) ==
    IF Len(args) < 2 \/ args[1] \notin {"break", "barrier"} \cup DOMAIN HashWord
    THEN NoCommand
    ELSE LET entry == ItemIn(args[1])
         IN  CASE args[2] = "front" -> AcceptIf(Len(args) = 2, BuildInsertCommand(entry, 0, ""))
               [] args[2] = "end" ->
                     AcceptIf(Len(args) = 2, BuildInsertCommand(entry, 0, "reverse"))
               [] args[2] = "index" /\ Len(args) > 2 ->
                     AcceptIf(Len(args) = 3 /\ Value(args[3]) >= 0,
                              BuildInsertCommand(entry, Value(args[3]), ""))
               [] OTHER -> NoCommand

(* What comes after "full" or "new" is not looked at.                      *)
ParseStart(args) ==
    LET scan == [Plain("action") EXCEPT !.kind = "scan"]
        indexation == [Plain("action") EXCEPT !.kind = "indexation"]
    IN  IF args = << >> \/ args[1] # "indexation" THEN NoCommand
        ELSE IF Len(args) = 1 \/ args[2] = "full" THEN indexation
        ELSE AcceptIf(args[2] = "new", scan)

(* parseDelayedStartAt: the first argument is a date, or a time of today.  *)
ParseDelayedStartAt(args) ==
    LET dated == args # << >> /\ args[1] \in DateWords
        date == IF dated THEN args[1] ELSE Today
        rest == IF dated THEN Tail(args) ELSE args
    IN  AcceptIf(Len(rest) = 1 /\ rest[1] \in TimeWords /\ <<date, rest[1]>> \in FutureTimes,
                 [Plain("action") EXCEPT !.kind = "delayedstart"])

TimeUnits == {"s", "seconds", "second", "min", "minutes", "minute", "h", "hours", "hour",
              "ms", "milliseconds", "millisecond"}

ParseDelayedStartWait(args) ==
    AcceptIf(Len(args) = 2 /\ Value(args[1]) \in 1..1000000 /\ args[2] \in TimeUnits,
             [Plain("action") EXCEPT !.kind = "delayedstart"])

ParseDelayedStart(args) ==
    IF args = << >> THEN NoCommand
    ELSE CASE args[1] \in {"abort", "cancel"} ->
                AcceptIf(Len(args) = 1, [Plain("action") EXCEPT !.kind = "cancel"])
           [] args[1] = "at" -> ParseDelayedStartAt(Tail(args))
           [] args[1] = "wait" -> ParseDelayedStartWait(Tail(args))
           [] OTHER -> NoCommand

(* The commands with a hash: trackinfo, trackstats and trackhistory.       *)
ParseTrackInfo(args) ==
    AcceptIf(HashIn(args) # 0,
             [Plain("action") EXCEPT !.kind = "trackinfo", !.hash = HashIn(args)])
ParseTrackStats(args) ==
    AcceptIf(HashIn(args) # 0, [Plain("trackstats") EXCEPT !.hash = HashIn(args)])
ParseTrackHistory(args) ==
    AcceptIf(HashIn(args) # 0,
             [Plain("action") EXCEPT !.kind = "trackhistory", !.hash = HashIn(args)])

(* The provider comes after each of the four.                              *)
ParseScrobbling(args) ==
    LET command == CASE args[1] = "enable" -> Plain("scrobbling")
                     [] args[1] = "disable" -> [Plain("scrobbling") EXCEPT !.enabled = "off"]
                     [] args[1] = "status" -> Plain("scrobblingstatus")
                     [] args[1] = "authenticate" ->
                           [Plain("action") EXCEPT !.kind = "authenticate"]
                     [] OTHER -> NoCommand
    IN  AcceptIf(Len(args) = 2 /\ args[2] \in {"lastfm", "last.fm"}, command)

(* Mistake: what comes after "on" or "off" is not looked at.               *)
ParseDynamicModeAndMore(args) ==
    AcceptIf(args # << >> /\ args[1] \in {"on", "off"},
             [Plain("dynamic") EXCEPT !.enabled = args[1]])

ParseDynamicMode(args) ==
    AcceptIf(Len(args) = 1 /\ args[1] \in {"on", "off"},
             [Plain("dynamic") EXCEPT !.enabled = args[1]])

ParseVolume(args) ==
    IF args = << >> THEN Plain("volume")
    ELSE AcceptIf(Len(args) = 1 /\ Value(args[1]) \in 0..100,
                  [Plain("setvolume") EXCEPT !.volume = Value(args[1])])

ParseQueueDelete(args) ==
    AcceptIf(Len(args) = 1 /\ Value(args[1]) >= 0, [Plain("delete") EXCEPT !.id = Value(args[1])])

(* The offset fits into 16 bits.                                           *)
ParseQueueMove(args) ==
    AcceptIf(/\ Len(args) = 2 /\ Value(args[1]) >= 0
             /\ IsSigned(args[2]) /\ Numeral[args[2]] \in (-(2^15) .. 2^15 - 1) \ {0},
             [Plain("move") EXCEPT !.id = Value(args[1]), !.offset = Numeral[args[2]]])

(* parseCommand                                                            *)
ParseCommand(words) ==
    LET command == Head(words)
        args == Tail(words)
    IN  IF words = << >> THEN NoCommand
        ELSE CASE command \in DOMAIN WithoutArguments ->
                     AcceptIf(args = << >>, WithoutArguments[command])
               [] command = "dynamicmode" -> ParseDynamicMode(args)
               [] command = "insert" -> ParseInsert(args)
               [] command = "start" -> ParseStart(args)
               [] command = "delayedstart" -> ParseDelayedStart(args)
               [] command = "trackinfo" -> ParseTrackInfo(args)
               [] command = "trackstats" -> ParseTrackStats(args)
               [] command = "trackhistory" -> ParseTrackHistory(args)
               [] command = "scrobbling" -> ParseScrobbling(args)
               [] command = "volume" -> ParseVolume(args)
               [] command = "qdel" -> ParseQueueDelete(args)
               [] command = "qmove" -> ParseQueueMove(args)
               [] OTHER -> NoCommand

-----------------------------------------------------------------------------
(* Authentication: where the user name and the password come from.         *)

SeparatorIndex(words) ==
    LET Colons == {i \in DOMAIN words : i > 1 /\ words[i] = ":"}
    IN  IF Colons = {} THEN 0 ELSE CHOOSE i \in Colons : \A j \in Colons : i <= j

(* parseExplicitLoginAndSeparator: the words between "login" and the first *)
(* separator.                                                              *)
LoginMode(credentials) ==
    CASE Len(credentials) = 0 -> "ExplicitAllInteractive"
      [] Len(credentials) \in {1, 2} /\ credentials[1] = "-" -> "ExplicitAllFromStdIn"
      [] Len(credentials) = 1 -> "ExplicitPasswordInteractive"
      [] OTHER -> "ExplicitPasswordFromStdIn"

LoginIsFine(credentials) ==
    \/ Len(credentials) < 2
    \/ Len(credentials) = 2 /\ credentials[2] = "-"

Parse(line) ==
    LET words == Split(line)
        separator == SeparatorIndex(words)
        credentials == SubSeq(words, 2, separator - 1)
    IN  IF words # << >> /\ Head(words) = "login"
        THEN [mode |-> LoginMode(credentials),
              command |-> IF separator = 0 \/ ~ LoginIsFine(credentials) THEN NoCommand
                          ELSE ParseCommand(SubSeq(words, separator + 1, Len(words)))]
        ELSE [mode |-> "Implicit", command |-> ParseCommand(words)]

(* Mistake: the queue can be shown to everyone, it is thought.             *)
RequiresAuthenticationUnlessQueue(command) ==
    /\ command.cmd \notin {"status", "nowplaying", "volume", "queue"}
    /\ command.kind \notin {"version", "trackinfo"}

(* requiresAuthentication, of each of the commands.                        *)
RequiresAuthentication(command) ==
    /\ command.cmd \notin {"status", "nowplaying", "volume"}
    /\ command.kind \notin {"version", "trackinfo"}

(* handleAuthentication: "none", "given" or, when the standard input has   *)
(* too few lines or a name or password is empty, an "error".               *)
Credentials(parsed, linesOnStdIn, entered) ==
    LET given == IF entered = "empty" THEN "error" ELSE "given"
    IN  CASE parsed.mode = "Implicit" ->
                IF RequiresAuthentication(parsed.command) THEN given ELSE "none"
          [] parsed.mode = "ExplicitPasswordFromStdIn" ->
                IF linesOnStdIn < 1 THEN "error" ELSE given
          [] parsed.mode = "ExplicitAllFromStdIn" ->
                IF linesOnStdIn < 2 THEN "error" ELSE given
          [] OTHER -> given

-----------------------------------------------------------------------------
(* What the usage text documents: the words that are allowed at each       *)
(* position.  A line with a colon in its first word is one with spaces     *)
(* around the colon.                                                       *)

NonNegative == {w \in DOMAIN Numeral : Numeral[w] >= 0}
Items == {"break", "barrier"} \cup DOMAIN HashWord

Patterns ==
    {<<{w}>> : w \in DOMAIN WithoutArguments \cup {"volume"}} \cup
    {<<{"dynamicmode"}, {"on", "off"}>>,
     <<{"volume"}, {w \in NonNegative : Numeral[w] <= 100}>>,
     <<{"insert"}, Items, {"front", "end"}>>, <<{"insert"}, Items, {"index"}, NonNegative>>,
     <<{"qdel"}, NonNegative>>,
     <<{"qmove"}, NonNegative, {w \in {"+1", "-1"} : w \in DOMAIN Numeral}>>,
     <<{"start"}, {"indexation"}>>, <<{"start"}, {"indexation"}, {"full", "new"}>>,
     <<{"scrobbling"}, {"enable", "disable", "status", "authenticate"}, {"lastfm", "last.fm"}>>,
     <<{"delayedstart"}, {"abort", "cancel"}>>,
     <<{"delayedstart"}, {"wait"}, NonNegative \ {w \in NonNegative : Numeral[w] = 0},
       TimeUnits>>,
     <<{"trackinfo", "trackstats", "trackhistory"}, DOMAIN HashWord>>}
    \cup {<<{"delayedstart"}, {"at"}, {t[1]}, {t[2]}>> : t \in FutureTimes}
    \cup {<<{"delayedstart"}, {"at"}, {t[2]}>> : t \in {u \in FutureTimes : u[1] = Today}}

Matches(words, pattern) ==
    Len(words) = Len(pattern) /\ \A i \in DOMAIN words : words[i] \in pattern[i]

IsDocumentedCommand(words) == \E p \in Patterns : Matches(words, p)

(* login, login <username>, login <username> - and login - [-].            *)
IsLogin(words) ==
    /\ words # << >> /\ Head(words) = "login" /\ Len(words) <= 3
    /\ \A i \in DOMAIN words : words[i] # ":"
    /\ Len(words) = 3 => words[3] = "-"

Documented(line) ==
    LET words == Split(line)
    IN  \/ IsDocumentedCommand(words)
        \/ \E i \in DOMAIN words :
              /\ words[i] = ":" /\ IsLogin(SubSeq(words, 1, i - 1))
              /\ IsDocumentedCommand(SubSeq(words, i + 1, Len(words)))
=============================================================================
