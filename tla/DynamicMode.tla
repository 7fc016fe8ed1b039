---------------------------- MODULE DynamicMode ----------------------------
(***************************************************************************)
(* Dynamic mode (src/server: generator.cpp, dynamictrackgenerator.cpp,     *)
(* wavetrackgenerator.cpp, trackgeneratorbase.cpp, randomtrackssource.cpp, *)
(* trackrepetitionchecker.cpp).  A source hands out the tracks of the      *)
(* collection in random order; the dynamic track generator and the wave    *)
(* (the "high-scored tracks mode") take candidates from it, filter them    *)
(* and keep the good ones in lists of upcoming tracks; the generator adds  *)
(* those to the queue when it has become too short.                        *)
(*                                                                         *)
(* Everything runs in one event loop: an action is one event (a timer, a   *)
(* signal or a call) with all that follows from it.  The C++ functions are *)
(* operators on g, a record with the members of all the objects.           *)
(***************************************************************************)
EXTENDS Integers, Sequences, FiniteSets, SequencesExt

CONSTANTS
    Hashes,              \* the tracks
    NewHashes,           \* those that are found after the start
    Unusable,            \* those without a file, or too short
    HighScored,          \* those that have a score high enough for a wave
    Users, Public,       \* Public is user 0
    MaximumQueueLength,  \* what the queue can hold (2'000'000)
    DesiredQueueLength,  \* 10
    ExpandCount,         \* 5
    DynamicTake, DynamicKeep,             \* 12, 6
    WaveTake, WaveKeep, WaveGoal,         \* 22, 10, 20
    NotifyBatch, NotifyTarget,            \* 10, 250
    MaxCommands,         \* bound on what users do, and new tracks
    MaxRejections        \* bound on the tracks rejected for a reason that is
                         \* not modelled: score tolerance, heard recently

ASSUME DynamicModeConstants ==
    /\ IsFiniteSet(Hashes)
    /\ NewHashes \subseteq Hashes /\ Unusable \subseteq Hashes
    /\ HighScored \subseteq Hashes
    /\ Public \in Users
    /\ {MaximumQueueLength, DesiredQueueLength, ExpandCount, DynamicTake, DynamicKeep, WaveTake,
        WaveKeep, WaveGoal, NotifyBatch, NotifyTarget, MaxCommands,
        MaxRejections} \subseteq Nat

VARIABLES
    g,           \* the objects of dynamic mode
    queue,       \* the hashes in the player queue
    current,     \* the hash now playing
    stats,       \* per user, the tracks whose statistics are in memory
    prefs,       \* per user, the preferences in the database
    commands,    \* how many commands users have given
    rejections   \* how many tracks were rejected for other reasons

(* What the properties need to know of the past; no guard reads it.        *)
VARIABLES
    wishes,      \* per user, the settings when dynamic mode was last for them
    lost         \* the users whose settings could not be saved, or read

prefVars == <<prefs, wishes, lost>>

vars == <<g, queue, current, stats, prefVars, commands, rejections>>

None == "none"

ASSUME NoneIsNoHash == None \notin Hashes

Preferences == [enabled : BOOLEAN, avoid : BOOLEAN]

(* setDesiredUpcomingCount(): max(10 + 5, 3 * 5) in the code.              *)
DesiredUpcoming ==
    IF DesiredQueueLength + ExpandCount >= 3 * ExpandCount
    THEN DesiredQueueLength + ExpandCount
    ELSE 3 * ExpandCount

Orders == SetToSeqs(Hashes)

(* F applied n times; the singleton sets have TLC evaluate each step once. *)
Repeat(F(_), n, x) ==
    LET after[k \in 0..n] ==
            IF k = 0 THEN x
            ELSE CHOOSE r \in {F(b) : b \in {after[k - 1]}} : TRUE
    IN  after[n]

(* What of a list is in set S.                                             *)
Selected(seq, S) ==
    LET chosen[i \in 0..Len(seq)] ==
            IF i = 0 THEN << >>
            ELSE IF seq[i] \in S THEN Append(chosen[i - 1], seq[i]) ELSE chosen[i - 1]
    IN  chosen[Len(seq)]

(* The elements of set S in the given order.                               *)
InOrder(S, order) == Selected(order, S)

-----------------------------------------------------------------------------
(* RandomTracksSource: each known track is unused, taken or used.  The     *)
(* next one is the last one in the list of unused tracks; the history is   *)
(* asked for the statistics of the last `notified` ones ahead of time.     *)

(* Generator::upcomingTrackNotification.                                   *)
Notify(x, hs) ==
    [x EXCEPT !.requested = @ \cup {<<x.user, h>> : h \in hs}]

ScheduleNotificationsCheck(x) == [x EXCEPT !.checkPending = TRUE]

ResetUpcomingTrackNotifications(x) ==
    ScheduleNotificationsCheck([x EXCEPT !.notified = 0])

Known(x) == {h \in Hashes : x.status[h] # "Unknown"}

(* Mistake: tracks that generators still have are handed out again.        *)
StartOverWithTaken(x, order) ==
    ResetUpcomingTrackNotifications(
        [x EXCEPT !.unused = InOrder(Known(x), order),
                  !.status = [h \in Hashes |->
                      IF @[h] = "Unknown" THEN @[h] ELSE "Unused"]])

(* markUsedTracksAsUnusedAgain, called when there is no unused track.      *)
StartOver(x, order) ==
    ResetUpcomingTrackNotifications(
        [x EXCEPT !.unused = InOrder({h \in Hashes : x.status[h] = "Used"}, order),
                  !.status = [h \in Hashes |->
                      IF @[h] = "Used" THEN "Unused" ELSE @[h]]])

(* takeTrack: nothing is taken when all tracks are in use.                 *)
TakeTrack(x, order) ==
    LET y == IF x.unused = << >> THEN StartOver(x, order) ELSE x
    IN  IF y.unused = << >>
        THEN [next |-> y, hash |-> None]
        ELSE [next |-> ScheduleNotificationsCheck(
                          [y EXCEPT !.unused = Front(@),
                                    !.status[Last(y.unused)] = "Taken",
                                    !.notified = IF @ > 0 THEN @ - 1 ELSE 0]),
              hash |-> Last(y.unused)]

(* putBackUsedTrack, for each of a set of candidates: the destructor of a  *)
(* candidate calls it.                                                     *)
PutBackUsed(x, hs) ==
    [x EXCEPT !.status = [h \in Hashes |->
        IF h \in hs /\ @[h] = "Taken" THEN "Used" ELSE @[h]]]

(* putBackUnusedTrack, for each of a list of candidates.                   *)
PutBackUnused(x, hs) ==
    [x EXCEPT !.unused = @ \o hs,
              !.notified = @ + Len(hs),
              !.status = [h \in Hashes |->
                  IF h \in ToSet(hs) THEN "Unused" ELSE @[h]]]

(* addNewHashToUnusedList: the new track changes places with the one at a  *)
(* random index of the list, counted from 0.                               *)
AddNewHash(x, h, index) ==
    LET end == Len(x.unused)
        appended == Append(x.unused, h)
        swapped == [i \in 1..end + 1 |->
                       IF i = index + 1 THEN h
                       ELSE IF i = end + 1 THEN x.unused[index + 1]
                       ELSE x.unused[i]]
        y == [x EXCEPT !.status[h] = "Unused",
                       !.unused = IF index < end THEN swapped ELSE appended,
                       !.notified = IF index < end
                                    THEN IF @ <= end - index THEN @ ELSE end - index
                                    ELSE @ + 1]
    IN  ScheduleNotificationsCheck(Notify(y, {Last(y.unused)}))

(* checkNotifications.                                                     *)
CheckedNotifications(x) ==
    LET y == [x EXCEPT !.checkPending = FALSE]
        next == Len(x.unused) - x.notified      \* index + 1
        count == IF next <= NotifyBatch THEN next ELSE NotifyBatch
    IN  IF x.notified >= NotifyTarget \/ next = 0 THEN y
        ELSE IF next < 0 THEN [y EXCEPT !.notified = Len(x.unused)]
        ELSE ScheduleNotificationsCheck(
                 Notify([y EXCEPT !.notified = @ + count],
                        {x.unused[i] : i \in next - count + 1..next}))

-----------------------------------------------------------------------------
(* TrackGeneratorBase.                                                     *)

(* takeFromSourceAndApplyFilter: a candidate that is not accepted goes     *)
(* back to the source as used.  When there are not enough of them and all  *)
(* are needed, they go back as unused.                                     *)
TakeFromSource(x, count, tries, allOrNothing, accepted, order) ==
    LET Try(b) ==
            LET t == TakeTrack(b.next, order)
            IN  IF Len(b.tracks) >= count THEN b
                ELSE IF t.hash \in accepted \ Unusable
                THEN [next |-> t.next, tracks |-> Append(b.tracks, t.hash)]
                ELSE [next |-> PutBackUsed(t.next, {t.hash}), tracks |-> b.tracks]
        taken == Repeat(Try, tries, [next |-> x, tracks |-> << >>])
    IN  IF allOrNothing /\ Len(taken.tracks) # count
        THEN [next |-> PutBackUnused(taken.next, taken.tracks), tracks |-> << >>]
        ELSE taken

(* applySelectionFilter: the best keepCount tracks, in the order in which  *)
(* they were taken.                                                        *)
BestOf(tracks, keepCount, ranking) ==
    LET ranked == InOrder(ToSet(tracks), ranking)
    IN  IF keepCount >= Len(tracks) THEN tracks
        ELSE Selected(tracks, {ranked[i] : i \in 1..keepCount})

(* Mistake: a track that is playing is not looked at.                      *)
NotRepeatedInQueue(x, q, playing) ==
    IF x.avoid THEN Hashes \ ToSet(q)
    ELSE IF q = << >> THEN Hashes ELSE Hashes \ {Last(q)}

(* satisfiesNonRepetition, as far as the queue and the current track go.   *)
(* The span is either longer than the queue or zero; zero still forbids    *)
(* the same track twice in a row.                                          *)
NotRepeated(x, q, playing) ==
    IF x.avoid THEN Hashes \ (ToSet(q) \cup {playing})
    ELSE IF q = << >> THEN Hashes ELSE Hashes \ {Last(q)}

-----------------------------------------------------------------------------
(* DynamicTrackGenerator.  Its filter needs the user's statistics.         *)

DynamicFilter(st, user) == st[user]

(* Mistake: what is checked is whether there is any upcoming track.        *)
CheckDynamicRefillIfEmpty(x) ==
    IF x.upcoming # << >> THEN x ELSE [x EXCEPT !.dynamicRefill = TRUE]

(* checkIfRefillNeeded.                                                    *)
CheckDynamicRefill(x) ==
    IF x.desired <= Len(x.upcoming) THEN x ELSE [x EXCEPT !.dynamicRefill = TRUE]

(* Takes at most count tracks of a list that are in the set good, giving   *)
(* back those that are not.                                                *)
Delivery(seq, count, good) ==
    LET enough == {n \in 0..Len(seq) :
                      Len(Selected(SubSeq(seq, 1, n), good)) = count}
        n == IF enough = {} THEN Len(seq)
             ELSE CHOOSE k \in enough : \A j \in enough : k <= j
    IN  [tracks |-> Selected(SubSeq(seq, 1, n), good),
         taken |-> ToSet(SubSeq(seq, 1, n)),
         rest |-> SubSeq(seq, n + 1, Len(seq))]

(* getTracks.                                                              *)
DynamicGetTracks(x, count, good) ==
    LET d == Delivery(x.upcoming, count, good)
    IN  [next |-> CheckDynamicRefill(
                      PutBackUsed([x EXCEPT !.upcoming = d.rest], d.taken)),
         tracks |-> d.tracks]

FreezeTemporarily(x) == [x EXCEPT !.frozen = TRUE]

(* upcomingRefillTimerAction.                                              *)
RefillUpcoming(x, st, order) ==
    LET filter == DynamicFilter(st, x.user)
        Attempt(y) ==
            LET t == TakeFromSource(y, DynamicTake, DynamicTake * 2, TRUE,
                                    filter, order)
                kept == BestOf(t.tracks, DynamicKeep, order)
            IN  IF Len(y.upcoming) >= y.desired THEN y
                ELSE PutBackUsed([t.next EXCEPT !.upcoming = @ \o kept],
                                 ToSet(t.tracks) \ ToSet(kept))
        fired == [x EXCEPT !.dynamicRefill = FALSE]
    IN  IF x.frozen THEN fired ELSE CheckDynamicRefill(Repeat(Attempt, 3, fired))

(* criteriaChanged.                                                        *)
DynamicCriteriaChanged(x, st) ==
    LET good == DynamicFilter(st, x.user)
    IN  CheckDynamicRefill(
            PutBackUsed([x EXCEPT !.upcoming = Selected(@, good)],
                        ToSet(x.upcoming) \ good))

SetDesiredUpcomingCount(x) ==
    IF x.desired = DesiredUpcoming THEN x
    ELSE CheckDynamicRefill([x EXCEPT !.desired = DesiredUpcoming])

-----------------------------------------------------------------------------
(* WaveTrackGenerator, and the Generator's handlers of its signals.        *)

WaveFilter(st, user) == st[user] \cap HighScored

(* Mistake: tracks that wait in the buffer are kept for the next wave.     *)
TerminateWaveKeepsBuffer(x) ==
    IF ~ x.waveActive THEN x
    ELSE PutBackUsed([x EXCEPT !.waveActive = FALSE, !.generatorWave = FALSE,
                               !.waveUpcoming = << >>],
                     ToSet(x.waveUpcoming))

TerminateWave(x) ==
    IF ~ x.waveActive THEN x
    ELSE PutBackUsed([x EXCEPT !.waveActive = FALSE, !.generatorWave = FALSE,
                               !.waveUpcoming = << >>, !.buffer = << >>],
                     ToSet(x.waveUpcoming) \cup ToSet(x.buffer))

(* startWave: the first timer runs at once, but also one that an earlier   *)
(* wave has left behind will do its work for this wave.                    *)
StartWave(x) ==
    IF x.user = Public \/ x.waveActive THEN x
    ELSE [x EXCEPT !.waveActive = TRUE, !.generatorWave = TRUE,
                   !.completed = FALSE, !.fails = 0, !.generated = 0,
                   !.delivered = 0, !.progress = -1, !.total = 0,
                   !.waveTimers = @ + 1]

(* calculateProgressAndEmitSignal: a wave whose tracks have all been       *)
(* generated and delivered is finished.                                    *)
CalculateProgress(x) ==
    IF ~ x.completed THEN x
    ELSE LET y == [x EXCEPT !.progress = x.delivered,
                            !.total = x.delivered + Len(x.waveUpcoming)]
         IN  IF x.waveUpcoming # << >> THEN y
             ELSE [y EXCEPT !.waveActive = FALSE, !.generatorWave = FALSE]

(* getTracks.                                                              *)
WaveGetTracks(x, count, good) ==
    IF ~ x.waveActive THEN [next |-> x, tracks |-> << >>]
    ELSE LET d == Delivery(x.waveUpcoming, count, good)
         IN  [next |-> CalculateProgress(
                 PutBackUsed([x EXCEPT !.waveUpcoming = d.rest,
                                       !.delivered = @ + Len(d.tracks)],
                             d.taken)),
              tracks |-> d.tracks]

(* growBuffer: after too many tracks without finding one it gives up.      *)
GrowBuffer(x, good, order) ==
    LET wanted == WaveTake - Len(x.buffer)
        t == TakeFromSource(x, wanted, WaveTake, FALSE, good, order)
    IN  IF wanted <= 0 THEN x
        ELSE IF t.tracks # << >> THEN [t.next EXCEPT !.buffer = @ \o t.tracks]
        ELSE IF x.fails < Cardinality(Known(x)) - wanted
        THEN [t.next EXCEPT !.fails = @ + wanted]
        ELSE TerminateWave(t.next)

(* applySelectionFilterToBufferAndAppendToUpcoming.                        *)
BufferToUpcoming(x, order) ==
    LET kept == BestOf(x.buffer, WaveKeep, order)
    IN  PutBackUsed([x EXCEPT !.waveUpcoming = @ \o kept, !.buffer = << >>,
                              !.generated = @ + Len(kept)],
                    ToSet(x.buffer) \ ToSet(kept))

(* upcomingRefillTimerAction.                                              *)
RefillWave(x, st, q, playing, order) ==
    LET good == WaveFilter(st, x.user) \cap NotRepeated(x, q, playing)
        y == [x EXCEPT !.waveTimers = @ - 1]
        grown == IF x.generated < WaveGoal THEN GrowBuffer(y, good, order) ELSE y
        z == IF Len(grown.buffer) >= WaveTake /\ x.generated < WaveGoal
             THEN BufferToUpcoming(grown, order) ELSE grown
    IN  IF ~ x.waveActive THEN y
        ELSE IF ~ grown.waveActive THEN grown
        ELSE IF z.generated >= WaveGoal
        THEN CalculateProgress([z EXCEPT !.completed = TRUE])
        ELSE [z EXCEPT !.waveTimers = @ + 1]

(* criteriaChanged.                                                        *)
WaveCriteriaChanged(x, st, q, playing) ==
    LET good == WaveFilter(st, x.user) \cap NotRepeated(x, q, playing)
    IN  IF ~ x.waveActive THEN x
        ELSE CalculateProgress(
                 PutBackUsed([x EXCEPT !.fails = 0,
                                       !.waveUpcoming = Selected(@, good)],
                             ToSet(x.waveUpcoming) \ good))

-----------------------------------------------------------------------------
(* Generator.                                                              *)

(* checkQueueRefillNeeded.                                                 *)
CheckQueueRefill(x, q) ==
    IF Len(q) >= DesiredQueueLength THEN x ELSE [x EXCEPT !.refillPending = TRUE]

Settings(x) == [enabled |-> x.enabled, avoid |-> x.avoid]

(* Mistake: only the switch is saved, not the options.                     *)
SavedSwitch(p, x) ==
    IF x.user = Public THEN p ELSE [p EXCEPT ![x.user].enabled = x.enabled]

(* setUserDynamicModePreferences, when it succeeds.                        *)
Saved(p, x) ==
    IF x.user = Public THEN p ELSE [p EXCEPT ![x.user] = Settings(x)]

(* saveUserPreferences, after a change of the settings.  Without a         *)
(* database, or when the query fails, they are kept in memory only.        *)
SaveUserPreferences ==
    /\ \/ prefs' = Saved(prefs, g') /\ lost' = lost \ {g'.user}
       \/ UNCHANGED prefs /\ lost' = (lost \cup {g'.user}) \ {Public}
    /\ wishes' = [wishes EXCEPT ![g'.user] = Settings(g')]

Enabled(x, q) ==
    IF x.enabled THEN x
    ELSE CheckQueueRefill(
             CheckDynamicRefill(SetDesiredUpcomingCount([x EXCEPT !.enabled = TRUE])),
             q)

Disabled(x) ==
    IF ~ x.enabled THEN x ELSE TerminateWave([x EXCEPT !.enabled = FALSE])

(* setUserGeneratingFor and loadAndApplyUserPreferences; the preferences   *)
(* are those of the new user, or the current settings after a failure.     *)
WithUser(x, st, q, playing, user, preferences) ==
    LET y == FreezeTemporarily(ResetUpcomingTrackNotifications(
                 [TerminateWave(x) EXCEPT !.user = user, !.avoid = preferences.avoid]))
        z == DynamicCriteriaChanged(y, st)
    IN  IF preferences.enabled THEN Enabled(z, q) ELSE Disabled(z)

(* The tracks that the two generators may deliver, other than those        *)
(* rejected for other reasons.                                             *)
GoodForWave(x, q, rejected) ==
    (WaveFilter(stats, x.user) \cap NotRepeated(x, q, current)) \ rejected

GoodForDynamic(x, q, rejected) ==
    (DynamicFilter(stats, x.user) \cap NotRepeated(x, q, current)) \ rejected

(* requestQueueExpansion: the wave first; when there is no wave, or it has *)
(* just finished, the dynamic generator.                                   *)
Expansion(x, count, rejected) ==
    LET w == WaveGetTracks(x, count, GoodForWave(x, queue, rejected))
        d == DynamicGetTracks(w.next, count - Len(w.tracks),
                 GoodForDynamic(x, queue \o w.tracks, rejected))
    IN  IF Len(w.tracks) >= count \/ w.next.generatorWave THEN w
        ELSE [next |-> d.next, tracks |-> w.tracks \o d.tracks]

(* queueRefillTimerAction: the wave or the dynamic generator.              *)
Refill(x, count, rejected) ==
    IF x.generatorWave
    THEN WaveGetTracks(x, count, GoodForWave(x, queue, rejected))
    ELSE DynamicGetTracks(x, count, GoodForDynamic(x, queue, rejected))

-----------------------------------------------------------------------------
(* The constructors: the source starts with the tracks known then.         *)
AtStart(order) ==
    [unused |-> Selected(order, Hashes \ NewHashes),
     status |-> [h \in Hashes |-> IF h \in NewHashes THEN "Unknown" ELSE "Unused"],
     notified |-> 0, checkPending |-> TRUE, requested |-> {},
     upcoming |-> << >>, desired |-> 0, dynamicRefill |-> FALSE, frozen |-> FALSE,
     waveUpcoming |-> << >>, buffer |-> << >>, waveActive |-> FALSE,
     completed |-> FALSE, fails |-> 0, generated |-> 0, delivered |-> 0,
     waveTimers |-> 0, generatorWave |-> FALSE, progress |-> -1, total |-> 0,
     enabled |-> FALSE, refillPending |-> FALSE, user |-> Public, avoid |-> TRUE]

(* Until the first user has chosen to be played for, it is the public one. *)
Init ==
    /\ queue = << >>
    /\ current = None
    /\ stats = [u \in Users |-> {}]
    /\ prefs \in [Users -> {[enabled |-> TRUE, avoid |-> TRUE],
                           [enabled |-> FALSE, avoid |-> FALSE]}]
    /\ prefs[Public].enabled
    /\ \E order \in Orders, user \in Users :
          g = IF user = Public THEN AtStart(order)
              ELSE WithUser(AtStart(order), stats, queue, current, user, prefs[user])
    /\ wishes = prefs
    /\ lost = {}
    /\ commands = 0
    /\ rejections = 0

(* Tracks that get rejected although they are good according to the model. *)
Reject(rejected) ==
    /\ rejections + Cardinality(rejected) <= MaxRejections
    /\ rejections' = rejections + Cardinality(rejected)

CheckNotifications ==
    /\ g.checkPending
    /\ g' = CheckedNotifications(g)
    /\ UNCHANGED <<queue, current, stats, prefVars, commands, rejections>>

(* The history has fetched the statistics that it was asked for.           *)
StatsArrive(user) ==
    /\ \E h \in Hashes \ stats[user] : <<user, h>> \in g.requested
    /\ stats' = [stats EXCEPT ![user] = {h \in Hashes : <<user, h>> \in g.requested}]
    /\ UNCHANGED <<g, queue, current, prefVars, commands, rejections>>

UpcomingRefillTimer ==
    /\ g.dynamicRefill
    /\ \E order \in Orders : g' = RefillUpcoming(g, stats, order)
    /\ UNCHANGED <<queue, current, stats, prefVars, commands, rejections>>

Unfreeze ==
    /\ g.frozen
    /\ g' = CheckDynamicRefill([g EXCEPT !.frozen = FALSE])
    /\ UNCHANGED <<queue, current, stats, prefVars, commands, rejections>>

WaveRefillTimer ==
    /\ g.waveTimers > 0
    /\ \E order \in Orders : g' = RefillWave(g, stats, queue, current, order)
    /\ UNCHANGED <<queue, current, stats, prefVars, commands, rejections>>

(* queueRefillTimerAction: it starts over as long as the queue is short.   *)
QueueRefillTimer ==
    /\ g.refillPending
    /\ \E rejected \in SUBSET ToSet(g.upcoming \o g.waveUpcoming) :
          LET fired == [g EXCEPT !.refillPending = FALSE]
              count == IF Len(queue) < DesiredQueueLength
                       THEN DesiredQueueLength - Len(queue) ELSE 0
              r == Refill(fired, count, rejected)
          IN  /\ Reject(rejected)
              /\ IF g.enabled
                 THEN /\ queue' = queue \o r.tracks
                      /\ g' = CheckQueueRefill(r.next, queue')
                 ELSE /\ g' = fired
                      /\ UNCHANGED queue
    /\ UNCHANGED <<current, stats, prefVars, commands>>

(* The player takes the next track from the queue and plays it.            *)
PlayNext ==
    /\ queue # << >>
    /\ queue' = Tail(queue)
    /\ current' = Head(queue)
    /\ g' = CheckQueueRefill(g, queue')
    /\ UNCHANGED <<stats, prefVars, commands, rejections>>

(* What users do, and new tracks.                                          *)
Command ==
    /\ commands < MaxCommands
    /\ commands' = commands + 1
    /\ UNCHANGED <<current, stats>>

HashBecameAvailable(h, index) ==
    /\ g.status[h] = "Unknown"
    /\ index \in 0..Len(g.unused)
    /\ Command
    /\ g' = AddNewHash(g, h, index)
    /\ UNCHANGED <<queue, prefVars, rejections>>

Enable ==
    /\ Command
    /\ g' = Enabled(g, queue)
    /\ IF g.enabled THEN UNCHANGED prefVars ELSE SaveUserPreferences
    /\ UNCHANGED <<queue, rejections>>

Disable ==
    /\ Command
    /\ g' = Disabled(g)
    /\ IF g.enabled THEN SaveUserPreferences ELSE UNCHANGED prefVars
    /\ UNCHANGED <<queue, rejections>>

RequestQueueExpansion ==
    /\ Command
    /\ Len(queue) <= MaximumQueueLength - ExpandCount
    /\ \E rejected \in SUBSET ToSet(g.upcoming \o g.waveUpcoming) :
          /\ Reject(rejected)
          /\ queue' = queue \o Expansion(g, ExpandCount, rejected).tracks
          /\ g' = Expansion(g, ExpandCount, rejected).next
    /\ UNCHANGED prefVars

StartTheWave ==
    /\ Command
    /\ g' = StartWave(g)
    /\ UNCHANGED <<queue, prefVars, rejections>>

TerminateTheWave ==
    /\ Command
    /\ g' = TerminateWave(g)
    /\ UNCHANGED <<queue, prefVars, rejections>>

SetNoRepetitionSpan ==
    /\ Command
    /\ LET x == [g EXCEPT !.avoid = ~ @]
       IN  g' = WaveCriteriaChanged(DynamicCriteriaChanged(x, stats), stats,
                                    queue, current)
    /\ SaveUserPreferences
    /\ UNCHANGED <<queue, rejections>>

(* Reading the preferences may fail: the settings then stay as they are.   *)
(* enable() and disable() save what has just been read, or fail to.        *)
SetUserGeneratingFor(user) ==
    /\ Command
    /\ user # g.user
    /\ \E found \in BOOLEAN :
          /\ g' = WithUser(g, stats, queue, current, user,
                       IF found THEN prefs[user] ELSE Settings(g))
          /\ lost' = IF found THEN lost \ {user} ELSE (lost \cup {user}) \ {Public}
    /\ prefs' \in {prefs, IF g'.enabled # g.enabled THEN Saved(prefs, g') ELSE prefs}
    /\ wishes' = [wishes EXCEPT ![user] = Settings(g')]
    /\ UNCHANGED <<queue, rejections>>

InsertTrack(h) ==
    /\ Command
    /\ Len(queue) < MaximumQueueLength
    /\ queue' = Append(queue, h)
    /\ UNCHANGED <<g, prefVars, rejections>>

RemoveTrack(i) ==
    /\ Command
    /\ queue' = RemoveAt(queue, i)
    /\ g' = CheckQueueRefill(g, queue')
    /\ UNCHANGED <<prefVars, rejections>>

Timers ==
    \/ CheckNotifications \/ UpcomingRefillTimer \/ Unfreeze
    \/ WaveRefillTimer \/ QueueRefillTimer

Commands ==
    \/ Enable \/ Disable \/ RequestQueueExpansion
    \/ StartTheWave \/ TerminateTheWave \/ SetNoRepetitionSpan
    \/ \E user \in Users : SetUserGeneratingFor(user)
    \/ \E h \in Hashes : InsertTrack(h)
    \/ \E i \in 1..Len(queue) : RemoveTrack(i)

Next ==
    \/ Timers
    \/ Commands
    \/ PlayNext
    \/ \E user \in Users : StatsArrive(user)
    \/ \E h \in Hashes, index \in 0..Cardinality(Hashes) :
          HashBecameAvailable(h, index)

Spec == Init /\ [][Next]_vars

-----------------------------------------------------------------------------
(* Properties.                                                             *)

(* Every variable has its type.                                            *)
TypeOK ==
    /\ queue \in Seq(Hashes)
    /\ current \in Hashes \cup {None}
    /\ stats \in [Users -> SUBSET Hashes]
    /\ {prefs, wishes} \subseteq [Users -> Preferences]
    /\ lost \subseteq Users
    /\ ToSet(g.unused) \subseteq Hashes
    /\ g.status \in [Hashes -> {"Unknown", "Unused", "Taken", "Used"}]
    /\ {g.notified, g.fails, g.generated, g.delivered, g.waveTimers} \subseteq Nat
    /\ g.user \in Users

Candidates == g.upcoming \o g.waveUpcoming \o g.buffer

(* A track is in one place: in the list of unused tracks, or held by one   *)
(* generator, or waiting for the next round.  None is lost: what a         *)
(* generator does not hold can be taken again, and a wave that is over     *)
(* holds nothing.                                                          *)
EachTrackIsInOnePlace ==
    /\ IsInjective(g.unused) /\ IsInjective(Candidates)
    /\ ToSet(g.unused) = {h \in Hashes : g.status[h] = "Unused"}
    /\ ToSet(Candidates) = {h \in Hashes : g.status[h] = "Taken"}
    /\ ~ g.waveActive => g.waveUpcoming \o g.buffer = << >>

(* What the generators add to the queue is not in the queue already and is *)
(* not playing, and is in memory with its statistics, whatever happened    *)
(* since the track was chosen.                                             *)
OnlyFreshTracksAreAdded ==
    [][LET added == SubSeq(queue', Len(queue) + 1, Len(queue'))
       IN  Len(queue') > Len(queue) /\ ~ (\E h \in Hashes : InsertTrack(h))
           => /\ ToSet(added) \subseteq stats[g.user]
              /\ g.avoid => /\ IsInjective(added)
                            /\ ToSet(added) \cap (ToSet(queue) \cup {current}) = {}]_vars

(* "Dynamic mode preferences are now saved and restored for each user":    *)
(* nobody changes the preferences of another user, what a user has last    *)
(* chosen is what the database has, and it is in use again when dynamic    *)
(* mode is for that user again, however many others it was for in between. *)
(* Settings that could not be saved, or read, are excepted until that      *)
(* succeeds again.                                                         *)
PreferencesAreRestored ==
    [][/\ \A u \in Users : prefs'[u] # prefs[u] => u = g'.user
       /\ \A u \in Users \ ({Public} \cup lost') : prefs'[u] = wishes'[u]
       /\ g'.user \notin {g.user, Public} \cup lost \cup lost' =>
             Settings(g') = wishes[g'.user]]_vars

(* Everything that has to be done later has a timer: when the queue of an  *)
(* enabled generator is short, when the list of upcoming tracks is, and    *)
(* when a wave does not have all of its tracks.                            *)
NobodyWaitsInVain ==
    /\ g.enabled /\ Len(queue) < DesiredQueueLength => g.refillPending
    /\ g.desired > Len(g.upcoming) => g.dynamicRefill \/ g.frozen
    /\ g.waveActive /\ ~ g.completed => g.waveTimers > 0
    /\ g.completed /\ g.waveActive => g.waveUpcoming # << >>

(* The tracks that are counted as announced have been announced to the     *)
(* history for the current user.                                           *)
NextInLineAreAnnounced ==
    \A i \in 1..Len(g.unused) :
        i > Len(g.unused) - g.notified => <<g.user, g.unused[i]>> \in g.requested
=============================================================================
