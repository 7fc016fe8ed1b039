# TLA+ models of Party Music Player

Party Music Player (PMP) is a music server with remote clients.  The server
plays the tracks of one queue, keeps a history and scores for each user, knows
music files by a hash of their content, scrobbles to Last.fm, and keeps its
clients informed over TCP.  The server and its clients are event-driven Qt
programs: most of the state is owned by one event loop, while file analysis,
preloading, database work and indexation run in thread pools, and everything a
client knows is a copy that messages keep up to date.  The bugs worth looking
for are therefore in the order in which callbacks, timers, results and messages
arrive.

The modules here are translated from the source; `PROJECT.json` lists for every
definition the lines that it stands for.  Line numbers below refer to that
source.

* [1. Parts of the system](#1-parts-of-the-system)
* [2. Modules](#2-modules)
* [3. What is checked](#3-what-is-checked)
* [4. What is proved](#4-what-is-proved)
* [5. Known deviations](#5-known-deviations)
* [6. Plan](#6-plan)
* [7. What is not modelled](#7-what-is-not-modelled)

## 1. Parts of the system

### Server (`src/server`)

| Part | State it keeps | Operations and interactions | What is hard |
|---|---|---|---|
| Player queue (`playerqueue`) | list of entries, lookup table of IDs, position of the first track, history | insert, remove, move, dequeue, trim; signals to player, preloader, generator and clients | the cached position of the first track is updated incrementally; signals have to describe the change exactly |
| Player (`player`) | state, four slots for media players, order of the history | play, pause, skip; `startNext()` takes tracks from the queue; media players report ends and errors | callbacks re-enter the player while `startNext()` is running; stops are asynchronous |
| Preloader (`preloader`) | tracks near the front and their status, cache files, locks | listens to the queue, copies files in a thread pool, deletes them later | results, removals, locks and timers in any order |
| Dynamic mode (`generator`, `dynamictrackgenerator`, `wavetrackgenerator`, `randomtrackssource`) | random list of unused tracks, upcoming tracks, wave, preferences of each user | refills the queue from timers | candidates grow stale; waves end while tracks are delivered; a change of user in between |
| History and statistics (`history`, `historystatistics`, `userhashstatscache`, `userhashstatscachefixer`) | history and cached statistics in the database, copies in memory | a played track is inserted by a task; statistics are fetched by tasks; a fixer repairs the table after a restart | tasks interleave between queries; the server may stop between any two |
| Resolver, analyzer, finder (`resolver`, `analyzer`, `filefinder`, `filelocations`) | files per hash, files in progress, status of the indexation | full indexation, quick scan, lookup of a file | worker thread, analyzer thread and event loop share the status; files change meanwhile |
| Scrobbling (`scrobbler`, `lastfmscrobblingbackend`, `lastfmscrobblingdataprovider`, `scrobblinghost`) | queue of tracks to scrobble, pending one, backend state | fetches history, asks for track information, sends requests, retries | late replies, timeouts, backoff, restart |
| Collection monitor (`collectionmonitor`, `collectionsender`) | changed hashes, kind of each change | batches of notifications, parts of the collection | a batch and a part about the same track overtake each other |
| Delayed start (`delayedstart`) | a deadline, a timer | starts the player unless it plays before | |
| Connections (`tcpserver`, `connectedclient`, `serverinterface`) | one object per client; subscriptions, login | translates messages to calls and signals to messages | order of answers and events; messages that are put off |
| Users (`users`) | accounts, salts | login, registration | two logins under way at once |
| Database, hash relations, settings, health monitor | | | |

### Clients (`src/client`, `src/desktop-remote`, `src/cmd-remote`)

| Part | State it keeps | Operations and interactions | What is hard |
|---|---|---|---|
| `ServerConnection` | state of the handshake and the login, results that are waited for, timers | sends requests, turns messages to signals, notices a silent server | opening questions, events and answers overlap |
| `ServerInterface` and the controllers | the last values of each topic | created when they are first used; each asks for what it needs | an object that comes late has missed the events |
| `QueueMonitor` | a part of the queue, its length, how far it has asked | fetches parts, applies events | answers to fetches from before an event |
| Queue entry information, queue hashes, current track | type, hash, tags of the entries near the front | ask for what is not known | entries move in and out while answers are on their way |
| `CollectionWatcherImpl` | the tracks of the collection | merges a download, notifications and single answers | an old part must not replace newer news |
| `QueueMediator`, `QueueModel` | the queue as shown, pending operations, rows | apply the user's changes before they are confirmed; roll back | changes by others in between; the rows know less than the mediator |
| `SortedCollectionTableModel` | tracks, sort order as two maps that are inverse to each other | moves rows one by one when data change | off-by-one at either end of a move |
| Main window (`mainwidget`, `playerhistorymodel`, `volumemediator`, `delayedstartnotification` ...) | what its widgets show | follow the server and pass on wishes of the user | the history is asked for while it grows; the slider has a wish of its own |
| Command line remote (`commandparser`, `commandbase`, commands) | one command, its steps | parse, connect, log in, send, wait for a state, exit with a code | a step looks at copies some time after the signal that woke it |

`src/common` holds the protocol, futures and promises (`future.h`, `promise.h`,
`async.h`, `concurrent.h`, `runners`), file analysis and small helpers.

### What makes each part correct

* **Queue**: the cached first track is the first track; each live entry has one
  ID and can be looked up; a listener that applies the signals has the queue.
* **Player**: there is at most one track playing, every media player is in one
  slot or is going to be deleted, a track that was played gets its history
  entry in the order of playing, a breakpoint is not skipped.
* **Preloader**: a file in use is not deleted; every file in the cache is known;
  a track near the front is preloaded.
* **Dynamic mode**: each known track is unused, taken or used up and none is
  lost; whoever lacks tracks has a timer that will look for more; what is added
  still fits; each user's preferences come back if they could be saved.
* **Statistics**: a task that fails or a restart leaves no wrong row behind that
  nobody finds again (it does so for a failed write of the row, and when tasks overlap).
* **Indexation**: it ends, and then the server knows the files that exist, but for
  those whose analysis or registration has failed.
* **Scrobbling**: each track once, in order, none forgotten, all in the end.
* **Connection**: when nothing is on its way the copies of the client are what
  the server has, each request is answered once, both ends agree on who is
  logged in, and a silent server is noticed.
* **Replication and mediation**: the client has a prefix of a state of the
  queue, sees the states in order, and shows its own changes on top of it.
* **Collection**: after the download the client has each track as the server
  has it, and the rows show it in the order the user chose.
* **Futures**: a continuation runs exactly once, in its own thread, and an
  outcome is stored once.
* **Command line**: exactly the documented lines are commands; success is only
  reported when it is true; a command that is done notices it.
* **Desktop**: what is shown of player, entries and history is complete and
  right as soon as nothing is on its way.

`PROJECT.json` lists under "hazards" the lines where these can go wrong.

## 2. Modules

```
PlayerQueue <---- Player <---- PlayerProofs    DynamicMode <- DynamicModeProofs
     ^  ^-------- Preloader <-------'          Indexation <-- IndexationProofs
     |                                         Scrobbler <--- ScrobblerProofs
     |                                         Futures <----- FuturesProofs     StatsCache
QueueReplication <---- QueueMediation <---- QueueReplicationProofs
  |  uses QueueMonitor   uses QueueModel       CollectionTable <---- Collection
  |
  | implements                                 Protocol <-- ServerEnd <-- Session <-- SessionProofs
MirroredQueue                                      ^------- ClientEnd <-----'        ^
                                                                                CopiesProofs

QueueMonitor <-- EntryInfo <-- Controllers <-- Desktop <-- Commands <---.
Requests <--------'                            CommandLine <------------ Remote
                                               RemoteServer <-----------'
```

An arrow means EXTENDS (`QueueReplicationProofs` extends `PlayerProofs` too, whose first part is
about the queue alone): `Player`, `Preloader` and `QueueReplication` are composed with the queue
by taking its actions as parts of their own.  The `MC...` modules
give TLC its constants; DynamicMode needs none, its configuration has the values.

**PlayerQueue** (`playerqueue.cpp`).  `queue`, `idLookup` and `history` are
`_queue`, `_idLookup` and `_history`, `nextQueueID`, `firstTrackIndex` and
`firstTrackQueueId` the members of the same names.  Each operation of the class
is an operator that is a complete action; `signals` holds what was emitted, in
order.  Entries are an ID and a kind (track, breakpoint, barrier).

**Player** (`player.cpp`).  The slots are the pointers to the four player
instances; `instances` has for each one what `PlayerInstance` and its
`QMediaPlayer` know.  `call` is the stack frame of `startNext()`: one iteration of
its loop is a step, because `dequeue()` in it emits `firstTrackChanged`, whose
handler changes the instances that `startNext()` is working with.  `syncStop`, which
is chosen at the start, says whether the media player reports a stop inside of
`stop()` or later.

**Preloader** (`preloader.cpp`).  `QueueTells` is a step of the queue with what the handlers
of its signals do; each timer, each result of a job and each lock is an action.  The loops of
the source are recursive functions of the number of iterations (`Iterate`, `CheckAll`,
`WithRemovals`).  `disk` is the set of cache files.

**DynamicMode** (`generator.cpp`, `dynamictrackgenerator.cpp`,
`wavetrackgenerator.cpp`, `trackgeneratorbase.cpp`, `randomtrackssource.cpp`,
`trackrepetitionchecker.cpp`).  All of it runs in the event loop, so the functions
are operators on a record `g` with the members of all the objects, and an action is
one timer, signal or command.  Scores, lengths and times are abstracted to the sets
of tracks that satisfy a filter; what a filter says may change between the choice
of a track and its delivery.  `SaveUserPreferences` writes the preferences to the database
or fails unnoticed; `SetUserGeneratingFor` reads them or goes on with those in use.

**StatsCache** (`historystatistics.cpp`, `userhashstatscache.cpp`,
`userhashstatscachefixer.cpp`, `hashrelations.cpp` and their queries in `database.cpp`).  A task is a
record with a step; every query and every locked section is a step of its own.
The history ID up to which the table is known to be right (`pmp_misc`) is called
the watermark.  Statistics are abstracted to the ID of the last history entry that
went into them, which is all that tells a stale value from a right one.  Groups of
equivalent hashes are loaded before the fixer starts, and grow when a file turns out to
have two hashes: `MarkHashesAsEquivalent` joins the groups in memory,
`InvalidateAllGroupStatistics` combines their statistics anew or fetches them, and
a task writes the pair to the database.  A query that fails ends its task (`TaskFails`), but
for the write of a row, whose failure leaves the old row and is ignored (`WriteRowFails`).  A crash keeps the database variables
(history, watermark, rows, equivalences) and nothing else.

**Indexation** (`resolver.cpp`, `analyzer.cpp`, `filelocations.cpp`,
`filefinder.cpp`).  The worker thread visits one path per step, the analyzer reads
a file in one step and finishes in another, and results, registrations and
locations are handled by the event loop in separate steps, as in the code where
they wait for the database.  The test `isFinished()` and the status that depends
on it are two steps.  A search for a file with a given hash is a task in the pool of
the file finder: it looks at files with a likely name, then at files of a likely size,
then at new files, of which it analyzes a few itself and leaves the rest to the analyzer;
`finder` is the search that is being executed, and `unfound` records, for the property, the
new files that one without success has come across.  `EndAnalysis`, `RegistrationFails`,
`LocationFails` and `SearchFails` are the ways in which a file gets lost although it has not changed.

**Scrobbler** (`scrobbler.cpp`, `scrobblingbackend.cpp`,
`lastfmscrobblingbackend.cpp`, `lastfmscrobblingdataprovider.cpp`,
`scrobblinghost.cpp`).  All of it is in one thread, and state changes are signalled
inside of calls; so the functions are operators on a state record that call each
other like the code does, and an action is one event with all that follows.
Requests are counted by what they ask, so that the same one can be in flight
twice after a timeout, and answers come in any order.

**QueueMonitor** (`queuemonitor.cpp`), **QueueReplication** (`connectedclient.cpp`)
and **MirroredQueue**.  QueueMonitor has the class with all of its message
handlers; QueueReplication connects it by the two FIFO channels of a TCP connection
to the server's translation of signals to messages and its answers to fetches.
Each message carries, for the properties only, the state of the queue when it was
sent.  MirroredQueue is the promise made to a client, with the states it has not
seen yet as the only thing between it and the server; QueueReplication implements
it under the mapping `Promise`.

**QueueMediation** (`queuemediator.cpp`) and **QueueModel** (`queuemodel.cpp`).  The
list that is shown and the pending operations, each with its execute and rollback;
requests go through the same channel as fetches, and the server handles them with
the operations of PlayerQueue.  QueueModel is the table in front of the user, which
is told of each change, of undone ones too, and keeps rows of its own.

**Protocol**, **ServerEnd**, **ClientEnd**, **Session** (`networkprotocol.cpp`,
`connectedclient.cpp`, `serverinterface.cpp`, `users.cpp`, `delayedstart.cpp`;
`serverconnection.cpp`, the controllers, `futureresult` and promises of the client).
One connection from its greeting to its end.  What the server tells about is a set
of topics (state of the player, length of the queue, volume, dynamic mode, ...)
whose value is the number of its changes, which is all that tells a stale copy from
a current one.  Each handler of a message is an operator on the state of its end;
an action is one message that is read, one timer, or work that an end has put off.
The modules assume that no account is named `Nobody` (the code has the user ID 0 for that)
and that the user makes requests of the kinds that the client knows.

**CollectionTable** and **Collection** (`collectionmonitor.cpp`,
`collectionsender.cpp`, `resolver.cpp`, `collectionwatcherimpl.cpp`,
`collectiontablemodel.cpp`).  The resolver's knowledge (with the tags that it
chooses of all it has seen for a hash), the monitor's pending changes, the download in parts and the client's watcher; the table model keeps
`index`, `outer` and `inner` like the code and moves rows in the same way.

**Futures** (`future.h`, `promise.h`, `async.h`, `concurrent.h`, `runners.cpp`).
Every way to make a future and to continue from one.  A critical section is a step.
Whoever finishes a future takes its list of continuations in such a step, and
continues them one by one afterwards.  Values are left out.

**Requests**, **EntryInfo**, **Controllers**, **Desktop**, **Commands**,
**CommandLine**, **RemoteServer**, **Remote**.  A client program at work.  Requests has
one operator for each function of `ServerConnection` that sends a request; EntryInfo
and Controllers the objects of `src/client`, in the order of their creation, because
that is the order in which they hear of a message; Desktop the main window;
CommandLine the parser; Commands the commands, each a list of steps that are tried
whenever a signal comes in; RemoteServer what one client sees of the server.  Remote
puts them together: it starts from each of the lines and situations in `Beginnings`.
Every message carries the state of the server when it was sent, and `lastSeen` is
that of the last message read: what a command says is compared with it.

Two simplifications in Remote: a monitor's own fetch requests are sent before those
that its listeners make in the same step (the server's answers to them do not depend
on that order), and the two messages of a login are one request and one answer (Session has
them in detail).  The commands whose only step is the result of a future are one,
"action".

## 3. What is checked

| Run | Question | Bounds |
|---|---|---|
| `queue` | cached first track, lookup table and signals after any mix of operations | 3 entries, 4 IDs, 1 history entry |
| `player` | the player with its callbacks, media that ends, fails or stops late | 2 entries, 3 IDs, 5 instances, 1 playback error, both kinds of stop |
| `preloader` | cache, jobs, locks, timers; progress | 2 entries, 2 IDs, 1 job, 2 locks, 1 lost file |
| `dynamic_mode` | refills, waves, changes of user and preferences, which may not be saved or read | 3 hashes of which 1 is new, 2 users, queue of 2 of which 1 is desired, 2 commands, 1 rejection |
| `stats` | recording, fetching and repair with restarts and failures; everything becomes right | 2 hashes that may turn out to be equivalent, 2 history entries, batches of 1, 2 task slots of which 1 runs, 1 crash, 1 failure |
| `indexation` | full indexations, quick scans and searches while a file changes or something fails; they end | 2 paths, 1 hash that is in files and 1 that is in none, 3 events (up to 2 runs, 1 search that counts as two, 1 change, 1 failure), 1 new file that a search analyzes itself |
| `scrobbler` | late replies, errors, timeouts, toggling; all is scrobbled | 2 history entries, one of each trouble |
| `client_queue` | replication, mediation and the rows of the table together | 3 entries, 4 IDs, parts of 1, 2 changes by the user and 2 by others |
| `collection` | download, notifications, single answers; the table | 3 hashes of which 2 are known first, batches of 2, 3 events, search by halves from 2 rows on |
| `session` | one connection from greeting to end | 2 users of which 1 exists, 7 kinds of requests, 2 moves of the user |
| `futures` | continuations, promises and threads | 3 futures, 2 continuations, 1 receiver, the event loop and 1 thread of a pool |
| `remote` | a command line or a desktop client at a server that others use | 7,745 initial states, queue of 1 to 3 entries, 1 or 2 changes by others and wishes of the user, one loss of the connection |

What each run shows, beyond its question:

* `queue`: `SignalsDescribeTheChange` rebuilds the queue from the signals alone, which
  is what the clients, the preloader and the generator rely on.
* `player`: `StartedTracksAreNotLost` follows a track from `startNext()` to its history
  entry through instances that stop late; `InstancesAreManaged` says that every instance
  is in one slot or on its way to deletion, and that the one that is being prepared can
  take a track.
* `preloader`: `TracksAreLookedAfter` ties the list of tracks to the queue, to the
  list of what has been removed and to the jobs that run; `LockedFilesStay` is an action
  property.  Both are proved as well.
* `dynamic_mode`: `EachTrackIsInOnePlace` is about the hand-over between the source and
  two generators while the source starts a new round; `NobodyWaitsInVain` about the
  single-shot timers that each part starts only when none is pending.
  `PreferencesAreRestored` keeps, beside the database, what the settings of each user were
  when dynamic mode was last for them (`wishes`): whoever it returns to gets these, unless the
  database had no connection or a query failed in between (`lost`), which
  `saveUserPreferences` tells nobody (`generator.cpp:394`, `402`).
* `stats`: `StaleStatsGetRepaired` says for every state, not only in the end, that a
  wrong row is found again, which is what makes a crash at any step harmless, and every
  failure that ends the task; the same for the statistics of a group, also right after two
  groups have become one.  The one failure that does not end the task is that of the
  write of the row (`historystatistics.cpp:437`): the property excuses the rows whose last write has
  failed (`unwritten`), and section 5 says what becomes of them.
* `indexation`: `KnowsTheFiles` follows each file from the disk through the queue of the
  analyzer, its results and the wait for an ID to the tables of the resolver, for
  indexations and for what a search without success leaves behind.  Analyses and registrations
  can fail for files that have not changed (`analyzer.cpp:160`, `resolver.cpp:549`, `591`, `601`), so can
  the lookup of an ID for a location (`filefinder.cpp:112`) and a search: of a file for which
  something has failed since the indexation was started (`failed`) the server may know nothing, but
  nothing false, of all others it knows the truth, and the next indexation makes up for it.
* `session`: `CopiesAreCurrent` compares the two ends whenever nothing is on its
  way; `EachRequestIsAnswered` counts, for each handler that waits, the one thing it
  waits for.
* `client_queue`: `MirrorsTheQueue` is the refinement of MirroredQueue; `RowsAreInStep`
  that undone changes reach the table too.
* `collection`: `CollectionIsCurrent` when the download is over and nothing is under way;
  `TableShowsTheCollection` in every state.
* `futures`: `OutcomesAreStoredOnce` is the assertion of `future.h`, `EverybodyIsContinued`
  a liveness property.
* `remote`: `SuccessIsTrue` compares what the command says with the state of the server
  in the message that it heard last; `CommandsGetDone` is its counterpart for a command that
  waits; `OnlyDocumentedCommandsRun` compares the parser with the list of commands in the
  help text; `InfoIsShown`, `PresenceIsTrue` and `MainWindowIsCurrent` are about what
  the desktop shows when all is quiet.

Why these bounds are enough: the list algorithms distinguish an index before, at
and after the first track, for which three entries do; a fourth ID makes reuse of
a position by a new entry possible.  The player needs a track that plays, one that
is prepared and one that comes after it, and one more instance than it can hold at
a time (the run never has all five, which TLC confirms; the theorem below is about any
number of them).  The preloader
needs two tracks for one place near the front.  Statistics need a row that exists
before a track is played again, and a crash between; with batches of one the fixer
needs two rounds for two hashes, and a discovery can fall before, into and after them.
An indexation needs one file that is new and one that is known, or two new ones of which
a search takes only one; three events let an indexation overlap a search or a second
indexation follow a change.  One wrong turn of the scrobbler (a timeout or an error)
before the next track makes every late answer possible that the code could
confuse.  For the client, parts of length one make every event fall before, into
and after what is known.  Dynamic mode needs one track for each of the two generators
and one that becomes known while they hold them.  Two overlapping requests or logins
are the fewest that can be confused in a session, and two moves of the user make
them.  Three hashes leave one for each place of a row that moves: above, between and
below.  Two continuations can wait at one future, form a chain, or be of two
futures, and a third future is what the chain finishes.  The initial states of `remote` are
every documented line, lines with a word too much or too few, each way to log in,
and queues that begin with a track, a break or a barrier.  Time limits the rest:
`collection` has 2.8 million states, `client_queue` 1.7 million, `remote` 870,000, `stats`
730,000, `indexation` 450,000 and `dynamic_mode` 240,000.  That somebody changes settings, leaves and
comes back takes a third command: with `Hashes = {a, b}`, `NewHashes = {b}` and `MaxCommands = 3` the
properties of `dynamic_mode` hold as well (220,000 states).

Deadlock is not checked where the bounds (IDs, runs, history entries, requests) stop
the model or a program ends, which is in every run.

**Restrictions of the runs**, each because the code breaks the property without it
(section 5): `stats` executes tasks one after another (`MaxRunning = 1`), has no restarts
or failing tasks while the fixer is working (`TroubleWhileFixing`), needs no statistics
before the groups are loaded (`RequestsWhileLoading`), has no discovery about a group whose
statistics are being fetched (`MergeWhileFetching`), excuses rows that could not be written, and is not about the public user; `KnowsTheFiles` is about indexations that start when nothing that is
under way is out of date; `EndsUnlessOvertaken`, `EventuallyScrobbled` and `FrontIsPreloaded` name
the state in which the code is known to be stuck; the client of `client_queue` hears
of at most one event before its first contents; `CollectionIsCurrent` leaves out
placeholders and news that overtook each other (`overtaken`); `SuccessIsTrue` leaves out
the skip and the reversed insertion that its comment names, and `excused` is what the desktop
client is known not to notice; `AlwaysAnInstance` is about a player whose media players
stop at once and of which no track has failed.  With late stops, skipping
quickly can leave the player with all slots in use by instances that are still
stopping, and `startNext()` then follows a null pointer; no text of the repository
says which kind of media player it is meant for.

**Fairness.**  Weak fairness is assumed of what Qt does by itself: timers that have
been started fire (`preloader`, the fixer's wait, the keep-alive timer and the check
for a reply of `session`), tasks in a thread pool are executed and their results
are delivered to the event loop (`preloader`, `stats`, `indexation`), every thread of
`futures` goes on with its work, every network request is answered in the end, by an
error at least, and the track information provider answers.  `WakeUpForUser` is fair
because the host wakes the scrobbler after every track that is played, so that
`EventuallyScrobbled` holds for users who go on playing; without it a timeout
leaves the scrobbler waiting (`scrobbler.cpp:129`).  Nothing is assumed of users,
of the timeouts, of clients, of the network or of files.

**Liveness** properties: `FrontIsPreloaded`, `EventuallyCorrect`,
`EndsUnlessOvertaken`, `EventuallyScrobbled`, `SilentServerIsNoticed`,
`EverybodyIsContinued`.  `EventuallyCorrect` is about executions in which no query
fails, because a failed query is only repaired at the next start.  `CommandsGetDone` and
`NobodyWaitsInVain` say as invariants that whoever waits is going to be woken.

Each property has a mutant in `PROJECT.json`: an operator, marked "Mistake" in the
module, that changes a definition the way a slip in the code would, and with which
TLC finds the property violated.  The `TypeOK` of a module states the types of its
variables; that of the queue, on which the proofs rest, is checked as an invariant.

## 4. What is proved

Eight modules hold proofs that TLAPS checks: for every value of the constants that the
assumptions of the modules allow, which say no more than that bounds are natural numbers and
that the sets they bound are of the right kind (finite, where they are tracks).

**The queue** (first part of `PlayerProofs`), for a queue, a history and IDs of every size:

* `QueueTypeCorrect`: `QueueSpec => []QueueTypeOK`.
* `FirstTrackCorrect`: `QueueSpec => []FirstTrackIsCached`.  The index and ID of
  the first track that the class updates incrementally are those of the first
  track of the list.
* `LookupCorrect`: `QueueSpec => []LookupIsConsistent`.  No ID is handed out twice or is
  in queue and history at a time, and each can be looked up.
* `SignalsAreComplete`: `QueueSpec => SignalsDescribeTheChange`.  Whoever listens to the
  queue and does what the signals of a step say has the new queue and the new first track.

The second matters because `peekFirstTrackEntry` (`playerqueue.cpp:452`) indexes the
list with the cached value unchecked, and insert, remove and move each have their own
case analysis for it.  The inductive invariant is `QueueInv`, the conjunction of
type and cache: typing alone does not say that the cached index is in range, and the
cache alone does not say what is stored.  The argument: `FirstTrackIsFirst` turns the
cache into a statement with two cases, no track anywhere (`NoTrack`), or a track at
the index and none before it (`SomeTrack`); the lemmas about `Insert`, `Remove` and
`Move` say where each element of the list goes; `FindFirstTrackIsFirst` says that
the search between two indices finds the first track there is; and for every
operation one lemma (`InsertKeepsInv`, `RemoveKeepsInv`, `DequeueKeepsInv`,
`MoveKeepsInv`, `TrimKeepsInv`, `AddToHistoryKeepsInv`) combines them.

`LookupIsConsistent` is inductive for variables of their types (`LookupInv`).  Insertion
is the case that needs the strengthening "all IDs are below `nextQueueID`": the new one
is then fresh.  For the others one lemma suffices (`SelectionKeepsLookup`): what is left
of queue and history after a removal, a move, a trim or the trimming of the history is
a selection of what was there before, under an injective map of the positions, so that
no ID can appear twice that did not before.

`SignalsDescribeTheChange` is about a listener's view, `ViewAfterAll`, a recursive function over
the signals of a step.  A step of the queue emits them in a loop (`trim`) or after a case
analysis (everything that can move the first track).  The proof gives for each operation the
views after each of its signals (`Explain`: they begin with the queue before, each is what the
next signal makes of the one before, each signal fits the list it is about, and the last is the
queue after), and shows that there is only one such list of views (`Replay`).

**The client's copy of the queue** (`QueueReplicationProofs`), for queues, fetches and connections
of every size:

* `FollowsForEver`: `MediationSpec => [](FollowsTheQueue => [](FollowsTheQueue /\ ListIsPrefix /\
  InconsistencyIsRepaired))`, for all executions.  A monitor that knows the length of the queue
  and is in step with the messages on their way remains so, whatever events and overlapping
  fetches come; and then, whenever nothing is under way, its list is a front of the queue, and what
  does not fit has a fetch on its way;
* `QueueIsMirrored`: `MediationSpec /\ []FewAreEarly => MirrorsTheQueue /\ [](monitor.known =>
  FollowsTheQueue)`.  `MirrorsTheQueue` is the property of the run `client_queue`: QueueMediation
  implements MirroredQueue, and so does QueueReplication, whose actions it has.  What the monitor
  shows is always a part, from the front, of a state that the queue has had, and these states
  are seen in the order in which the queue had them, each once.  `FewAreEarly` is a condition on the
  execution, not on the constants: as long as the monitor does not know the length of the
  queue, at most one event has been sent to it before the contents it has asked for.

The refinement maps `unseen` to the states that the messages on their way carry, so the
steps have to show that a message which is sent takes its list to the next one.  That is where
`SignalsAreComplete` is needed: its lemma gives the list after each signal, and `Chained` says
of the messages in flight that each follows from the one before.  The invariant is the
queue's, `QueueInv`, and seven parts about the connection.  `MessagesConnect`: the messages lead
from `lastSeen`, the last list that the monitor has heard of, to the queue as it is now.
`KnownIsInStep`: a monitor that has received contents has the length and the front of that
list (`InStep`), and has asked for more if it has nothing.  Each of the monitor's handlers has a
lemma that it takes this from one list to the next (`ContentsInStep`, `AddedInStep`,
`RemovedInStep`, `MovedInStep`), which is also the proof that the monitor's checks for
inconsistencies find none in such a run.  Before the first contents it is different: the
monitor believes in an empty queue, applies events to that, and has no way to know.
`LittleIsKnown` and `FewEvents` say that it is still blank or knows the one entry of the one
event that may have come, and that the contents it has asked for come next; `NothingIsSent` and
`NothingIsAsked` describe the time before the monitor exists, and `ConnectionTypeOK` has the
types.  The condition `FewAreEarly` is about exactly that time, which the code does nothing to keep
short of events: without it `MirrorsTheQueue` is false, and with four such events TLC finds a
monitor whose list stays wrong (section 5, `queuemonitor.cpp:198`).  What is proved without it is
that this is the only such time: once a monitor follows the queue (`KnownIsInStep` and the rest
of `ReplicationInv` hold) it needs no further condition.  The invariant was checked with TLC on the
instance of `client_queue` before it was proved.

**The player** (second part of `PlayerProofs`), for any number of instances, errors and entries:

* `InstancesStayManaged`, `StartedTracksAreReported` and `StartNextHasAnInstance`, of the
  three invariants of the run `player`;
* `PlayerInvariant`: the inductive invariant `IInv`.

None of the three is inductive, because `startNext()` is left in the middle: `dequeue()`
emits a signal whose handler may prepare another instance, and `stop()` may report the end
of the track before it returns.  `CallInv` says where `startNext()` is and what it can rely
on there, `PoolInv` that slots and the instance in its hand hold each instance once,
`InstanceInv` what the flags of an instance say about each other (one that is available does
not run, one that failed has reported its track), `IdInv` that only IDs are used that were
handed out, `TrackInv` that what was started runs or was reported, and `SyncInv`, for media
players that stop at once, that only the track that plays occupies an instance, so that of
the four places at most one is empty and another is free.  Operators on the
instances have lemmas of their own (only one instance is changed, `Updated`, or some that are
stopped are gone, `Thinned`); every action has one lemma per part of the invariant that it can
disturb.  What the queue does meanwhile is taken from the first part.

**The preloader** (third part of `PlayerProofs`), for queues of every length, any limits and any
number of locks, jobs and lost files:

* `TracksStayLookedAfter`: `PreloaderSpec => []TracksAreLookedAfter`;
* `LockedFilesAreKept`: `PreloaderSpec => LockedFilesStay`.

The first property is inductive together with the invariant of the queue and the types of the
tables (`PreloaderInv`), but each of the steps is a loop.  A loop is followed from one iteration
to the next: `JobLoop`, `ExpiryLoop`, `CheckLoop` and `RemovalLoop` say that the recursive functions
have the values that their definitions say (by the least counterexample, in the place of
induction), and `LoopStays` that what every iteration keeps is kept.  What is kept is a set
of lists that are in order: `Ordered` for the loops that start jobs, `Expiring` for the one that
deletes.  The queue's part of the argument is `NothingLeavesUnseen`: whatever operation takes
an entry out of the queue, one of the signals of that step says so; so that an entry which is
no longer in the queue is on the list of what was removed.  The second property rests on the
first: a result that comes in always finds its track, so the branch which discards a
file whose track is gone is never taken (the code is careful where it
need not be), and `Expiring` says of the cleaning up that only files without a lock are deleted.
Whether the files that are needed get there, `FrontIsPreloaded`, is for TLC.

**The indexation** (`IndexationProofs`), for any number of paths, contents, hashes, searches and
changes:

* `ServerKnowsTheFiles`, of the invariant `KnowsTheFiles` of the run `indexation`, with any number of
  lookups, analyses, registrations and searches that fail;
* `IndexationInvariant`: the inductive invariant `IInv`.

The property speaks of the end, when the worker and the analyzer have nothing to do; the
invariant has to say for every moment where a file is.  `InHand` are the places: the queue of
the analyzer, its results, the registrations that wait for the database, and the tables.
`JobInv` ties the set of files in progress to the queue and the results, `TruthInv` says that
what is under way is true of the disk unless something has disturbed it, `IndexationInv` that a
file is in hand or still ahead of the worker, and that an outdated entry is still ahead of the
removals, `SearchInv` the same of a search; a file for which something has failed may be in no
hand, but not in the tables with what it is not.  `NumberInv`, that nothing has been seen by an
indexation that has not begun, is what lets the removals trust the number of the
indexation.

**The scrobbler** (`ScrobblerProofs`), for a history of every length and any number of
timeouts, errors, announcements and toggles:

* `FetchedEntriesAreKept` and `EntriesAreScrobbledInOrder`, of the invariants
  `NoTrackIsForgotten` and `ScrobbledOnceAndInOrder` of the run `scrobbler`;
* `ScrobblerTypes`, and `ScrobblerInvariant`: the inductive invariant `IInv`.

The invariant says that what waits is an interval: the queue has the last entries that were
fetched, each in its place (`QueueInv`), the pending entry is the one before them or none, all
before that is marked or given up (`DoneInv`), and the provider and the database agree on how
far the marks go, which is not beyond that (`ProviderInv`).  The order and the uniqueness of
what waits follow (`WaitingInPlace`), and a restart continues at the right place because
nothing above `saved` is marked (`DatabaseInv`).  The functions of the scrobbler call each
other; each has a lemma that it keeps `Works`, and functions that only change timers, flags or
the status are covered by one predicate, `SameWork`.

**The session** (`SessionProofs`, and `CopiesProofs` for what a client holds), for any accounts,
requests and changes, for channels of every length and any number of logins, one after the
other or overlapping:

* `LoginsAreMutual`, `RequestsAreAnswered` and `CopiesStayCurrent`, of the invariants
  `LoginIsMutual`, `EachRequestIsAnswered` and `CopiesAreCurrent` of the run `session`;
* `SessionInvariant`: the inductive invariant `SessionInv`.

The first property speaks of the moments when nothing is on its way; in between, `LoginPhases` says
of a login that nobody overtook in which of five phases it is, with what each end keeps and
with the one message of it that one of the channels holds: none is under way, it was initiated,
the salt has been sent, it is being finished, it has been answered.  A login that is overtaken
has no phases, but `LoggedInOK` and `ResultsOK` still say that a success which the client has
heard of, or will hear of, is about the user who is logged in at the server.  Both rest on
the references of requests (`ReferencesOK`): they are handed out in order, so that no answer to
something else is taken for the answer to the login.  `BinaryOK` and `BeforeTheConnection`
add the handshake: a login cannot begin before the server has sent its header.  Most handlers
have nothing to do with all this; for those of the server `Serves` says once what they may do
(write messages that are `Harmless`, begin tasks), for those of the client `Talks`, and each
handler has a lemma that it does no more.  These parts (`Consistent`) were checked
as an invariant of the run's instance before they were proved; the types of the messages are
only proved.

For the second property the invariant is `AnswersInv`.  `HandlersOK` and `PromisesOK` are what the
property says, without its arithmetic: the request of a handler is on its way and the server is
`Idle` about it, or the server is `AtWork`, with a task or with the one answer on its way; and the
same for the two questions that have no reference.  That is not inductive.  `KnownUp` adds that
only one message to the server can have the reference of a handler, the request of its kind;
`AnswersOK` that no answer is on its way for a reference that was not handed out; `FreshOK` that
nothing is asked before both ends are in binary mode; and `EventsOK` that a client which wants all
events has asked for them before any request, some of which are answered by an event.
Counting comes last: `AnswersAreCounted` turns "on its way once" into the sum of the property.  A
handler of either end concerns at most the request in its hand (the parameter `concern` of
`Accounted`); what it leaves alone is `Kept`.  `AnswersInv`, too, was checked as an invariant of
the run's instance first.

The third property says nothing of a moment when a message is on its way; the invariant, `CopiesInv`,
says it of what the client will hold when it has read all that is.  A topic is `Told` when the
last message about it that is on its way has the server's value, or when there is none and the
client has that value.  Until the client has asked for it (`IsAsked`) a topic need not be told, and
the length of the queue need not be while the message about it is put off.  `EventsFirst` is why
no change is missed in between: the client asks for the events before the controllers
ask for anything.  The delayed start has states of its own (`DelayTold`): a message on the state of
the player says only whether it is active, so the client may have to ask for its end, and that
question may be on its way as well.  `HealthOK` and `ScrobblingOK` are about the two topics of
which nobody asks: the health is good until the server says otherwise, and the scrobbling is told to
a user who is logged in, which is where this invariant needs the first one.  A step of the server
may disturb a topic before it tells of it (`StartPlaying` and `DoStart` change two): the parameter
`exempt` of `Informed` names the topics that the rest of the handler must still settle, and
`Tells` is what a whole handler of the server guarantees.  Nearly all that the client does leaves what it
holds alone and asks for none of the topics (`Holds`); the messages that it reads about topics are
covered by `Reads`.  `CopiesInv` was checked with TLC before it was proved, too.

**Dynamic mode** (`DynamicModeProofs`), for any finite set of tracks, any users, and any lengths
of the lists, the queue and the batches (zero included):

* `TracksAreNeverLost`, `TimersAreRunning`, `AddedTracksAreFresh` and `PreferencesComeBack`, of
  the four properties `EachTrackIsInOnePlace`, `NobodyWaitsInVain`, `OnlyFreshTracksAreAdded` and
  `PreferencesAreRestored` of the run `dynamic_mode`, two of them about steps;
* `DynamicModeTypes`, and `DynamicModeStaysConsistent`: the inductive invariant
  `DynamicModeFits`.

The last of the four includes that the database cannot be reached or a query fails, any
number of times: `PreferencesFit` ties the table, the settings in use and what each user had last
(`wishes`), for all users but those of a failed query (`lost`).

The members of all objects are one record, and a C++ function is an operator on it, so the
proof has a lemma for each function that says what it may do to the record: a function of the
source leaves all else alone (`SameOutsideTheSource`), one of the dynamic track generator leaves the
lists and timers of the wave alone (`DynamicSteps`), and the other way round (`WaveSteps`).  An
event is then a composition of such steps, and what one generator needs cannot be
disturbed by the other.  `TracksFit` says that the source has as taken what the generators hold
(`SourceFits`) and that their lists are disjoint (`ListsFit`); `TimersFit` has the timers.  These
are nearly the two invariants of the run, but not inductive: a wave that has all of its tracks
ends when the last one is delivered, and ending that way does not empty its buffer.
`WaveFits` adds why nothing gets lost then: a wave that is complete has generated enough, and one
that has generated enough has an empty buffer.  The loops of the source (`takeFromSourceAndApplyFilter`
makes up to twice as many attempts as it needs tracks) are covered by `LoopStays`, and that a
loop has a result at all by `LoopExists`, both without the library's induction.  `WaveFits` was
checked with TLC on the instance of the run before it was proved.

**Futures** (`FuturesProofs`), for any number of futures, continuations, receivers and threads:

* `OutcomesAreStoredOnceTheorem` and `RunsWhereItBelongsTheorem`, of the two invariants
  of the run `futures`;
* `ContinuationsAreInOnePlace`: a continuation waits at one future, is with one thread,
  in one runner, or at the future of its function, or has come to its end;
* `InvariantHolds`: the inductive invariant `Invariant`.

That an outcome is stored once cannot be seen from one step: whoever is about to store
one must not have a rival.  The invariant says so by places (`OnePlace`), by what
waits where (`OpenWhenWaiting`: only an open future has continuations) and by who may
finish a future (`TargetsAreOpen` and `StartsAreOpen`: the future that a continuation or
a job is going to finish is open, and nobody else's target), and `WhereItWasRun` adds the
thread.  Each of the actions has a lemma that it keeps all of this.

Everything else is checked by TLC on the instances above only.  Liveness and ENABLED are out of
reach of the proof system.  Induction is, as a general principle; where a recursive function is
written out (the views of a listener, the messages of a step) a proof by the least
counterexample takes its place (`Replay`), but what the folds of the community modules compute
stays unproved: the rows and rollbacks of the mediator (`RowsAreInStep`, `ViewIsPredicted`), the
groups and rows in StatsCache.  `StaleStatsGetRepaired` moreover holds only
for the constants of its run, and `TableIsRightUpToWatermark`, which has no exception for rows that
could not be written, not even for those (section 5).

## 5. Known deviations

Met while modelling: the code does something else than what its documentation or
its comments say, or than what a reader would expect.  Each follows from the named
configuration with the property and the constants that are given, which TLC finds violated
within seconds.

* `MCStatsCache.cfg` with `SPECIFICATION Spec`, `FirstEquivalences <- Separate`, `MaxRunning = 2`,
  `MaxHistory = 3` and the other bounds 0 (`StaleStatsGetRepaired`, `historystatistics.cpp:433`): two tasks for the same hash overlap; the older
  statistics are written over the newer, and the history ID moves past both.
* `MCStatsCache.cfg` with `SPECIFICATION Spec` and `TableIsRightUpToWatermark` as its only property
  (`historystatistics.cpp:437`): the write of a row fails, which is ignored ("TODO: should we ignore
  errors?").  The task goes on with the right statistics in memory, and in the end moves the history
  ID past a row that is still stale, so that the fixer does not look at it again: after the
  next restart the old statistics are served.  With `MaxFailures = 0` the property holds.
* `MCStatsCache.cfg` with `SPECIFICATION Spec`, `FirstEquivalences <- Separate`,
  `TroubleWhileFixing = TRUE`, `MaxHistory = 3`, `MaxCrashes = 2`, no failures and no merges
  (`StaleStatsGetRepaired`, `userhashstatscachefixer.cpp:232`): the fixer moves the history ID past invalidations
  that are still waiting in the pool; a restart loses them.
* `MCScrobbler.cfg` with `ResultWillArrive`, `SPECIFICATION Spec`, `MaxAnnouncements = 2` and no
  timeouts, authentications or toggles (`scrobbler.cpp:267`): an entry is
  pending when the session becomes invalid, which stops the timeout timer; the backend
  then ignores the request, and nothing ever ends the pending scrobble ("then we wait for the
  gotScrobbleResult event to arrive").
* `MCPlayer.cfg` with `PlayedTracksReachTheHistory`, `HistoryLimit = 3`,
  `MaxPlaybackErrors = 0` (`player.cpp:883`): a skip
  while paused puts the next track in the history order without playing it; when it is
  skipped too, it is never reported, and all tracks played after it wait behind it and
  get no history entry ("Each user has their own playback history", README of PMP).
* `MCStatsCache.cfg` with `RequestsWhileLoading = TRUE` (`StaleStatsGetRepaired`,
  `historystatistics.cpp:305`): statistics are asked for before the
  groups are loaded; those of the hash alone are kept for its group, because loading tells
  nobody.
* `MCStatsCache.cfg` with `MergeWhileFetching = TRUE`, `Slots <- ThreeSlots`, no crash and
  no failure (`StaleStatsGetRepaired`, `historystatistics.cpp:361`): a group
  grows while the statistics of the smaller one are fetched; the fetch stores the sum of the
  smaller group in the end.
* `MCStatsCache.cfg` with `PublicUser = TRUE`, `MaxMerges = 0` and no failures (`StaleStatsGetRepaired`, `database.cpp:1729`): rows of the
  public user have NULL as the user ID, but the statement that deletes them compares
  with 0 and deletes none; the fixer's repair reads the stale row again ("Incorrect score
  and last heard for the public user" is listed as fixed in the change log).
* `MCIndexation.cfg` with `IndexationEnds`, `MaxRuns = 1`, `MaxChanges = 0`
  (`resolver.cpp:783`): the worker sees that the analyzer has not finished, the analyzer
  finishes and its signal is handled, and only then the worker changes the status to
  waiting: it waits for ever, and no indexation can be started again.
* `MCIndexation.cfg` with `DeletedFilesAreDetected` (`resolver.cpp:611`):
  a result from before an indexation is stamped with its number, so that the deletion of
  its file is not detected ("Full indexation now detects when a file has been moved or
  deleted", change log).
* `MCScrobbler.cfg` with `MarkedWasAccepted`, `MaxTimeouts = 2`, the other bounds 0
  (`scrobbler.cpp:314`): a reply that comes after the timeout is credited to whatever entry
  is pending, which is marked as scrobbled without ever having been accepted.
* `MCScrobbler.cfg` with `OnlyUntitledIsDropped`, `MaxTimeouts = 1` (`scrobbler.cpp:260`): track
  information that comes after the timeout gives up the entry that is pending by then.
* QueueReplication with `EverythingIsFetched`, 3 entries, `InitialFetch = 1`,
  `FetchBatch = 2`, `MaxInFlight = 2`, no early events (`queuemonitor.cpp:144`): an entry is
  removed while the last part of the queue is being fetched; the empty answer is not
  followed by another fetch, and the last entry is not shown until something changes.
* QueueReplication with `InconsistencyIsRepaired`, 2 entries, `InitialFetch = 2`,
  `FetchBatch = 2`, `MaxInFlight = 2`, 4 early events (`queuemonitor.cpp:198`): several events
  before the first contents are applied to an empty list, and the fetch that "will trigger a
  reset" does not when the lengths agree.
* `MCCollection.cfg` with `PlaceholdersAreReplaced` (`collectionwatcherimpl.cpp:134`): the
  availability of a track is announced before the collection is shown; the placeholder that
  is added for it "without its title, artist, etc." is never replaced, because the part of the
  download that has them is skipped.  With `AvailableTracksAreShown`
  (`collectiontablemodel.cpp:502`): a placeholder is not added to the table, nor is it when it
  becomes available later.

Seen in passing, without a property.  At the server: `trim()` would not end for a negative
length (it is only called with 10); a dequeued breakpoint stays in the lookup table; the
number of operations in `serverinterface.cpp`'s check of the front of the queue is never
incremented; preferences that cannot be saved are lost without anybody being told; a file
finder's search is never entered in its list of searches in progress; the delay
of a delayed start is narrowed from 64 to 32 bits on its way; a small collection can
keep dynamic mode from finding a candidate, and the tracks that a generator announces for
prefetching need not be the next in line (`NextInLineAreAnnounced`); there is no
keep-alive during the handshake nor at the server; `sendQueueEntryHashMessage` splits a list
that is too long into messages of another type; the receiver of an `EventLoopRunner`
is a raw pointer that is never tested, so work for a receiver that has been deleted is undefined
(`runners.cpp:54`; in Futures such work is not run).

At a client: `connectionBroken()` of the queue monitor compares -1 with -1, and
`_queueLengthIsKnown` stays true after a disconnect; `fetchCompleted` without a limit is emitted
at the first check; a login that is cancelled after its last message was sent leaves the server
logged in without the client knowing, and later logins fail; what waits for a result is never
told of the end of the connection; the bulk answer about entries is discarded when one
ID is unknown, and its IDs are not asked for again; a reversed insertion before
the length of the queue is known reports success without inserting; a timeout and a late
answer are both reported, and the last exit code wins; `break` on an empty queue times out
although the break was inserted; `skip` on a broken connection reports success, and `shutdown` takes
every loss of the connection for success; `delete` of an entry that is gone gets no answer;
entries that move into the known part are unknown to the hashes monitor, and those that move up
after a removal are not fetched; the filename of a track without tags and length is
not asked for and `nowplaying` times out; `start indexation` ignores further words;
the last wish of the volume slider can be lost, and its second timer is stale; the skip button can
stay disabled; the check box of dynamic mode sends a request when the connection is lost; statistics
are shown for the user who is logged in although the player is in another user's personal mode;
an insertion by a client without events is never confirmed;
`CollectionWatcherImpl::onConnected` is never connected.

## 6. Plan

Done: PlayerQueue and its proofs, Player, Preloader, StatsCache, Indexation, Scrobbler,
QueueReplication with MirroredQueue, QueueMediation with QueueModel, DynamicMode, Session,
Collection, Futures, Remote with all of its parts; proofs about the queue and its signals, the
client's copy of the queue, the player, the preloader, the indexation, the scrobbler, the three
properties of the session, dynamic mode and the futures.

Left, in the order of importance:

1. **Two clients** in Session: requests of one that are events for the other.
2. **Analysis for a command** (`analyzeFileAsync`) and the lookup of a hash by path in
   Indexation, with the futures that wait for them.
3. **Algorithms** against reference definitions: repetition of IDs on the network,
   three-valued logic.

## 7. What is not modelled

Contents of files, tags, hashing and audio; SQL beyond the queries named above; the
layout of messages in bytes and the branches for older protocol versions; dialogs, colours,
menus and texts of the user interface; prompts and help of the command line; settings
and logging; password hashes; the wrap-around of 32-bit queue IDs (it takes four
billion entries); seeking, volume and playing positions.

Parts with status `not_modelled` in `PROJECT.json`:

* **Pure helpers**: functions without state that have unit tests of their own.
* **Server start, settings and health**: wiring; two flags of the health monitor are only
  ever raised.
* **Tools**: a program that prints the hash of a file.

Parts with status `partly` name there what they leave out.
