---------------------------- MODULE Indexation ----------------------------
(***************************************************************************)
(* The knowledge of the server about music files: full indexation, quick   *)
(* scan for new files, the search for a file with a given hash, the queue  *)
(* of files to analyze, and the registration of what the analysis finds    *)
(* (src/server/resolver.cpp, analyzer.cpp, filelocations.cpp and           *)
(* filefinder.cpp).                                                        *)
(*                                                                         *)
(* A worker thread walks the directories and afterwards looks for files    *)
(* that have disappeared; a pool with one thread analyzes files; results   *)
(* are handled by the event loop, which has to wait for the database to    *)
(* know the ID of a hash.  The status of an indexation is written by the   *)
(* worker and by the event loop, without a lock.  Searches are done one    *)
(* after the other in a pool of their own; they analyze files themselves,  *)
(* and leave what they have no time for to the analyzer.                   *)
(*                                                                         *)
(* The content of a file is its hash and a stamp, for size and             *)
(* modification time.  What only the analysis of one file is about (tags,  *)
(* length, more than one hash) is left out, and so are the names and sizes *)
(* that the database remembers for a hash: whether a file looks likely to  *)
(* have a hash is a choice.                                                *)
(***************************************************************************)
EXTENDS Naturals, Sequences, FiniteSets, SequencesExt, FiniteSetsExt

CONSTANTS
    Paths, Hashes,       \* files (numbers), and what can be in them
    Absent,              \* a hash that is in no file
    MaxNewFilesToScan,   \* new files that a search analyzes itself (3)
    MaxRuns,             \* bound on the full indexations and quick scans
    MaxSearches,         \* bound on the searches
    MaxChanges,          \* bound on the changes of files
    MaxFailures,         \* bound on what fails although no file changes
    MaxEvents            \* bound on all of these; a search counts as two

ASSUME IndexationConstants ==
    /\ Paths \subseteq Nat \ {0} /\ Absent \notin Hashes
    /\ {"none", "not reading"} \cap Hashes = {}
    /\ {MaxRuns, MaxSearches, MaxChanges, MaxFailures, MaxEvents,
        MaxNewFilesToScan} \subseteq Nat

VARIABLES
    disk,                \* the content of each file
    verified,            \* _pathToVerifiedFile, and so the files of each hash
    locations,           \* _fileLocations: pairs of path and hash
    number,              \* _fullIndexationNumber: counts the indexations
    fullStatus,          \* _fullIndexationStatus
    scanStatus,          \* _quickScanStatus
    worker,              \* the worker thread: what it does, paths to do
    inProgress,          \* _pathsInProgress of the analyzer
    pool,                \* _queueThreadPool of the analyzer
    reading,             \* the content the running analysis has started with
    results,             \* analysis results waiting for the event loop
    registrations,       \* results waiting for a hash ID, in the resolver
    newLocations,        \* the same in the file finder
    searches,            \* hashes in the thread pool of the file finder
    finder,              \* the search that is being executed
    unfound,             \* new files that a search came across without success,
                         \* if nothing was stale when it began and no file has
                         \* changed since
    changes, runs,       \* so far
    searched,            \* searches so far
    changed,             \* a file has changed since the last full indexation
                         \* was started
    staleAtStart,        \* something was stale when it was started
    failures,            \* so far
    failed               \* files whose analysis or registration has failed since
                         \* then, although they have not changed

ghostVars == <<changes, runs, changed, staleAtStart, failures, failed>>

vars == <<disk, verified, locations, number, fullStatus, scanStatus, worker,
          inProgress, pool, reading, results, registrations, newLocations,
          searches, finder, unfound, searched, ghostVars>>

resolverVars == <<verified, locations, number>>
statusVars == <<fullStatus, scanStatus, worker>>
analyzerVars == <<inProgress, pool, reading, results>>
pendingVars == <<registrations, newLocations>>
finderVars == <<searches, finder, unfound, searched>>

NoFile == [hash |-> "none", stamp |-> 0]
NotReading == [hash |-> "not reading", stamp |-> 0]
Unknown == [content |-> NoFile, number |-> 0]

Room(n) == changes + failures + runs + 2 * searched + n <= MaxEvents

SomethingFails ==
    /\ failures < MaxFailures /\ Room(1)
    /\ failures' = failures + 1
    /\ UNCHANGED <<changes, runs, changed, staleAtStart>>

FileFails(path) == SomethingFails /\ failed' = failed \cup {path}

(* Nothing is on its way that a file was, and is not any more; a failed    *)
(* analysis does no harm if the file is going to be analyzed again.        *)
NothingIsStale ==
    /\ reading # NotReading => reading = disk[Head(pool)]
    /\ \A r \in ToSet(results) :
          \/ r.content = disk[r.path]
          \/ r.content = NoFile /\ r.path \in ToSet(pool)
    /\ \A r \in registrations : r.content = disk[r.path]

Resting == [does |-> "nothing", left |-> {}]

(* The file finder does nothing; or it goes through the directories, or    *)
(* through new files, and may be analyzing one of them.                    *)
NoSearch == [step |-> "none", left |-> {}, fresh |-> {}, scanned |-> 0,
             path |-> 0, reading |-> NotReading, undisturbed |-> FALSE]

AnalyzerIsIdle == /\ inProgress = {} /\ pool = << >> /\ results = << >>
                  /\ registrations = {} /\ newLocations = {}
                  /\ searches = << >>

-----------------------------------------------------------------------------
(* The analyzer.                                                           *)

(* enqueueFile                                                             *)
Enqueued(path, progress, queue) ==
    IF path \in progress
    THEN [inProgress |-> progress, pool |-> queue]
    ELSE [inProgress |-> progress \cup {path}, pool |-> Append(queue, path)]

BeginAnalysis ==
    /\ pool # << >> /\ reading = NotReading
    /\ reading' = disk[Head(pool)]
    /\ UNCHANGED <<disk, resolverVars, statusVars, inProgress, pool, results,
                   pendingVars, finderVars, ghostVars>>

(* A file that has changed in the meantime goes to the back of the queue,  *)
(* and its first analysis still counts as failed.  The analysis of one that*)
(* is still the same may fail, too (it cannot be read, or is too long).  A *)
(* failure has NoFile as its content.                                      *)
EndAnalysis ==
    /\ reading # NotReading
    /\ LET path == Head(pool)
           same == disk[path] = reading
           again == ~ same /\ disk[path] # NoFile
           after == IF again
                    THEN Enqueued(path, inProgress \ {path}, Tail(pool))
                    ELSE [inProgress |-> inProgress, pool |-> Tail(pool)]
           outcome == IF same THEN reading ELSE NoFile
       IN  /\ inProgress' = after.inProgress
           /\ pool' = after.pool
           /\ \/ /\ results' = Append(results, [path |-> path, content |-> outcome])
                 /\ UNCHANGED ghostVars
              \/ /\ outcome # NoFile /\ FileFails(path)
                 /\ results' = Append(results, [path |-> path, content |-> NoFile])
    /\ reading' = NotReading
    /\ UNCHANGED <<disk, resolverVars, statusVars, pendingVars, finderVars>>

(* Mistake: a failed analysis is not removed from the ones in progress.    *)
StillInProgressAfterFailure(result) ==
    IF result.content = NoFile THEN inProgress ELSE inProgress \ {result.path}

StillInProgress(result) == inProgress \ {result.path}

OnAnalyzerFinished ==
    /\ scanStatus' = IF scanStatus = "waiting" THEN "notRunning" ELSE scanStatus
    /\ IF fullStatus = "waiting"
       THEN /\ fullStatus' = "removals"
            /\ worker' = [does |-> "start removals", left |-> {}]
       ELSE UNCHANGED <<fullStatus, worker>>

Succeeded(result) == result.content # NoFile

(* The event loop gets a result: onFileAnalysisCompleted or -Failed.       *)
HandleResult ==
    /\ results # << >>
    /\ LET result == Head(results)
       IN  /\ inProgress' = StillInProgress(result)
           /\ registrations' = registrations \cup (IF Succeeded(result) THEN {result} ELSE {})
           /\ newLocations' = newLocations \cup
                 (IF Succeeded(result) THEN {<<result.path, result.content.hash>>}
                                       ELSE {})
           /\ IF StillInProgress(result) = {}
              THEN OnAnalyzerFinished
              ELSE UNCHANGED statusVars
    /\ results' = Tail(results)
    /\ UNCHANGED <<disk, resolverVars, pool, reading, finderVars, ghostVars>>

-----------------------------------------------------------------------------
(* What is known about files.                                              *)

KnownAs(path, hash) ==
    verified[path] # Unknown /\ verified[path].content.hash = hash

(* The hash ID of a result is known, addPath follows.                      *)
Register(result) ==
    /\ result \in registrations
    /\ registrations' = registrations \ {result}
    /\ verified' = [verified EXCEPT ![result.path] =
                       [content |-> result.content, number |-> number]]
    /\ locations' =
          IF verified[result.path] = Unknown
             \/ KnownAs(result.path, result.content.hash)
          THEN locations
          ELSE locations \ {<<result.path, verified[result.path].content.hash>>}
    /\ UNCHANGED <<disk, number, statusVars, analyzerVars, newLocations, finderVars,
                   ghostVars>>

(* There is no hash ID, or the hash or the details of the file are invalid:*)
(* the result is lost.                                                     *)
RegistrationFails(result) ==
    /\ result \in registrations
    /\ registrations' = registrations \ {result}
    /\ FileFails(result.path)
    /\ UNCHANGED <<disk, resolverVars, statusVars, analyzerVars, newLocations, finderVars>>

RegisterLocation(pair) ==
    /\ pair \in newLocations
    /\ newLocations' = newLocations \ {pair}
    /\ locations' = locations \cup {pair}
    /\ UNCHANGED <<disk, verified, number, statusVars, analyzerVars,
                   registrations, finderVars, ghostVars>>

(* There is no hash ID.                                                    *)
LocationFails(pair) ==
    /\ pair \in newLocations
    /\ newLocations' = newLocations \ {pair}
    /\ SomethingFails /\ UNCHANGED failed
    /\ UNCHANGED <<disk, resolverVars, statusVars, analyzerVars, registrations, finderVars>>

(* A file that is gone or not the same anymore is forgotten                *)
(* (isStillValid, removeInvalidPath).                                      *)
DropIfInvalid(path) ==
    IF verified[path] # Unknown /\ verified[path].content # disk[path]
    THEN /\ verified' = [verified EXCEPT ![path] = Unknown]
         /\ locations' = locations \ {<<path, verified[path].content.hash>>}
    ELSE UNCHANGED <<verified, locations>>

(* haveFileForHash, pathStillValid, findPathForHashAsync                   *)
LookUp(path) ==
    /\ verified[path] # Unknown /\ verified[path].content # disk[path]
    /\ DropIfInvalid(path)
    /\ UNCHANGED <<disk, number, statusVars, analyzerVars, pendingVars, finderVars, ghostVars>>

-----------------------------------------------------------------------------
(* Full indexation and quick scan.                                         *)

NothingRunning == fullStatus = "notRunning" /\ scanStatus = "notRunning"

(* What has failed before is tried again: it is forgiven, and searches that*)
(* it has harmed are not looked at any longer.                             *)
StartFullIndexation ==
    /\ NothingRunning /\ runs < MaxRuns /\ Room(1)
    /\ number' = number + 1
    /\ fullStatus' = "traversal"
    /\ worker' = [does |-> "full indexation", left |-> Paths]
    /\ runs' = runs + 1
    /\ changed' = FALSE /\ staleAtStart' = ~ NothingIsStale /\ failed' = {}
    /\ unfound' = IF failed = {} THEN unfound ELSE {}
    /\ finder' = [finder EXCEPT !.undisturbed = @ /\ failed = {}]
    /\ UNCHANGED <<disk, verified, locations, scanStatus, analyzerVars, pendingVars,
                   searches, searched, changes, failures>>

StartQuickScanForNewFiles ==
    /\ NothingRunning /\ runs < MaxRuns /\ Room(1)
    /\ scanStatus' = "traversal"
    /\ worker' = [does |-> "quick scan", left |-> Paths]
    /\ runs' = runs + 1
    /\ UNCHANGED <<disk, resolverVars, fullStatus, analyzerVars, pendingVars,
                   finderVars, changes, changed, staleAtStart, failures, failed>>

Traversing == worker.does \in {"full indexation", "quick scan"}

IsLocated(path) == \E h \in Hashes : <<path, h>> \in locations

Wanted(path) ==
    /\ disk[path] # NoFile
    /\ worker.does = "quick scan" => ~ IsLocated(path)

(* The worker comes across a path; the order is always the same.           *)
Visit(path) ==
    /\ Traversing /\ worker.left # {} /\ path = Min(worker.left)
    /\ worker' = [worker EXCEPT !.left = @ \ {path}]
    /\ LET after == IF Wanted(path)
                    THEN Enqueued(path, inProgress, pool)
                    ELSE [inProgress |-> inProgress, pool |-> pool]
       IN  inProgress' = after.inProgress /\ pool' = after.pool
    /\ UNCHANGED <<disk, resolverVars, fullStatus, scanStatus, reading, results,
                   pendingVars, finderVars, ghostVars>>

WriteStatus(full, scan, next) ==
    IF worker.does \in {"full indexation", "full indexation, not finished"}
    THEN fullStatus' = full /\ UNCHANGED scanStatus /\ worker' = next
    ELSE scanStatus' = scan /\ UNCHANGED fullStatus /\ worker' = Resting

(* The end of the traversal: with all files analyzed the next phase can    *)
(* begin, otherwise it is left to onAnalyzerFinished.                      *)
EndTraversal ==
    /\ Traversing /\ worker.left = {}
    /\ IF inProgress = {}
       THEN WriteStatus("removals", "notRunning",
                        [does |-> "start removals", left |-> {}])
       ELSE /\ worker' = [does |-> IF worker.does = "quick scan"
                                   THEN "quick scan, not finished"
                                   ELSE "full indexation, not finished", left |-> {}]
            /\ UNCHANGED <<fullStatus, scanStatus>>
    /\ UNCHANGED <<disk, resolverVars, analyzerVars, pendingVars, finderVars, ghostVars>>

WaitForAnalyzer ==
    /\ worker.does \in {"full indexation, not finished", "quick scan, not finished"}
    /\ WriteStatus("waiting", "waiting", Resting)
    /\ UNCHANGED <<disk, resolverVars, analyzerVars, pendingVars, finderVars, ghostVars>>

(* Mistake: only files that were never indexed before are checked.         *)
NotSeenBefore == {p \in Paths : verified[p] # Unknown /\ verified[p].number = 0}

(* getPathsThatDontMatchCurrentFullIndexationNumber                        *)
NotSeenByThisRun ==
    {p \in Paths : verified[p] # Unknown /\ verified[p].number # number}

BeginRemovals ==
    /\ worker.does = "start removals"
    /\ worker' = [does |-> "removals", left |-> NotSeenByThisRun]
    /\ UNCHANGED <<disk, resolverVars, fullStatus, scanStatus, analyzerVars,
                   pendingVars, finderVars, ghostVars>>

CheckFile(path) ==
    /\ worker.does = "removals" /\ path \in worker.left
    /\ worker' = [worker EXCEPT !.left = @ \ {path}]
    /\ DropIfInvalid(path)
    /\ UNCHANGED <<disk, number, fullStatus, scanStatus, analyzerVars,
                   pendingVars, finderVars, ghostVars>>

EndRemovals ==
    /\ worker.does = "removals" /\ worker.left = {}
    /\ worker' = Resting
    /\ fullStatus' = "notRunning"
    /\ UNCHANGED <<disk, resolverVars, scanStatus, analyzerVars, pendingVars,
                   finderVars, ghostVars>>

-----------------------------------------------------------------------------
(* Searches.                                                               *)

(* findPathForHashAsync: if none of the known files of a hash is valid, a  *)
(* search is put in the thread pool.  The table of searches that are going *)
(* on is never filled, so that a hash may be searched more than once.      *)
FindPathForHash(hash) ==
    /\ searched < MaxSearches /\ Room(2)
    /\ searched' = searched + 1
    /\ \A p \in Paths : KnownAs(p, hash) => verified[p].content # disk[p]
    /\ verified' = [p \in Paths |-> IF KnownAs(p, hash) THEN Unknown ELSE verified[p]]
    /\ locations' = locations \ ({p \in Paths : KnownAs(p, hash)} \X {hash})
    /\ searches' = Append(searches, hash)
    /\ UNCHANGED <<disk, number, statusVars, analyzerVars, pendingVars, finder, unfound,
                   ghostVars>>

BeginSearch ==
    /\ searches # << >> /\ finder = NoSearch
    /\ finder' = [NoSearch EXCEPT !.step = "names", !.left = Paths,
                                   !.undisturbed = NothingIsStale]
    /\ UNCHANGED <<disk, resolverVars, statusVars, analyzerVars, pendingVars, searches,
                   unfound, searched, ghostVars>>

(* It has no connection to the database.                                   *)
SearchFails ==
    /\ searches # << >> /\ finder = NoSearch
    /\ searches' = Tail(searches)
    /\ SomethingFails /\ UNCHANGED failed
    /\ UNCHANGED <<disk, resolverVars, statusVars, analyzerVars, pendingVars, finder,
                   unfound, searched>>

SearchIsAt(path, step) ==
    finder.step = step /\ finder.left # {} /\ path = Min(finder.left) /\ finder.path = 0

Passed(path) == [finder EXCEPT !.left = @ \ {path}]

Analyzing(path) == [Passed(path) EXCEPT !.path = path, !.reading = disk[path]]

(* findPathForHashByLikelyFilename: the names of the files before it do    *)
(* not fit.                                                                *)
LookAtName(path) ==
    /\ finder.step = "names" /\ finder.path = 0
    /\ path \in finder.left /\ disk[path] # NoFile
    /\ finder' = [Analyzing(path) EXCEPT !.left = {p \in finder.left : p > path}]
    /\ UNCHANGED <<disk, resolverVars, statusVars, analyzerVars, pendingVars, searches,
                   unfound, searched, ghostVars>>

(* findPathByQuickScanForNewFiles: a file of another size is only of       *)
(* interest if nothing is known about its path.                            *)
LookAtSize(path, likely) ==
    /\ SearchIsAt(path, "sizes")
    /\ finder' = IF disk[path] = NoFile THEN Passed(path)
                 ELSE IF likely THEN Analyzing(path)
                 ELSE IF IsLocated(path) THEN Passed(path)
                 ELSE [Passed(path) EXCEPT !.fresh = @ \cup {path}]
    /\ UNCHANGED <<disk, resolverVars, statusVars, analyzerVars, pendingVars, searches,
                   unfound, searched, ghostVars>>

LookAtNewFile(path) ==
    /\ SearchIsAt(path, "new") /\ finder.scanned < MaxNewFilesToScan
    /\ finder' = [Analyzing(path) EXCEPT !.scanned = @ + 1]
    /\ UNCHANGED <<disk, resolverVars, statusVars, analyzerVars, pendingVars, searches,
                   unfound, searched, ghostVars>>

(* findPathByQuickScanOfNewFiles: the rest is left to the analyzer.        *)
EnqueueNewFile(path) ==
    /\ SearchIsAt(path, "new") /\ finder.scanned >= MaxNewFilesToScan
    /\ LET after == Enqueued(path, inProgress, pool)
       IN  inProgress' = after.inProgress /\ pool' = after.pool
    /\ finder' = Passed(path)
    /\ UNCHANGED <<disk, resolverVars, statusVars, reading, results, pendingVars,
                   searches, unfound, searched, ghostVars>>

EndSearch(missed) ==
    /\ searches' = Tail(searches)
    /\ finder' = NoSearch
    /\ unfound' = missed

(* analyzeFile: the result is not only for the search; it may fail as in   *)
(* EndAnalysis.                                                            *)
EndSearchAnalysis(succeeds) ==
    /\ finder.reading # NotReading
    /\ LET path == finder.path
           same == disk[path] = finder.reading
           done == same /\ disk[path] # NoFile /\ succeeds
           again == ~ same /\ disk[path] # NoFile
           after == Enqueued(path, inProgress, pool)
       IN  /\ inProgress' = IF again THEN after.inProgress ELSE inProgress
           /\ pool' = IF again THEN after.pool ELSE pool
           /\ registrations' = registrations \cup
                 (IF done THEN {[path |-> path, content |-> finder.reading]} ELSE {})
           /\ newLocations' = newLocations \cup
                 (IF done THEN {<<path, finder.reading.hash>>} ELSE {})
           /\ IF done /\ finder.reading.hash = Head(searches)
              THEN EndSearch({})
              ELSE /\ finder' = [finder EXCEPT !.path = 0, !.reading = NotReading]
                   /\ UNCHANGED <<searches, unfound>>
           /\ IF succeeds THEN UNCHANGED ghostVars
              ELSE same /\ disk[path] # NoFile /\ FileFails(path)
    /\ UNCHANGED <<disk, resolverVars, statusVars, reading, results, searched>>

(* findHashInternal: one way to search after the other.                    *)
NextPartOfSearch ==
    /\ finder.step # "none" /\ finder.path = 0
    /\ finder.left = {} \/ finder.step = "names"
    /\ \/ /\ finder.step = "names"
          /\ finder' = [finder EXCEPT !.step = "sizes", !.left = Paths]
          /\ UNCHANGED <<searches, unfound>>
       \/ /\ finder.step = "sizes"
          /\ finder' = [finder EXCEPT !.step = "new", !.left = finder.fresh]
          /\ UNCHANGED <<searches, unfound>>
       \/ /\ finder.step = "new"
          /\ EndSearch(IF finder.undisturbed THEN finder.fresh ELSE {})
    /\ UNCHANGED <<disk, resolverVars, statusVars, analyzerVars, pendingVars, searched,
                   ghostVars>>

-----------------------------------------------------------------------------
(* A file gets another content, or is deleted.                             *)
ChangeFile(path, content) ==
    /\ changes < MaxChanges /\ Room(1)
    /\ content # disk[path]
    /\ disk' = [disk EXCEPT ![path] = content]
    /\ changes' = changes + 1
    /\ changed' = TRUE
    /\ unfound' = {} /\ finder' = [finder EXCEPT !.undisturbed = FALSE]
    /\ UNCHANGED <<resolverVars, statusVars, analyzerVars, pendingVars, searches,
                   searched, runs,
                   staleAtStart, failures, failed>>

Init ==
    /\ disk \in [Paths -> {NoFile} \cup [hash : Hashes, stamp : {0}]]
    /\ verified = [p \in Paths |-> Unknown]
    /\ locations = {}
    /\ number = 0
    /\ fullStatus = "notRunning" /\ scanStatus = "notRunning"
    /\ worker = Resting
    /\ inProgress = {} /\ pool = << >> /\ reading = NotReading /\ results = << >>
    /\ registrations = {} /\ newLocations = {}
    /\ searches = << >> /\ finder = NoSearch /\ unfound = {} /\ searched = 0
    /\ changes = 0 /\ runs = 0 /\ changed = TRUE /\ staleAtStart = FALSE
    /\ failures = 0 /\ failed = {}

WorkerStep ==
    \/ \E p \in Paths : Visit(p) \/ CheckFile(p)
    \/ EndTraversal \/ WaitForAnalyzer \/ BeginRemovals \/ EndRemovals

AnalyzerStep == BeginAnalysis \/ EndAnalysis

FinderStep ==
    \/ BeginSearch \/ SearchFails \/ NextPartOfSearch
    \/ \E succeeds \in BOOLEAN : EndSearchAnalysis(succeeds)
    \/ \E p \in Paths, likely \in BOOLEAN : LookAtSize(p, likely)
    \/ \E p \in Paths : LookAtName(p) \/ LookAtNewFile(p) \/ EnqueueNewFile(p)

EventLoopStep ==
    \/ HandleResult
    \/ \E r \in registrations : Register(r) \/ RegistrationFails(r)
    \/ \E l \in newLocations : RegisterLocation(l) \/ LocationFails(l)

Next ==
    \/ WorkerStep \/ AnalyzerStep \/ FinderStep \/ EventLoopStep
    \/ StartFullIndexation \/ StartQuickScanForNewFiles
    \/ \E h \in Hashes \cup {Absent} : FindPathForHash(h)
    \/ \E p \in Paths : LookUp(p)
    \/ \E p \in Paths :
          \E c \in {NoFile} \cup [hash : Hashes, stamp : {changes + 1}] :
              ChangeFile(p, c)

Spec == Init /\ [][Next]_vars

(* The worker, the thread of the analyzer and the event loop go on; of     *)
(* searches this is not needed.                                            *)
FairSpec ==
    /\ Spec
    /\ WF_vars(WorkerStep) /\ WF_vars(AnalyzerStep) /\ WF_vars(EventLoopStep)

-----------------------------------------------------------------------------
(* Correctness.                                                            *)

TypeOK ==
    LET content == {NoFile} \cup [hash : Hashes, stamp : 0..MaxChanges]
    IN  /\ disk \in [Paths -> content]
        /\ verified \in [Paths -> [content : content, number : 0..MaxRuns]]
        /\ locations \subseteq Paths \X Hashes
        /\ fullStatus \in {"notRunning", "traversal", "waiting", "removals"}
        /\ scanStatus \in {"notRunning", "traversal", "waiting"}
        /\ worker.left \subseteq Paths
        /\ inProgress \subseteq Paths /\ ToSet(pool) \subseteq Paths
        /\ reading \in content \cup {NotReading}
        /\ ToSet(results) \cup registrations \subseteq
              [path : Paths, content : content]
        /\ newLocations \subseteq Paths \X Hashes
        /\ ToSet(searches) \subseteq Hashes \cup {Absent}
        /\ finder.step \in {"none", "names", "sizes", "new"}
        /\ finder.left \cup finder.fresh \subseteq Paths
        /\ finder.reading \in content \cup {NotReading}
        /\ unfound \cup failed \subseteq Paths

(* When a full indexation is over and its results have been registered,    *)
(* the server knows exactly the files that are there, if no file has       *)
(* changed and nothing stale was under way; the analyzer may have been busy*)
(* with other requests.  Of a file whose analysis or registration has      *)
(* failed since the start it knows the truth or nothing, and the next      *)
(* indexation makes up for it.  And a search without success leaves no new *)
(* file behind: what it came across and nobody knew is known when the      *)
(* analyzer has finished, whether the search has analyzed it or has left it*)
(* to the analyzer, which may have had it already or get it again from an  *)
(* indexation, unless something has failed for that very file.             *)
KnowsTheFiles ==
    AnalyzerIsIdle =>
        /\ NothingRunning /\ ~ changed /\ ~ staleAtStart =>
              \A p \in Paths : \/ verified[p].content = disk[p]
                               \/ p \in failed /\ verified[p].content = NoFile
        /\ \A p \in unfound \ failed : verified[p].content = disk[p]

(* A full indexation detects that a file was deleted before it started.    *)
DeletedFilesAreDetected ==
    NothingRunning /\ AnalyzerIsIdle /\ ~ changed =>
        \A p \in Paths : disk[p] = NoFile => verified[p] = Unknown

(* The analyzer had finished already when the worker started to wait.      *)
WaitsInVain ==
    "waiting" \in {fullStatus, scanStatus} /\ inProgress = {} /\ results = << >>

(* A full indexation ends, and so does a quick scan, unless the last result*)
(* came between the test whether there are any and the status that follows *)
(* from it (IndexationEnds tells): no other order of the worker, the       *)
(* analyzer and the event loop keeps it from ending, and no failure.       *)
EndsUnlessOvertaken ==
    /\ (fullStatus # "notRunning") ~> (fullStatus = "notRunning" \/ WaitsInVain)
    /\ (scanStatus # "notRunning") ~> (scanStatus = "notRunning" \/ WaitsInVain)

(* A full indexation ends, and so does a quick scan; until then neither    *)
(* can be started again.                                                   *)
IndexationEnds ==
    /\ (fullStatus # "notRunning") ~> (fullStatus = "notRunning")
    /\ (scanStatus # "notRunning") ~> (scanStatus = "notRunning")

=============================================================================
