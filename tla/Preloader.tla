----------------------------- MODULE Preloader -----------------------------
(***************************************************************************)
(* The preloader (src/server/preloader.cpp): it copies the tracks at the   *)
(* front of the queue to a cache of temporary files before they are to be  *)
(* played, and deletes a copy some time after its entry has left the       *)
(* queue, unless the player has it locked.  It learns about the queue from *)
(* the signals of PlayerQueue, works from timers, and lets a thread pool   *)
(* do the copying; the results come back through the event loop.           *)
(*                                                                         *)
(* The name of a cache file is made from the queue ID, so that queue IDs   *)
(* stand for files here.  Finding, reading and processing the original     *)
(* file is outside of the module: a job succeeds or fails.                 *)
(***************************************************************************)
EXTENDS PlayerQueue, SequencesExt, FiniteSetsExt

CONSTANTS
    PreloadRange,        \* PRELOAD_RANGE (5 in the code)
    MaxJobs,             \* jobs that may run at the same time (2)
    JobIterations,       \* list entries checkForJobsToStart looks at (5)
    ExpirationLimit,     \* entries checkForCacheExpiration looks at (3)
    MaxLocks,            \* bound on the locks the player holds
    MaxFileLosses        \* bound on the files that disappear by themselves

ASSUME PreloaderConstants ==
    /\ PreloadRange \in Nat /\ MaxJobs \in Nat /\ JobIterations \in Nat
    /\ ExpirationLimit \in Nat /\ MaxLocks \in Nat /\ MaxFileLosses \in Nat

VARIABLES
    tracks,              \* _tracksByQueueID: the status of each track
    tracksToPreload,     \* _tracksToPreload
    tracksRemoved,       \* _tracksRemoved
    locks,               \* _lockedQueueIds: counts, zero when not locked
    timers,              \* the timers that are running
    jobs,                \* the jobs of the thread pool, by queue ID
    disk,                \* the cache files that exist
    losses               \* files that disappeared so far

preloaderVars ==
    <<tracks, tracksToPreload, tracksRemoved, locks, timers, jobs, disk, losses>>

preloadingVars == <<queueVars, preloaderVars>>

Ids == 1..MaxQueueID

Status == {"Initial", "Processing", "Preloaded", "Failed"}

Known == DOMAIN tracks

Locked(id) == locks[id] > 0

(* The function f without id, and with id mapped to value.                 *)
Without(f, id) == [x \in DOMAIN f \ {id} |-> f[x]]
With(f, id, value) ==
    [x \in DOMAIN f \cup {id} |-> IF x = id THEN value ELSE f[x]]

(* Apply Step n times.  This loop and the two others in the module are     *)
(* functions of the number of iterations, which proofs can follow.         *)
Iterate(Step(_), n, start) ==
    LET after[k \in 0..n] == IF k = 0 THEN start ELSE Step(after[k - 1])
    IN  after[n]

-----------------------------------------------------------------------------
(* The signals of the queue.                                               *)

NearFront(signal) ==
    \/ signal.signal = "entryAdded" /\ signal.to < PreloadRange
    \/ signal.signal = "entryRemoved" /\ signal.from < PreloadRange
    \/ /\ signal.signal = "entryMoved"
       /\ signal.from < PreloadRange \/ signal.to < PreloadRange

(* Mistake: entries that are removed outside the range are not noticed.    *)
IsRemovalNearFront(signal) ==
    signal.signal = "entryRemoved" /\ NearFront(signal)

IsRemoval(signal) == signal.signal = "entryRemoved"

(* The list ids, and after it what is removed according to the signals.    *)
WithRemovals(ids, sigs) ==
    LET after[k \in 0..Len(sigs)] ==
            IF k = 0 THEN ids
            ELSE IF IsRemoval(sigs[k])
                 THEN Append(after[k - 1], sigs[k].queueID)
                 ELSE after[k - 1]
    IN  after[Len(sigs)]

QueueSignals(sigs) ==
    /\ tracksRemoved' = WithRemovals(tracksRemoved, sigs)
    /\ timers' = timers
          \cup (IF \E s \in ToSet(sigs) : NearFront(s) THEN {"preload"} ELSE {})
          \cup (IF \E s \in ToSet(sigs) : IsRemoval(s) THEN {"expiration"} ELSE {})
          \cup (IF \E s \in ToSet(sigs) :
                      s.signal = "firstTrackChanged" /\ s.to >= 0
                THEN {"firstTrack"} ELSE {})

QueueTells ==
    /\ UserOperation \/ Dequeue
    /\ QueueSignals(signals')
    /\ UNCHANGED <<tracks, tracksToPreload, locks, jobs, disk, losses>>

-----------------------------------------------------------------------------
(* Starting jobs.  A list is [tracks, toPreload, jobs], which the helpers  *)
(* turn into the next one.                                                 *)

(* checkToPreloadTrack; a track whose cache file has gone missing is put   *)
(* on the list again.                                                      *)
CheckToPreload(list, entry) ==
    LET id == entry.queueID
        known == id \in DOMAIN list.tracks
        missing == known /\ list.tracks[id] = "Preloaded" /\ id \notin disk
    IN  IF IsTrack(entry) /\ (~ known \/ missing)
        THEN [list EXCEPT !.tracks = With(@, id, "Initial"),
                          !.toPreload = Append(@, id)]
        ELSE list

(* The same for several entries, one after the other.                      *)
CheckAll(list, entries) ==
    LET after[k \in 0..Len(entries)] ==
            IF k = 0 THEN list ELSE CheckToPreload(after[k - 1], entries[k])
    IN  after[Len(entries)]

(* Mistake: an entry is taken from the list before it is clear that there  *)
(* is room for one more job.                                               *)
StartNextJobTooMany(list) ==
    IF list.toPreload = << >>
    THEN list
    ELSE LET id == Head(list.toPreload)
             room == Cardinality(DOMAIN list.jobs) < MaxJobs
         IN  [tracks |-> IF room THEN With(list.tracks, id, "Processing")
                                 ELSE list.tracks,
              toPreload |-> Tail(list.toPreload),
              jobs |-> IF room THEN With(list.jobs, id, "running") ELSE list.jobs]

(* One iteration of the loop of checkForJobsToStart.                       *)
StartNextJob(list) ==
    IF list.toPreload = << >> \/ Cardinality(DOMAIN list.jobs) >= MaxJobs
    THEN list
    ELSE LET id == Head(list.toPreload)
             rest == Tail(list.toPreload)
         IN  IF id \notin DOMAIN list.tracks \/ list.tracks[id] # "Initial"
             THEN [list EXCEPT !.toPreload = rest]
             ELSE [tracks |-> With(list.tracks, id, "Processing"),
                   toPreload |-> rest,
                   jobs |-> With(list.jobs, id, "running")]

CheckForJobsToStart(list) ==
    \E after \in {Iterate(StartNextJob, JobIterations, list)} :
        /\ tracks' = after.tracks
        /\ tracksToPreload' = after.toPreload
        /\ jobs' = after.jobs

List == [tracks |-> tracks, toPreload |-> tracksToPreload, jobs |-> jobs]

CheckFirstTrack ==
    /\ "firstTrack" \in timers
    /\ timers' = timers \ {"firstTrack"}
    /\ IF firstTrackIndex < 0
       THEN UNCHANGED <<tracks, tracksToPreload, jobs>>
       ELSE CheckForJobsToStart(CheckToPreload(List, queue[firstTrackIndex + 1]))
    /\ UNCHANGED <<queueVars, tracksRemoved, locks, disk, losses>>

CheckForTracksToPreload ==
    /\ "preload" \in timers
    /\ timers' = timers \ {"preload"}
    /\ LET front == SubSeq(queue, 1, Min({Len(queue), PreloadRange}))
       IN  CheckForJobsToStart(CheckAll(List, front))
    /\ UNCHANGED <<queueVars, tracksRemoved, locks, disk, losses>>

-----------------------------------------------------------------------------
(* The jobs.                                                               *)

(* runPreload, on a thread of the pool: it fails, also when there is a     *)
(* file of that name already, or it leaves a cache file behind.            *)
JobEnds(id) ==
    /\ jobs[id] = "running"
    /\ \/ /\ jobs' = With(jobs, id, "failed")
          /\ UNCHANGED disk
       \/ /\ id \notin disk
          /\ jobs' = With(jobs, id, "written")
          /\ disk' = disk \cup {id}
    /\ UNCHANGED <<queueVars, tracks, tracksToPreload, tracksRemoved, locks,
                   timers, losses>>

PreloadFailed(id) ==
    /\ jobs[id] = "failed"
    /\ LET failed == IF id \in Known THEN With(tracks, id, "Failed") ELSE tracks
       IN  CheckForJobsToStart([List EXCEPT !.tracks = failed,
                                            !.jobs = Without(@, id)])
    /\ UNCHANGED <<queueVars, tracksRemoved, locks, timers, disk, losses>>

(* A cache file whose track is gone is discarded.                          *)
PreloadFinished(id) ==
    /\ jobs[id] = "written"
    /\ LET loaded == IF id \in Known THEN With(tracks, id, "Preloaded") ELSE tracks
       IN  CheckForJobsToStart([List EXCEPT !.tracks = loaded,
                                            !.jobs = Without(@, id)])
    /\ disk' = IF id \in Known THEN disk ELSE disk \ {id}
    /\ timers' = timers \cup {"expiration"}
    /\ UNCHANGED <<queueVars, tracksRemoved, locks, losses>>

-----------------------------------------------------------------------------
(* Deleting what is no longer needed.                                      *)

(* Mistake: a file may be deleted while it is locked.                      *)
BlockedByJob(state, id) ==
    id \in DOMAIN state.tracks /\ state.tracks[id] = "Processing"

Blocked(state, id) ==
    \/ Locked(id)
    \/ id \in DOMAIN state.tracks /\ state.tracks[id] = "Processing"

(* The track is deleted, and its cache file with it.                       *)
CleanedUp(state, id) ==
    [state EXCEPT !.tracks = Without(@, id),
                  !.disk = IF id \in DOMAIN state.tracks THEN @ \ {id} ELSE @]

(* One iteration of checkForCacheExpiration, on [i, removed, tracks, disk] *)
(* where i is the index reached in the list.  Deleting the file fails when *)
(* it does not exist; the track then goes to the end of the list.          *)
ExpireNext(state) ==
    IF state.i >= Len(state.removed)
    THEN state
    ELSE LET id == state.removed[state.i + 1]
             preloaded == id \in DOMAIN state.tracks /\ state.tracks[id] = "Preloaded"
             others == RemoveAt(state.removed, state.i + 1)
         IN  IF Blocked(state, id)
             THEN [state EXCEPT !.i = @ + 1]
             ELSE IF preloaded /\ id \notin state.disk
             THEN [state EXCEPT !.removed = Append(others, id)]
             ELSE CleanedUp([state EXCEPT !.removed = others], id)

CheckForCacheExpiration ==
    /\ "expiration" \in timers
    /\ timers' = timers \ {"expiration"}
    /\ \E after \in {Iterate(ExpireNext, ExpirationLimit,
                            [i |-> 0, removed |-> tracksRemoved,
                             tracks |-> tracks, disk |-> disk])} :
          /\ tracksRemoved' = after.removed
          /\ tracks' = after.tracks
          /\ disk' = after.disk
    /\ UNCHANGED <<queueVars, tracksToPreload, locks, jobs, losses>>

-----------------------------------------------------------------------------
(* The player, and the world outside.                                      *)

(* getPreloadedCacheFile, for a track that is the first of the queue or    *)
(* has just been taken from it.                                            *)
GetPreloadedCacheFile(id) ==
    /\ id = firstTrackQueueId \/ id \in Dequeued
    /\ id \in Known /\ tracks[id] = "Preloaded"
    /\ \/ /\ id \in disk
          /\ SumFunction(locks) < MaxLocks
          /\ locks' = [locks EXCEPT ![id] = @ + 1]
          /\ UNCHANGED tracks
       \/ /\ id \notin disk
          /\ tracks' = Without(tracks, id)
          /\ UNCHANGED locks
    /\ UNCHANGED <<queueVars, tracksToPreload, tracksRemoved, timers, jobs,
                   disk, losses>>

(* The PreloadedFile of an instance goes away.                             *)
DoUnlock(id) ==
    /\ Locked(id)
    /\ locks' = [locks EXCEPT ![id] = @ - 1]
    /\ timers' = IF locks[id] = 1 THEN timers \cup {"expiration"} ELSE timers
    /\ UNCHANGED <<queueVars, tracks, tracksToPreload, tracksRemoved, jobs,
                   disk, losses>>

(* Somebody cleans up the directory of temporary files.                    *)
FileIsLost(id) ==
    /\ id \in disk
    /\ losses < MaxFileLosses
    /\ losses' = losses + 1
    /\ disk' = disk \ {id}
    /\ UNCHANGED <<queueVars, tracks, tracksToPreload, tracksRemoved, locks,
                   timers, jobs>>

-----------------------------------------------------------------------------
PreloaderInit ==
    /\ QueueInit
    /\ tracks = << >>
    /\ tracksToPreload = << >>
    /\ tracksRemoved = << >>
    /\ locks = [id \in Ids |-> 0]
    /\ timers = {"preload"}
    /\ jobs = << >>
    /\ disk = {}
    /\ losses = 0

JobStep(id) ==
    /\ id \in DOMAIN jobs
    /\ JobEnds(id) \/ PreloadFailed(id) \/ PreloadFinished(id)

PreloaderNext ==
    \/ QueueTells
    \/ CheckFirstTrack
    \/ CheckForTracksToPreload
    \/ CheckForCacheExpiration
    \/ \E id \in Ids :
          \/ JobStep(id)
          \/ GetPreloadedCacheFile(id)
          \/ DoUnlock(id)
          \/ FileIsLost(id)

(* The timers of the checks fire, jobs end, and the event loop handles     *)
(* their results.                                                          *)
Fairness ==
    /\ WF_preloadingVars(CheckFirstTrack)
    /\ WF_preloadingVars(CheckForTracksToPreload)
    /\ \A id \in Ids : WF_preloadingVars(JobStep(id))

PreloaderSpec == PreloaderInit /\ [][PreloaderNext]_preloadingVars

PreloaderFairSpec == PreloaderSpec /\ Fairness

-----------------------------------------------------------------------------
(* Properties.                                                             *)

(* Every variable has its type.                                            *)
PreloaderTypeOK ==
    /\ Known \subseteq Ids /\ \A id \in Known : tracks[id] \in Status
    /\ tracksToPreload \in Seq(Ids)
    /\ tracksRemoved \in Seq(Ids)
    /\ locks \in [Ids -> 0..MaxLocks]
    /\ timers \subseteq {"firstTrack", "preload", "expiration"}
    /\ DOMAIN jobs \subseteq Ids
    /\ \A id \in DOMAIN jobs : jobs[id] \in {"running", "written", "failed"}
    /\ disk \subseteq Ids
    /\ losses \in 0..MaxFileLosses

(* Every track that the preloader remembers is looked after: it is in the  *)
(* queue, or on the list of what has been removed from it, so that nothing *)
(* is kept for ever; and it is being processed just as long as its job     *)
(* runs, which never finds its track gone or replaced when its result      *)
(* comes in.  No more jobs run than are meant to.                          *)
TracksAreLookedAfter ==
    /\ Known \subseteq InQueue \cup ToSet(tracksRemoved)
    /\ DOMAIN jobs = {id \in Known : tracks[id] = "Processing"}
    /\ Cardinality(DOMAIN jobs) <= MaxJobs

(* The preloader does not delete a file that a player instance uses.       *)
LockedFilesStay ==
    [][(\E id \in Ids : FileIsLost(id))
       \/ \A id \in disk : Locked(id) => id \in disk']_preloadingVars

(* checkForJobsToStart gave up at its iteration limit: nothing is running, *)
(* and what is on the list waits for the next change of the queue.         *)
Stalled == jobs = << >> /\ tracksToPreload # << >>

(* A track near the front of the queue is preloaded, or at least tried, if *)
(* it stays near the front, the list does not stall, and no file is lost   *)
(* from the cache.                                                         *)
AtFront(id) ==
    \E i \in 1..Min({Len(queue), PreloadRange}) :
        queue[i].queueID = id /\ IsTrack(queue[i])

FrontIsPreloaded ==
    \A id \in Ids :
        AtFront(id) ~> \/ ~ AtFront(id)
                       \/ id \in Known /\ tracks[id] \in {"Preloaded", "Failed"}
                       \/ Stalled \/ losses > 0
=============================================================================
