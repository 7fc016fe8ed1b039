---------------------------- MODULE StatsCache ----------------------------
(***************************************************************************)
(* The statistics of tracks and the cache of them in the database          *)
(* (src/server/historystatistics.cpp, userhashstatscache.cpp,              *)
(* userhashstatscachefixer.cpp, hashrelations.cpp and the queries of       *)
(* database.cpp that they use), for one user.                              *)
(*                                                                         *)
(* The history in the database is the truth.  The statistics of a hash are *)
(* derived from it and are kept in a table of the database, in a cache in  *)
(* memory, and, combined for the group of equivalent hashes, in the group  *)
(* statistics that are handed out.  A value in the database, called the    *)
(* watermark here, is the history ID up to which the table is known to be  *)
(* correct; after a restart the fixer drops the table entries of what was  *)
(* played after it.  Tasks run in thread pools, one database query or one  *)
(* locked section at a time.                                               *)
(*                                                                         *)
(* Groups grow when a file is found to have several hashes, and are kept in*)
(* the database as well, from which they are loaded after the server has   *)
(* been started.                                                           *)
(*                                                                         *)
(* Statistics are abstracted to the ID of the last history entry that went *)
(* into them (lastHistoryId, zero for a hash that was never played).       *)
(***************************************************************************)
EXTENDS Naturals, Sequences, FiniteSets, FiniteSetsExt

CONSTANTS
    Hashes,              \* hash IDs
    FirstEquivalences,   \* the sets of pairs of equivalent hashes to start with
    PublicUser,          \* whether the user is the public one, with ID zero
    FixerBatch,          \* history entries the fixer takes at a time (10)
    MaxRunning,          \* tasks that are being executed at the same time
    Slots,               \* tasks that are waiting or being executed
    MaxHistory,          \* bound on the history
    MaxCrashes,          \* bound on the crashes and restarts
    MaxFailures,         \* bound on the database queries that fail
    TroubleWhileFixing,  \* restarts and failing tasks also while the fixer works
    MaxMerges,           \* bound on the discoveries that hashes are equivalent
    MergeWhileFetching,  \* such a discovery also while the statistics of one of the
                         \* groups are being fetched
    RequestsWhileLoading \* statistics are needed before the equivalences are loaded

ASSUME StatsConstants ==
    /\ FirstEquivalences \subseteq SUBSET kSubset(2, Hashes)
    /\ {PublicUser, TroubleWhileFixing, MergeWhileFetching, RequestsWhileLoading}
          \subseteq BOOLEAN
    /\ MaxMerges \in Nat
    /\ FixerBatch \in Nat \ {0} /\ MaxRunning \in Nat
    /\ MaxHistory \in Nat /\ MaxCrashes \in Nat /\ MaxFailures \in Nat

VARIABLES
    history,             \* pmp_history: the hash of each entry, by history ID
    watermark,           \* pmp_misc: UserHashStatsCacheHistoryId
    rows,                \* pmp_userhashstatscache: the entry of each hash
    memory,              \* UserHashStatsCache
    groupStats,          \* _userData[user].hashData
    inProgress,          \* _userData[user].hashesInProgress
    tasks,               \* the tasks in the thread pools
    fixer,               \* UserHashStatsCacheFixer
    relations,           \* HashRelations: for each hash the hashes it is equivalent to
    equivalences,        \* pmp_equivalence: pairs of hashes
    merging,             \* the hashes whose group statistics have to be invalidated
                         \* before the event loop goes on
    crashes, failures,   \* what has gone wrong so far
    merges,              \* discoveries so far
    unwritten            \* for the property: hashes whose last write to the table
                         \* has failed, unnoticed

database == <<history, watermark, rows, unwritten>>
groupVars == <<relations, equivalences, merging, merges>>
vars == <<database, memory, groupStats, inProgress, tasks, fixer, crashes,
          failures, groupVars>>

None == MaxHistory + 1

LastId(hash) == Max({0} \cup {i \in DOMAIN history : history[i] = hash})

Newest(ids) == Max({ids[h] : h \in DOMAIN ids})

Idle == [kind |-> "idle"]

(* getEquivalencyGroup                                                     *)
Group(hash) == relations[hash]

(* A task: what it is for, its next step, the group of its hash as soon as *)
(* it has asked for it, the statistics it has collected, and the hashes of *)
(* those that it still has to store.                                       *)
NewTask(kind, hash, group) ==
    [kind |-> kind, hash |-> hash, step |-> "queued", id |-> 0, group |-> group,
     got |-> [h \in {} |-> 0], unstored |-> {}]

NotAsked == {}

Busy == {s \in Slots : tasks[s] # Idle}
Free == Slots \ Busy
Running == {s \in Busy : tasks[s].step # "queued"}

At(s, step) == s \in Busy /\ tasks[s].step = step

FirstIdle(all) == Min({s \in Slots : all[s] = Idle})

Enqueued(task) == [tasks EXCEPT ![FirstIdle(tasks)] = task]

Continue(s, step) == tasks' = [tasks EXCEPT ![s].step = step]
End(s) == tasks' = [tasks EXCEPT ![s] = Idle]

Missing(s) == tasks[s].group \ DOMAIN tasks[s].got

(* The fixer is active until its invalidations have been executed, and so  *)
(* has the recording of what it has overtaken with the watermark.          *)
Fixing ==
    \/ fixer.state # "finished"
    \/ \E s \in Busy : \/ tasks[s].kind = "invalidate"
                      \/ tasks[s].id \in 1..watermark

TroubleAllowed == TroubleWhileFixing \/ ~ Fixing

-----------------------------------------------------------------------------
(* The tasks.                                                              *)

ToBeInserted ==
    {s \in Busy : tasks[s].kind = "add" /\ tasks[s].step \in {"queued", "insert"}}

(* The event loop is free, and has loaded what it needs.                   *)
ServerIsReady ==
    merging = {} /\ (fixer.state # "loading" \/ RequestsWhileLoading)

AddToHistory(hash) ==
    /\ ServerIsReady
    /\ Free # {}
    /\ Len(history) + Cardinality(ToBeInserted) < MaxHistory
    /\ tasks' = Enqueued(NewTask("add", hash, NotAsked))
    /\ UNCHANGED <<database, memory, groupStats, inProgress,
                   fixer, crashes, failures, groupVars>>

(* getStatsIfAvailable, and scheduleFetchIfMissing: a fetch is only        *)
(* started for a hash without group statistics and without a fetch.        *)
GetStats(hash) ==
    /\ ServerIsReady
    /\ groupStats[hash] = None
    /\ hash \notin inProgress
    /\ Free # {}
    /\ inProgress' = inProgress \cup Group(hash)
    /\ tasks' = Enqueued(NewTask("fetch", hash, Group(hash)))
    /\ UNCHANGED <<database, memory, groupStats, fixer, crashes,
                   failures, groupVars>>

FirstStep ==
    [add |-> "insert", invalidate |-> "delete", fetch |-> "memory", equate |-> "register"]

Begin(s) ==
    /\ At(s, "queued")
    /\ Cardinality(Running) < MaxRunning
    /\ Continue(s, FirstStep[tasks[s].kind])
    /\ UNCHANGED <<database, memory, groupStats, inProgress,
                   fixer, crashes, failures, groupVars>>

InsertIntoHistory(s) ==
    /\ At(s, "insert")
    /\ history' = Append(history, tasks[s].hash)
    /\ tasks' = [tasks EXCEPT ![s].step = "relate", ![s].id = Len(history')]
    /\ UNCHANGED <<watermark, rows, unwritten, memory, groupStats, inProgress, fixer,
                   crashes, failures, groupVars>>

(* Mistake: the entry is left in the table.                                *)
RowAfterDeleteKept(hash) == rows[hash]

(* removeUserHashStatsCacheEntry compares the user ID with zero for the    *)
(* public user, whose rows have NULL there.                                *)
RowAfterDelete(hash) == IF PublicUser THEN rows[hash] ELSE None

DeleteRow(s) ==
    /\ At(s, "delete")
    /\ rows' = [rows EXCEPT ![tasks[s].hash] = RowAfterDelete(tasks[s].hash)]
    /\ unwritten' = {h \in unwritten : rows'[h] # None}
    /\ Continue(s, "forget")
    /\ UNCHANGED <<history, watermark, memory, groupStats, inProgress, fixer,
                   crashes, failures, groupVars>>

MemoryAfterForget(hash) == None

Forget(s) ==
    /\ At(s, "forget")
    /\ memory' = [memory EXCEPT ![tasks[s].hash] = MemoryAfterForget(tasks[s].hash)]
    /\ Continue(s, "relate")
    /\ UNCHANGED <<database, groupStats, inProgress, fixer,
                   crashes, failures, groupVars>>

(* What has been added to the history is read again, the rest only if it is *)
(* not in a cache.                                                         *)
AskForGroup(s) ==
    /\ At(s, "relate")
    /\ tasks' = [tasks EXCEPT ![s].group = Group(tasks[s].hash),
                     ![s].step = IF tasks[s].kind = "add" THEN "history" ELSE "memory"]
    /\ UNCHANGED <<database, memory, groupStats, inProgress, fixer,
                   crashes, failures, groupVars>>

(* The steps of fetchIndividualStats: first the cache in memory, then the  *)
(* table, then the history, each for the hashes that are still missing.    *)

WithFound(s, source, found) ==
    [h \in DOMAIN tasks[s].got \cup found |->
        IF h \in found THEN source[h] ELSE tasks[s].got[h]]

LookUpMemory(s) ==
    /\ At(s, "memory")
    /\ LET found == {h \in tasks[s].group : memory[h] # None}
           complete == found = tasks[s].group
       IN  tasks' = [tasks EXCEPT ![s].got = WithFound(s, memory, found),
                         ![s].step = IF complete THEN "group" ELSE "table"]
    /\ UNCHANGED <<database, memory, groupStats, inProgress,
                   fixer, crashes, failures, groupVars>>

ReadTable(s) ==
    /\ At(s, "table")
    /\ LET found == {h \in Missing(s) : rows[h] # None}
       IN  tasks' = [tasks EXCEPT ![s].got = WithFound(s, rows, found),
                                  ![s].unstored = found,
                                  ![s].step = "keep"]
    /\ UNCHANGED <<database, memory, groupStats, inProgress,
                   fixer, crashes, failures, groupVars>>

KeepInMemory(s) ==
    /\ At(s, "keep")
    /\ memory' = [h \in Hashes |->
                     IF h \in tasks[s].unstored THEN tasks[s].got[h] ELSE memory[h]]
    /\ tasks' = [tasks EXCEPT ![s].unstored = {},
                     ![s].step = IF Missing(s) = {} THEN "group" ELSE "history"]
    /\ UNCHANGED <<database, groupStats, inProgress, fixer,
                   crashes, failures, groupVars>>

ReadHistory(s) ==
    /\ At(s, "history")
    /\ LET lastIds == [h \in Hashes |-> LastId(h)]
       IN  tasks' = [tasks EXCEPT ![s].got = WithFound(s, lastIds, Missing(s)),
                                  ![s].unstored = Missing(s),
                                  ![s].step = "store"]
    /\ UNCHANGED <<database, memory, groupStats, inProgress,
                   fixer, crashes, failures, groupVars>>

(* updateUserHashStatsCacheEntry                                           *)
WriteRow(hash, value) ==
    /\ rows' = [rows EXCEPT ![hash] = value]
    /\ unwritten' = unwritten \ {hash}
    /\ UNCHANGED failures

(* The row stays as it was.                                                *)
WriteRowFails(hash) ==
    /\ failures < MaxFailures /\ TroubleAllowed
    /\ failures' = failures + 1
    /\ unwritten' = unwritten \cup {hash}
    /\ UNCHANGED rows

(* The statistics of one hash go to the memory and to the table.  That the *)
(* latter fails is ignored: the task goes on, to the watermark in the end. *)
Store(s) ==
    /\ At(s, "store")
    /\ \E h \in tasks[s].unstored :
        /\ memory' = [memory EXCEPT ![h] = tasks[s].got[h]]
        /\ WriteRow(h, tasks[s].got[h]) \/ WriteRowFails(h)
        /\ LET rest == tasks[s].unstored \ {h}
           IN  tasks' = [tasks EXCEPT ![s].unstored = rest,
                             ![s].step = IF rest = {} THEN "group" ELSE "store"]
    /\ UNCHANGED <<history, watermark, groupStats, inProgress, fixer, crashes,
                   groupVars>>

NotFetchedAnymore(hashes) == inProgress \ hashes

RecalculateGroupStats(s) ==
    /\ At(s, "group")
    /\ LET group == tasks[s].group
       IN  /\ groupStats' = [h \in Hashes |-> IF h \in group
                                              THEN Newest(tasks[s].got)
                                              ELSE groupStats[h]]
           /\ inProgress' = NotFetchedAnymore(group)
    /\ IF tasks[s].kind = "add" THEN Continue(s, "watermark") ELSE End(s)
    /\ UNCHANGED <<database, memory, fixer, crashes, failures, groupVars>>

(* updateMiscDataValueFromSpecific: not an error if the value is another.  *)
UpdatedFrom(old, new) == IF watermark = old THEN new ELSE watermark

AdvanceWatermark(s) ==
    /\ At(s, "watermark")
    /\ watermark' = UpdatedFrom(tasks[s].id - 1, tasks[s].id)
    /\ End(s)
    /\ UNCHANGED <<history, rows, unwritten, memory, groupStats, inProgress, fixer, crashes,
                   failures, groupVars>>

RegisterEquivalence(s) ==
    /\ At(s, "register")
    /\ equivalences' = equivalences \cup {tasks[s].group}
    /\ End(s)
    /\ UNCHANGED <<database, memory, groupStats, inProgress, fixer, crashes, failures,
                   relations, merging, merges>>

TaskStep(s) ==
    \/ Begin(s)
    \/ InsertIntoHistory(s)
    \/ DeleteRow(s)
    \/ Forget(s)
    \/ AskForGroup(s)
    \/ RegisterEquivalence(s)
    \/ LookUpMemory(s)
    \/ ReadTable(s)
    \/ KeepInMemory(s)
    \/ ReadHistory(s)
    \/ Store(s)
    \/ RecalculateGroupStats(s)
    \/ AdvanceWatermark(s)

-----------------------------------------------------------------------------
(* Groups.                                                                 *)

(* markAsEquivalent                                                        *)
Merged(before, hashes) ==
    LET group == UNION {before[h] : h \in hashes}
    IN  [h \in Hashes |-> IF h \in group THEN group ELSE before[h]]

(* A task has asked for one of these groups and has not come to its end.   *)
IsFetched(hashes) ==
    \E s \in Busy : tasks[s].group \cap UNION {Group(h) : h \in hashes} # {}

AreEquivalent(hashes) == \E h \in hashes : hashes \subseteq Group(h)

MarkHashesAsEquivalent(hashes) ==
    /\ merging = {} /\ merges < MaxMerges
    /\ ~ AreEquivalent(hashes)
    /\ MergeWhileFetching \/ ~ IsFetched(hashes)
    /\ relations' = Merged(relations, hashes)
    /\ merging' = hashes
    /\ merges' = merges + 1
    /\ UNCHANGED <<database, memory, groupStats, inProgress, tasks, fixer, crashes,
                   failures, equivalences>>

(* What is in memory is combined anew; if that is not everything, it is    *)
(* fetched, unless a fetch for the hash is going on.  Only users of whom    *)
(* statistics are or were asked for are concerned.                         *)
UserIsKnown == inProgress # {} \/ \E h \in Hashes : groupStats[h] # None

InvalidateAllGroupStatistics ==
    LET hash == CHOOSE h \in merging : TRUE
        group == Group(hash)
        complete == \A h \in group : memory[h] # None
        refetch == /\ ~ complete /\ hash \notin inProgress
                   /\ \E h \in group : groupStats[h] # None
        equate == NewTask("equate", hash, merging)
        all == Enqueued(equate)
    IN  /\ merging # {}
        /\ Cardinality(Free) > 1
        /\ groupStats' =
               [h \in Hashes |->
                   IF h \notin group \/ ~ UserIsKnown THEN groupStats[h]
                   ELSE IF complete THEN Newest([g \in group |-> memory[g]]) ELSE None]
        /\ inProgress' = IF refetch THEN inProgress \cup group ELSE inProgress
        /\ tasks' = IF refetch
                    THEN [all EXCEPT ![FirstIdle(all)] = NewTask("fetch", hash, group)]
                    ELSE all
        /\ merging' = {}
        /\ UNCHANGED <<database, memory, fixer, crashes, failures, relations,
                       equivalences, merges>>

-----------------------------------------------------------------------------
(* The fixer.  It has a state, the watermark it has read, the history ID   *)
(* up to which it wants to process, and the hashes that it has invalidated *)
(* since the server was started.                                           *)

FixerStart == [state |-> "loading", old |-> 0, upTo |-> 0, invalidated |-> {}]

(* Before the fixer is started, the groups are loaded.                     *)
LoadEquivalences ==
    /\ fixer.state = "loading"
    /\ relations' = FoldSet(LAMBDA pair, known : Merged(known, pair), relations, equivalences)
    /\ fixer' = [fixer EXCEPT !.state = "wait"]
    /\ UNCHANGED <<database, memory, groupStats, inProgress, tasks, crashes, failures,
                   equivalences, merging, merges>>

(* Mistake: the history entry at the watermark plus one is skipped.        *)
CaughtUpTooEarly == watermark + 1 >= Len(history)

CaughtUp == watermark >= Len(history)

EndOfBatch == Min({watermark + FixerBatch, Len(history)})

(* It first waits; a failure here makes it wait again.                     *)
DecideWhatToDo ==
    /\ fixer.state = "wait"
    /\ fixer' = [fixer EXCEPT
                    !.old = watermark,
                    !.upTo = EndOfBatch,
                    !.state = IF CaughtUp THEN "finished" ELSE "process"]
    /\ UNCHANGED <<database, memory, groupStats, inProgress, tasks, crashes,
                   failures, groupVars>>

ToInvalidate ==
    {history[i] : i \in (fixer.old + 1)..fixer.upTo} \ fixer.invalidated

ProcessHistory ==
    /\ fixer.state = "process"
    /\ Cardinality(ToInvalidate) <= Cardinality(Free)
    /\ tasks' = FoldSet(LAMBDA h, queued :
                            [queued EXCEPT ![FirstIdle(queued)] =
                                NewTask("invalidate", h, NotAsked)],
                        tasks, ToInvalidate)
    /\ fixer' = [fixer EXCEPT !.invalidated = @ \cup ToInvalidate,
                              !.state = "update"]
    /\ UNCHANGED <<database, memory, groupStats, inProgress, crashes, failures, groupVars>>

FixerUpdatesWatermark ==
    /\ fixer.state = "update"
    /\ watermark' = UpdatedFrom(fixer.old, fixer.upTo)
    /\ fixer' = [fixer EXCEPT !.state = "wait"]
    /\ UNCHANGED <<history, rows, unwritten, memory, groupStats, inProgress, tasks, crashes,
                   failures, groupVars>>

FixerStep ==
    \/ LoadEquivalences
    \/ DecideWhatToDo
    \/ ProcessHistory
    \/ FixerUpdatesWatermark

-----------------------------------------------------------------------------
(* What goes wrong.                                                        *)

(* A query fails, and the task with it (see WriteRowFails for the one      *)
(* whose failure does not end the task).                                   *)
TaskFails(s) ==
    /\ failures < MaxFailures /\ TroubleAllowed
    /\ \E step \in {"insert", "delete", "table", "history", "watermark", "register"} :
          At(s, step)
    /\ failures' = failures + 1
    /\ End(s)
    /\ UNCHANGED <<database, memory, groupStats, inProgress, fixer, crashes, groupVars>>

(* A query of the fixer fails: it waits before it tries again.  It is also *)
(* started when the groups could not be loaded.                            *)
FixerFails ==
    /\ failures < MaxFailures
    /\ fixer.state \in {"loading", "process", "update"}
    /\ failures' = failures + 1
    /\ fixer' = [fixer EXCEPT !.state = "wait"]
    /\ UNCHANGED <<database, memory, groupStats, inProgress, tasks, crashes, groupVars>>

(* The server stops or crashes, and starts again: only the database stays. *)
Restart ==
    /\ crashes < MaxCrashes /\ TroubleAllowed
    /\ crashes' = crashes + 1
    /\ memory' = [h \in Hashes |-> None]
    /\ groupStats' = [h \in Hashes |-> None]
    /\ inProgress' = {}
    /\ tasks' = [s \in Slots |-> Idle]
    /\ fixer' = FixerStart
    /\ relations' = [h \in Hashes |-> {h}]
    /\ merging' = {}
    /\ UNCHANGED <<database, failures, equivalences, merges>>

-----------------------------------------------------------------------------

Init ==
    /\ history = << >>
    /\ watermark = 0
    /\ rows = [h \in Hashes |-> None]
    /\ memory = [h \in Hashes |-> None]
    /\ groupStats = [h \in Hashes |-> None]
    /\ inProgress = {}
    /\ tasks = [s \in Slots |-> Idle]
    /\ fixer = FixerStart
    /\ relations = [h \in Hashes |-> {h}]
    /\ equivalences \in FirstEquivalences
    /\ merging = {}
    /\ crashes = 0 /\ failures = 0 /\ merges = 0
    /\ unwritten = {}

Next ==
    \/ \E h \in Hashes : AddToHistory(h) \/ GetStats(h)
    \/ \E s \in Slots : TaskStep(s) \/ TaskFails(s)
    \/ \E hashes \in kSubset(2, Hashes) : MarkHashesAsEquivalent(hashes)
    \/ InvalidateAllGroupStatistics
    \/ FixerStep
    \/ FixerFails
    \/ Restart

Spec == Init /\ [][Next]_vars

(* The thread pools execute what is in them, the timers of the fixer       *)
(* expire, and the event loop finishes what it has begun.                  *)
FairSpec ==
    /\ Spec
    /\ \A s \in Slots : WF_vars(TaskStep(s))
    /\ WF_vars(FixerStep) /\ WF_vars(InvalidateAllGroupStatistics)

-----------------------------------------------------------------------------
(* Correctness.                                                            *)

TypeOK ==
    /\ history \in UNION {[1..n -> Hashes] : n \in 0..MaxHistory}
    /\ watermark \in 0..Len(history)
    /\ \A values \in {rows, memory, groupStats} :
          \A h \in Hashes : values[h] \in 0..Len(history) \cup {None}
    /\ inProgress \cup unwritten \subseteq Hashes
    /\ \A s \in Busy : /\ tasks[s].kind \in DOMAIN FirstStep
                       /\ DOMAIN tasks[s].got \subseteq tasks[s].group
                       /\ tasks[s].group \subseteq Hashes
                       /\ tasks[s].unstored \subseteq DOMAIN tasks[s].got
    /\ \A h \in Hashes : /\ h \in Group(h) /\ Group(h) \subseteq Hashes
                         /\ \A g \in Group(h) : Group(g) = Group(h)
    /\ fixer.state \in {"loading", "wait", "process", "update", "finished"}
    /\ {fixer.old, fixer.upTo} \subseteq 0..Len(history)

(* A task that will replace the statistics of a hash has not done so yet.  *)
BeingRepaired(hash) ==
    \E s \in Busy : /\ \/ hash \in tasks[s].group
                       \/ tasks[s].group = NotAsked /\ hash \in Group(tasks[s].hash)
                    /\ tasks[s].kind \in {"add", "invalidate"}
                    /\ tasks[s].step # "watermark"

(* The watermark is low enough for the fixer to find the hash.             *)
WillBeFound(hash) == LastId(hash) > watermark

RowIsStale(hash) == rows[hash] \notin {None, LastId(hash)}

(* A row of the table that lacks the last time its hash was played gets    *)
(* replaced: a task that does it is on its way, or the history ID is above *)
(* the watermark, where the fixer finds it after the next start.  The one  *)
(* exception is a row whose last write has failed: nobody notices, and the *)
(* watermark goes past it.  The same holds for what is handed out to       *)
(* clients, statistics of a group that lack the last time one of its       *)
(* hashes was played, also right after two groups have become one; they    *)
(* can be derived from such a row after a restart, but not before, because *)
(* the memory was right.                                                   *)
StaleStatsGetRepaired ==
    \A h \in Hashes :
        /\ RowIsStale(h) => BeingRepaired(h) \/ WillBeFound(h) \/ h \in unwritten
        /\ groupStats[h] \notin {None, Max({LastId(g) : g \in Group(h)})} =>
              \E g \in Group(h) : \/ BeingRepaired(g) \/ WillBeFound(g)
                                  \/ g \in merging
                                  \/ g \in unwritten /\ crashes > 0

(* What the watermark promises the fixer, without the exception: the table *)
(* is right, or is being put right, for all that was played up to it.  The *)
(* code does not keep it.                                                  *)
TableIsRightUpToWatermark ==
    \A h \in Hashes : RowIsStale(h) => BeingRepaired(h) \/ WillBeFound(h)

(* After the last restart, everything in the table and everything that is  *)
(* handed out becomes and stays correct, if no query fails.                *)
EventuallyCorrect ==
    [](failures = 0) => <>[] \A h \in Hashes :
            /\ rows[h] \in {None, LastId(h)}
            /\ groupStats[h] \in {None, Max({LastId(g) : g \in Group(h)})}

=============================================================================
