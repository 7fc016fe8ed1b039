-------------------------- MODULE IndexationProofs --------------------------
(***************************************************************************)
(* Proofs about Indexation, for any number of files, hashes, indexations,  *)
(* searches and changes.  The argument: while nothing that is under way is *)
(* stale, and no file changes, a file that the worker or a search has come *)
(* across stays in hand until the server knows it.                         *)
(***************************************************************************)
EXTENDS Indexation, SequenceTheorems, TLAPS

Content == {NoFile} \cup [hash : Hashes, stamp : Nat]

AnalysisResult == [path : Paths, content : Content]

WorkerStates ==
    [does : {"nothing", "full indexation", "full indexation, not finished",
             "start removals", "removals", "quick scan", "quick scan, not finished"},
     left : SUBSET Paths]

FinderStates ==
    [step : {"none", "names", "sizes", "new"}, left : SUBSET Paths,
     fresh : SUBSET Paths, scanned : Nat, path : {0} \cup Paths,
     reading : Content \cup {NotReading}, undisturbed : BOOLEAN]

TypeInv ==
    /\ disk \in [Paths -> Content]
    /\ verified \in [Paths -> [content : Content, number : Nat]]
    /\ number \in Nat
    /\ fullStatus \in {"notRunning", "traversal", "waiting", "removals"}
    /\ scanStatus \in {"notRunning", "traversal", "waiting"}
    /\ worker \in WorkerStates
    /\ inProgress \in SUBSET Paths
    /\ pool \in Seq(Paths)
    /\ reading \in Content \cup {NotReading}
    /\ reading # NotReading => pool # << >>
    /\ results \in Seq(AnalysisResult)
    /\ registrations \in SUBSET AnalysisResult
    /\ searches \in Seq(Hashes \cup {Absent})
    /\ finder \in FinderStates
    /\ finder.reading # NotReading => finder.path \in Paths /\ finder.step # "none"
    /\ finder.step # "none" => searches # << >>
    /\ unfound \in SUBSET Paths
    /\ changes \in Nat
    /\ changed \in BOOLEAN /\ staleAtStart \in BOOLEAN
    /\ failed \in SUBSET Paths

(* The statuses tell what the worker does, and only one of them is used.   *)
StatusInv ==
    /\ fullStatus = "traversal" <=>
          worker.does \in {"full indexation", "full indexation, not finished"}
    /\ fullStatus = "removals" <=> worker.does \in {"start removals", "removals"}
    /\ scanStatus = "traversal" <=>
          worker.does \in {"quick scan", "quick scan, not finished"}
    /\ fullStatus = "notRunning" \/ scanStatus = "notRunning"

(* A file in progress is in the queue of the analyzer, or its result has   *)
(* not been handled yet.                                                   *)
HasJob(p) == p \in ToSet(pool) \/ \E r \in ToSet(results) : r.path = p

JobInv == \A p \in inProgress : HasJob(p)

(* What is on disk now is going to be known, or is known.                  *)
OnItsWay(p) ==
    \/ p \in ToSet(pool)
    \/ \E r \in ToSet(results) \cup registrations : r.path = p /\ r.content = disk[p]
    \/ verified[p].content = disk[p]

(* No more can be said of a file with a failure.                           *)
InHand(p) == OnItsWay(p) \/ p \in failed

(* What is under way is true of the disk; a file in progress is in hand.   *)
(* This is kept by every step but a change of a file.                      *)
Truthful ==
    /\ reading # NotReading => reading = disk[Head(pool)]
    /\ \A r \in ToSet(results) : r.content \in {NoFile, disk[r.path]}
    /\ \A r \in registrations : r.content = disk[r.path]
    /\ \A p \in inProgress : disk[p] # NoFile => InHand(p)

Undisturbed == ~ changed /\ ~ staleAtStart

TruthInv == Undisturbed \/ finder.undisturbed \/ unfound # {} => Truthful

(* No path was seen by an indexation that has not begun.                   *)
NumberInv == \A p \in Paths : verified[p].number <= number

(* An indexation that is not disturbed: what it has seen is true, what is  *)
(* not true is going to be checked, and what it has passed is in hand.     *)
IndexationInv ==
    Undisturbed => \A p \in Paths :
        /\ verified[p].number = number => verified[p].content \in {NoFile, disk[p]}
        /\ verified[p].content \notin {NoFile, disk[p]} =>
              \/ fullStatus \in {"traversal", "waiting"}
              \/ worker.does = "start removals"
              \/ worker.does = "removals" /\ p \in worker.left
        /\ disk[p] # NoFile =>
              InHand(p) \/ (worker.does = "full indexation" /\ p \in worker.left)

(* A search that is not disturbed: the new files exist, and those it has   *)
(* passed are in hand, or it is just analyzing them.                       *)
SearchInv ==
    /\ finder.undisturbed => \A p \in finder.fresh :
          /\ disk[p] # NoFile
          /\ finder.step = "new" =>
                \/ p \in finder.left \/ InHand(p)
                \/ finder.path = p /\ finder.reading = disk[p]
    /\ \A p \in unfound : disk[p] # NoFile /\ InHand(p)

IInv == /\ TypeInv /\ StatusInv /\ JobInv /\ TruthInv /\ NumberInv /\ IndexationInv
        /\ SearchInv

-----------------------------------------------------------------------------
(* Sequences: what is in them after an element was added or taken.         *)

LEMMA AppendedTo ==
    ASSUME NEW S, NEW s \in Seq(S), NEW e \in S
    PROVE  /\ Append(s, e) \in Seq(S) /\ Append(s, e) # << >>
           /\ ToSet(Append(s, e)) = ToSet(s) \cup {e}
           /\ s # << >> => Head(Append(s, e)) = Head(s)
<1>1. /\ Append(s, e) \in Seq(S) /\ Len(Append(s, e)) = Len(s) + 1
      /\ \A i \in 1..Len(s) : Append(s, e)[i] = s[i]
      /\ Append(s, e)[Len(s) + 1] = e
  BY AppendProperties
<1>2. Append(s, e) # << >>
  BY <1>1
<1>3. ToSet(Append(s, e)) = ToSet(s) \cup {e}
  <2>1. /\ DOMAIN s = 1..Len(s) /\ DOMAIN Append(s, e) = 1..(Len(s) + 1)
        /\ Len(s) \in Nat
    BY <1>1
  <2>2. ASSUME NEW x \in ToSet(Append(s, e))  PROVE x \in ToSet(s) \cup {e}
    BY <1>1, <2>1, <2>2 DEF ToSet
  <2>3. ASSUME NEW x \in ToSet(s) \cup {e}  PROVE x \in ToSet(Append(s, e))
    BY <1>1, <2>1, <2>3 DEF ToSet
  <2>4. QED  BY <2>2, <2>3
<1>4. s # << >> => Head(Append(s, e)) = Head(s)
  BY <1>1
<1>5. QED  BY <1>1, <1>2, <1>3, <1>4

LEMMA TakenFrom ==
    ASSUME NEW S, NEW s \in Seq(S), s # << >>
    PROVE  /\ Head(s) \in S /\ Tail(s) \in Seq(S)
           /\ ToSet(s) = ToSet(Tail(s)) \cup {Head(s)}
<1>1. /\ Head(s) = s[1] /\ Len(s) \in Nat \ {0} /\ DOMAIN s = 1..Len(s)
      /\ Head(s) \in S /\ Tail(s) \in Seq(S) /\ Len(Tail(s)) = Len(s) - 1
      /\ \A i \in 1..Len(Tail(s)) : Tail(s)[i] = s[i + 1]
  BY HeadTailProperties, EmptySeq
<1>2. DOMAIN Tail(s) = 1..(Len(s) - 1)
  BY <1>1
<1>3. ASSUME NEW x \in ToSet(s)  PROVE x \in ToSet(Tail(s)) \cup {Head(s)}
  <2>1. PICK i \in 1..Len(s) : x = s[i]
    BY <1>1, <1>3 DEF ToSet
  <2>2. CASE i = 1
    BY <1>1, <2>1, <2>2
  <2>3. CASE i # 1
    <3>1. i - 1 \in 1..(Len(s) - 1) /\ Tail(s)[i - 1] = x
      BY <1>1, <2>1, <2>3
    <3>2. QED  BY <1>2, <3>1 DEF ToSet
  <2>4. QED  BY <2>2, <2>3
<1>4. ASSUME NEW x \in ToSet(Tail(s)) \cup {Head(s)}  PROVE x \in ToSet(s)
  BY <1>1, <1>2, <1>4 DEF ToSet
<1>5. QED  BY <1>1, <1>3, <1>4

LEMMA InSequence ==
    ASSUME NEW S, NEW s \in Seq(S)
    PROVE  ToSet(s) \subseteq S /\ (s # << >> => Head(s) \in ToSet(s)) /\ ToSet(<< >>) = {}
BY TakenFrom, EmptySeq DEF ToSet

(* enqueueFile: what is in progress or in the queue stays there, and so is *)
(* the path then.                                                          *)
LEMMA EnqueuedIsThere ==
    ASSUME NEW path \in Paths, NEW progress \in SUBSET Paths, NEW queue \in Seq(Paths)
    PROVE  /\ Enqueued(path, progress, queue).inProgress = progress \cup {path}
           /\ Enqueued(path, progress, queue).pool \in Seq(Paths)
           /\ path \notin progress => path \in ToSet(Enqueued(path, progress, queue).pool)
           /\ ToSet(queue) \subseteq ToSet(Enqueued(path, progress, queue).pool)
<1>1. CASE path \in progress
  BY <1>1 DEF Enqueued
<1>2. CASE path \notin progress
  <2>1. /\ Enqueued(path, progress, queue).inProgress = progress \cup {path}
        /\ Enqueued(path, progress, queue).pool = Append(queue, path)
    BY <1>2 DEF Enqueued
  <2>2. QED  BY <1>2, <2>1, AppendedTo
<1>3. QED  BY <1>1, <1>2

-----------------------------------------------------------------------------
(* What a step does that changes no file.                                  *)
Carried ==
    /\ disk' = disk
    /\ Truthful =>
          /\ Truthful'
          /\ \A p \in Paths : disk[p] # NoFile /\ InHand(p) => InHand(p)'

(* Then searches are not affected,                                         *)
LEMMA SearchGoesOn ==
    ASSUME IInv, Carried, UNCHANGED <<finder, unfound>>,
           Undisturbed' => Undisturbed \/ Truthful
    PROVE  TruthInv' /\ SearchInv'
<1>1. TruthInv'
  BY DEF IInv, Carried, TruthInv
<1>2. SearchInv'
  <2>1. ASSUME finder.undisturbed, NEW p \in finder.fresh
        PROVE  /\ disk[p] # NoFile
               /\ finder.step = "new" =>
                     \/ p \in finder.left \/ InHand(p)'
                     \/ finder.path = p /\ finder.reading = disk[p]
    <3>1. p \in Paths
      BY <2>1 DEF IInv, TypeInv, FinderStates
    <3>2. QED  BY <2>1, <3>1 DEF IInv, Carried, TruthInv, SearchInv
  <2>2. ASSUME NEW p \in unfound  PROVE disk[p] # NoFile /\ InHand(p)'
    BY <2>2 DEF IInv, Carried, TypeInv, TruthInv, SearchInv
  <2>3. disk' = disk
    BY DEF Carried
  <2>4. QED  BY <2>1, <2>2, <2>3 DEF SearchInv
<1>3. QED  BY <1>1, <1>2

(* nor is an indexation if the worker does not go on.                      *)
LEMMA IndexationGoesOn ==
    ASSUME IInv, Carried,
           UNCHANGED <<verified, number, fullStatus, worker, changed, staleAtStart>>
    PROVE  IndexationInv'
<1>1. Undisturbed' <=> Undisturbed
  BY DEF Undisturbed
<1>2. SUFFICES ASSUME Undisturbed, NEW p \in Paths
               PROVE  disk[p] # NoFile =>
                         InHand(p)' \/ (worker.does = "full indexation" /\ p \in worker.left)
  BY <1>1 DEF IInv, Carried, IndexationInv
<1>3. QED  BY <1>2 DEF IInv, Carried, TruthInv, IndexationInv

(* A step that leaves the analyzer and the knowledge about files alone.    *)
LEMMA NothingMoves ==
    ASSUME UNCHANGED <<disk, verified, inProgress, pool, reading, results, registrations,
                       failed>>
    PROVE  Carried /\ (JobInv => JobInv') /\ \A p \in Paths : InHand(p)' <=> InHand(p)
BY DEF Carried, Truthful, InHand, OnItsWay, JobInv, HasJob

-----------------------------------------------------------------------------
(* The worker.                                                             *)

(* A traversal comes across a path, and hands it to the analyzer if it is  *)
(* a file, so that its indexation may forget it.                           *)
LEMMA EnqueuedIsCarried ==
    ASSUME TypeInv, JobInv, NEW path \in Paths,
           inProgress' = Enqueued(path, inProgress, pool).inProgress,
           pool' = Enqueued(path, inProgress, pool).pool,
           UNCHANGED <<disk, verified, reading, results, registrations, failed>>
    PROVE  /\ Carried /\ JobInv'
           /\ inProgress' \in SUBSET Paths /\ pool' \in Seq(Paths)
           /\ pool # << >> => pool' # << >>
           /\ Truthful /\ disk[path] # NoFile => InHand(path)'
<1>1. /\ inProgress' = inProgress \cup {path}
      /\ pool' \in Seq(Paths)
      /\ path \notin inProgress => path \in ToSet(pool')
      /\ ToSet(pool) \subseteq ToSet(pool')
      /\ pool # << >> => pool' # << >> /\ Head(pool') = Head(pool)
  <2>1. inProgress \in SUBSET Paths /\ pool \in Seq(Paths)
    BY DEF TypeInv
  <2>2. inProgress' = inProgress \cup {path}
    BY <2>1, EnqueuedIsThere
  <2>3. pool' \in Seq(Paths)
    BY <2>1, EnqueuedIsThere
  <2>4. path \notin inProgress => path \in ToSet(pool')
    BY <2>1, EnqueuedIsThere
  <2>5. ToSet(pool) \subseteq ToSet(pool')
    BY <2>1, EnqueuedIsThere
  <2>6. ASSUME pool # << >>  PROVE pool' # << >> /\ Head(pool') = Head(pool)
    <3>1. CASE path \in inProgress
      BY <2>6, <3>1 DEF Enqueued
    <3>2. CASE path \notin inProgress
      <4>1. pool' = Append(pool, path)
        BY <3>2 DEF Enqueued
      <4>2. QED  BY <2>1, <2>6, <4>1, AppendedTo
    <3>3. QED  BY <3>1, <3>2
  <2>7. QED  BY <2>2, <2>3, <2>4, <2>5, <2>6
<1>2. \A p \in Paths : InHand(p) => InHand(p)'
  BY <1>1 DEF InHand, OnItsWay
<1>3. ASSUME Truthful, disk[path] # NoFile  PROVE InHand(path)'
  BY <1>1, <1>2, <1>3 DEF Truthful, InHand, OnItsWay
<1>4. Truthful => Truthful'
  BY <1>1, <1>2, <1>3 DEF Truthful, TypeInv
<1>5. JobInv'
  BY <1>1 DEF JobInv, HasJob
<1>6. QED  BY <1>1, <1>2, <1>3, <1>4, <1>5 DEF Carried, TypeInv

LEMMA VisitKeeps ==
    ASSUME IInv, NEW path \in Paths, Visit(path)
    PROVE  IInv'
<1>. DEFINE after == IF Wanted(path) THEN Enqueued(path, inProgress, pool)
                     ELSE [inProgress |-> inProgress, pool |-> pool]
<1>1. /\ Traversing
      /\ worker' = [worker EXCEPT !.left = @ \ {path}]
      /\ inProgress' = after.inProgress /\ pool' = after.pool
      /\ UNCHANGED <<disk, resolverVars, fullStatus, scanStatus, reading, results,
                     pendingVars, finderVars, ghostVars>>
  BY DEF Visit
<1>2. worker' \in WorkerStates /\ worker'.does = worker.does /\ worker'.left = worker.left \ {path}
  BY <1>1, Zenon DEF IInv, TypeInv, WorkerStates
<1>3. /\ UNCHANGED <<disk, verified, locations, number, fullStatus, scanStatus, reading,
                     results, registrations, newLocations>>
      /\ UNCHANGED <<searches, finder, unfound, searched, changes, runs, changed,
                     staleAtStart, failed>>
  BY <1>1 DEF resolverVars, pendingVars, finderVars, ghostVars
<1>4. /\ Carried /\ JobInv'
      /\ inProgress' \in SUBSET Paths /\ pool' \in Seq(Paths)
      /\ pool # << >> => pool' # << >>
      /\ Truthful /\ disk[path] # NoFile /\ worker.does = "full indexation" => InHand(path)'
  <2>1. CASE Wanted(path)
    BY <1>1, <1>3, <2>1, EnqueuedIsCarried DEF IInv
  <2>2. CASE ~ Wanted(path)
    <3>1. inProgress' = inProgress /\ pool' = pool
      BY <1>1, <2>2
    <3>2. ~ (disk[path] # NoFile /\ worker.does = "full indexation")
      BY <2>2 DEF Wanted
    <3>3. QED  BY <1>3, <3>1, <3>2, NothingMoves DEF IInv, TypeInv
  <2>3. QED  BY <2>1, <2>2
<1>5. TypeInv'
  BY <1>2, <1>3, <1>4 DEF IInv, TypeInv
<1>6. StatusInv' /\ NumberInv'
  BY <1>2, <1>3 DEF IInv, StatusInv, NumberInv
<1>7. TruthInv' /\ SearchInv'
  BY <1>3, <1>4, SearchGoesOn DEF Undisturbed
<1>8. IndexationInv'
  <2>1. SUFFICES ASSUME Undisturbed, NEW p \in Paths
                 PROVE  /\ verified[p].content \notin {NoFile, disk[p]} =>
                              \/ fullStatus \in {"traversal", "waiting"}
                              \/ worker.does = "start removals"
                              \/ worker.does = "removals" /\ p \in worker'.left
                        /\ disk[p] # NoFile =>
                              \/ InHand(p)'
                              \/ worker.does = "full indexation" /\ p \in worker'.left
    BY <1>2, <1>3 DEF IInv, IndexationInv, Undisturbed
  <2>2. worker.does # "removals"
    BY <1>1 DEF Traversing
  <2>3. Truthful
    BY <2>1 DEF IInv, TruthInv
  <2>4. QED  BY <1>2, <1>4, <2>1, <2>2, <2>3 DEF IInv, IndexationInv, Carried
<1>9. QED  BY <1>4, <1>5, <1>6, <1>7, <1>8 DEF IInv

(* What the worker does when it only changes a status.                     *)
StatusStep ==
    /\ UNCHANGED <<disk, verified, number, inProgress, pool, reading, results, registrations>>
    /\ UNCHANGED <<searches, finder, unfound, changes, changed, staleAtStart, failed>>
    /\ fullStatus' \in {"notRunning", "traversal", "waiting", "removals"}
    /\ scanStatus' \in {"notRunning", "traversal", "waiting"}
    /\ worker' \in WorkerStates

(* What such a step has to keep.                                           *)
LEMMA StatusStepKeeps ==
    ASSUME IInv, StatusStep, StatusInv',
           ASSUME Undisturbed, NEW p \in Paths,
                  verified[p].content \notin {NoFile, disk[p]}
           PROVE  \/ fullStatus' \in {"traversal", "waiting"}
                  \/ worker'.does = "start removals"
                  \/ worker'.does = "removals" /\ p \in worker'.left,
           worker.does = "full indexation" => worker'.does = "full indexation" \/ worker.left = {},
           worker.does = "full indexation" /\ worker'.does = "full indexation" =>
               worker'.left = worker.left
    PROVE  IInv'
<1>1. Carried /\ JobInv' /\ \A p \in Paths : InHand(p)' <=> InHand(p)
  BY NothingMoves DEF StatusStep, IInv
<1>2. TypeInv' /\ NumberInv'
  BY DEF IInv, TypeInv, NumberInv, StatusStep
<1>3. TruthInv' /\ SearchInv'
  BY <1>1, SearchGoesOn DEF StatusStep, Undisturbed
<1>4. IndexationInv'
  <2>1. SUFFICES ASSUME Undisturbed, NEW p \in Paths
                 PROVE  /\ verified[p].number = number => verified[p].content \in {NoFile, disk[p]}
                        /\ verified[p].content \notin {NoFile, disk[p]} =>
                              \/ fullStatus' \in {"traversal", "waiting"}
                              \/ worker'.does = "start removals"
                              \/ worker'.does = "removals" /\ p \in worker'.left
                        /\ disk[p] # NoFile =>
                              \/ InHand(p)'
                              \/ worker'.does = "full indexation" /\ p \in worker'.left
    BY DEF IndexationInv, Undisturbed, StatusStep
  <2>2. QED  BY <1>1, <2>1 DEF IInv, IndexationInv
<1>5. QED  BY <1>1, <1>2, <1>3, <1>4 DEF IInv

LEMMA EndTraversalKeeps ==
    ASSUME IInv, EndTraversal
    PROVE  IInv'
<1>1. worker.left = {} /\ worker.does \in {"full indexation", "quick scan"}
  BY DEF EndTraversal, Traversing
<1>2. UNCHANGED <<disk, verified, number, inProgress, pool, reading, results, registrations,
                  searches, finder, unfound, changes, changed, staleAtStart, failed>>
  BY DEF EndTraversal, resolverVars, analyzerVars, pendingVars, finderVars, ghostVars
<1>3. ASSUME fullStatus' \in {"notRunning", "traversal", "waiting", "removals"},
             scanStatus' \in {"notRunning", "traversal", "waiting"},
             worker' \in WorkerStates, StatusInv',
             fullStatus = "notRunning" \/ fullStatus' = "traversal"
                \/ worker'.does = "start removals",
             worker'.does # "full indexation"
      PROVE  IInv'
  <2>1. StatusStep
    BY <1>2, <1>3 DEF StatusStep
  <2>2. ASSUME Undisturbed, NEW p \in Paths, verified[p].content \notin {NoFile, disk[p]}
        PROVE  fullStatus' \in {"traversal", "waiting"} \/ worker'.does = "start removals"
    BY <1>1, <1>3, <2>2 DEF IInv, IndexationInv, StatusInv
  <2>3. QED  BY <1>1, <1>3, <2>1, <2>2, StatusStepKeeps
<1>4. CASE worker.does = "full indexation" /\ inProgress = {}
  <2>1. /\ fullStatus' = "removals" /\ UNCHANGED scanStatus
        /\ worker' = [does |-> "start removals", left |-> {}]
    BY <1>4 DEF EndTraversal, WriteStatus
  <2>2. QED  BY <1>3, <1>4, <2>1 DEF WorkerStates, IInv, TypeInv, StatusInv
<1>5. CASE worker.does = "quick scan" /\ inProgress = {}
  <2>1. /\ scanStatus' = "notRunning" /\ UNCHANGED fullStatus
        /\ worker' = [does |-> "nothing", left |-> {}]
    BY <1>5 DEF EndTraversal, WriteStatus, Resting
  <2>2. QED  BY <1>3, <1>5, <2>1 DEF WorkerStates, IInv, TypeInv, StatusInv
<1>6. CASE inProgress # {}
  <2>1. /\ UNCHANGED <<fullStatus, scanStatus>>
        /\ worker' = [does |-> IF worker.does = "quick scan" THEN "quick scan, not finished"
                               ELSE "full indexation, not finished", left |-> {}]
    BY <1>6 DEF EndTraversal
  <2>2. QED  BY <1>1, <1>3, <1>6, <2>1 DEF WorkerStates, IInv, TypeInv, StatusInv
<1>7. QED  BY <1>1, <1>4, <1>5, <1>6

LEMMA WaitForAnalyzerKeeps ==
    ASSUME IInv, WaitForAnalyzer
    PROVE  IInv'
<1>1. worker.does \in {"full indexation, not finished", "quick scan, not finished"}
  BY DEF WaitForAnalyzer
<1>2. UNCHANGED <<disk, verified, number, inProgress, pool, reading, results, registrations,
                  searches, finder, unfound, changes, changed, staleAtStart, failed>>
  BY DEF WaitForAnalyzer, resolverVars, analyzerVars, pendingVars, finderVars, ghostVars
<1>3. /\ worker' = [does |-> "nothing", left |-> {}]
      /\ \/ /\ worker.does = "full indexation, not finished"
            /\ fullStatus' = "waiting" /\ UNCHANGED scanStatus
         \/ /\ worker.does = "quick scan, not finished"
            /\ scanStatus' = "waiting" /\ UNCHANGED fullStatus
  BY <1>1 DEF WaitForAnalyzer, WriteStatus, Resting
<1>4. StatusStep
  BY <1>2, <1>3 DEF StatusStep, WorkerStates, IInv, TypeInv
<1>5. StatusInv'
  BY <1>3 DEF IInv, StatusInv
<1>6. ASSUME Undisturbed, NEW p \in Paths, verified[p].content \notin {NoFile, disk[p]}
      PROVE  fullStatus' \in {"traversal", "waiting"}
  BY <1>1, <1>3, <1>6 DEF IInv, IndexationInv
<1>7. QED  BY <1>1, <1>4, <1>5, <1>6, StatusStepKeeps

LEMMA BeginRemovalsKeeps ==
    ASSUME IInv, BeginRemovals
    PROVE  IInv'
<1>1. /\ worker.does = "start removals" /\ UNCHANGED <<fullStatus, scanStatus>>
      /\ worker' = [does |-> "removals", left |-> NotSeenByThisRun]
  BY DEF BeginRemovals
<1>2. UNCHANGED <<disk, verified, number, inProgress, pool, reading, results, registrations,
                  searches, finder, unfound, changes, changed, staleAtStart, failed>>
  BY DEF BeginRemovals, resolverVars, analyzerVars, pendingVars, finderVars, ghostVars
<1>3. StatusStep
  <2>1. NotSeenByThisRun \in SUBSET Paths
    BY DEF NotSeenByThisRun
  <2>2. QED  BY <1>1, <1>2, <2>1 DEF StatusStep, WorkerStates, IInv, TypeInv
<1>4. StatusInv'
  BY <1>1 DEF IInv, StatusInv
<1>5. ASSUME Undisturbed, NEW p \in Paths, verified[p].content \notin {NoFile, disk[p]}
      PROVE  worker'.does = "removals" /\ p \in worker'.left
  <2>1. verified[p].number # number
    BY <1>5 DEF IInv, IndexationInv
  <2>2. verified[p] # Unknown
    BY <1>5 DEF Unknown
  <2>3. QED  BY <1>1, <2>1, <2>2 DEF NotSeenByThisRun
<1>6. QED  BY <1>1, <1>3, <1>4, <1>5, StatusStepKeeps

LEMMA EndRemovalsKeeps ==
    ASSUME IInv, EndRemovals
    PROVE  IInv'
<1>1. /\ worker.does = "removals" /\ worker.left = {} /\ UNCHANGED scanStatus
      /\ fullStatus' = "notRunning" /\ worker' = [does |-> "nothing", left |-> {}]
  BY DEF EndRemovals, Resting
<1>2. UNCHANGED <<disk, verified, number, inProgress, pool, reading, results, registrations,
                  searches, finder, unfound, changes, changed, staleAtStart, failed>>
  BY DEF EndRemovals, resolverVars, analyzerVars, pendingVars, finderVars, ghostVars
<1>3. StatusStep
  BY <1>1, <1>2 DEF StatusStep, WorkerStates, IInv, TypeInv
<1>4. StatusInv'
  BY <1>1 DEF IInv, StatusInv
<1>5. ASSUME Undisturbed, NEW p \in Paths, verified[p].content \notin {NoFile, disk[p]}
      PROVE  FALSE
  BY <1>1, <1>5 DEF IInv, IndexationInv, StatusInv
<1>6. QED  BY <1>1, <1>3, <1>4, <1>5, StatusStepKeeps

-----------------------------------------------------------------------------
(* What is known about files.                                              *)

(* Only what is not true of the disk is dropped.                           *)
LEMMA DroppedIsCarried ==
    ASSUME IInv, NEW S \in SUBSET Paths,
           \A p \in S : verified[p].content # disk[p],
           verified' = [p \in Paths |-> IF p \in S THEN Unknown ELSE verified[p]],
           UNCHANGED <<disk, inProgress, pool, reading, results, registrations, failed>>
    PROVE  /\ Carried /\ JobInv'
           /\ verified' \in [Paths -> [content : Content, number : Nat]]
           /\ \A p \in Paths : verified'[p] \in {verified[p], Unknown}
<1>1. Unknown \in [content : Content, number : Nat] /\ Unknown.content = NoFile
  BY DEF Unknown, Content
<1>2. \A p \in Paths : InHand(p) => InHand(p)'
  BY DEF InHand, OnItsWay
<1>3. Carried
  <2>1. Truthful => Truthful'
    BY <1>2 DEF Truthful, IInv, TypeInv
  <2>2. QED  BY <1>2, <2>1 DEF Carried
<1>4. JobInv'
  BY DEF IInv, JobInv, HasJob
<1>5. QED  BY <1>1, <1>3, <1>4 DEF IInv, TypeInv

LEMMA NumbersAreNumbers ==
    ASSUME IInv, NEW p \in Paths
    PROVE  verified[p].number \in Nat /\ number \in Nat /\ verified[p].number <= number
<1>1. verified[p] \in [content : Content, number : Nat]
  BY DEF IInv, TypeInv
<1>2. QED  BY <1>1 DEF IInv, TypeInv, NumberInv

(* That does no harm to an indexation either.                              *)
LEMMA DroppedIsHarmless ==
    ASSUME IInv, Carried, \A p \in Paths : verified'[p] \in {verified[p], Unknown},
           UNCHANGED <<number, fullStatus, changed, staleAtStart>>,
           worker'.does = worker.does,
           worker.does = "removals" => \A p \in worker.left :
               p \in worker'.left \/ verified'[p] = Unknown \/ verified[p].content = disk[p],
           worker.does # "removals" => worker' = worker
    PROVE  IndexationInv' /\ NumberInv'
<1>1. Unknown.content = NoFile /\ Unknown.number = 0
  BY DEF Unknown
<1>2. NumberInv'
  <2>1. ASSUME NEW p \in Paths  PROVE verified'[p].number <= number
    BY <1>1, NumbersAreNumbers DEF IInv, NumberInv
  <2>2. QED  BY <2>1 DEF NumberInv
<1>3. SUFFICES ASSUME Undisturbed, NEW p \in Paths
               PROVE  /\ verified'[p].number = number =>
                            verified'[p].content \in {NoFile, disk[p]}
                      /\ verified'[p].content \notin {NoFile, disk[p]} =>
                            \/ fullStatus \in {"traversal", "waiting"}
                            \/ worker'.does = "start removals"
                            \/ worker'.does = "removals" /\ p \in worker'.left
                      /\ disk[p] # NoFile =>
                            InHand(p)' \/ (worker'.does = "full indexation" /\ p \in worker'.left)
  BY <1>2 DEF IndexationInv, Undisturbed, Carried
<1>4. /\ verified[p].number = number => verified[p].content \in {NoFile, disk[p]}
      /\ verified[p].content \notin {NoFile, disk[p]} =>
            \/ fullStatus \in {"traversal", "waiting"}
            \/ worker.does = "start removals"
            \/ worker.does = "removals" /\ p \in worker.left
      /\ disk[p] # NoFile =>
            InHand(p) \/ (worker.does = "full indexation" /\ p \in worker.left)
  BY <1>3 DEF IInv, IndexationInv
<1>5. CASE verified'[p] = Unknown
  BY <1>1, <1>3, <1>4, <1>5 DEF IInv, TruthInv, Carried
<1>6. CASE verified'[p] = verified[p]
  <2>1. CASE worker.does = "removals"
    BY <1>1, <1>3, <1>4, <1>6, <2>1 DEF IInv, TruthInv, Carried
  <2>2. CASE worker.does # "removals"
    BY <1>3, <1>4, <1>6, <2>2 DEF IInv, TruthInv, Carried
  <2>3. QED  BY <2>1, <2>2
<1>7. QED  BY <1>5, <1>6

LEMMA DropIfInvalidDrops ==
    ASSUME IInv, NEW path \in Paths, DropIfInvalid(path)
    PROVE  \E S \in SUBSET {path} :
              /\ \A p \in S : verified[p].content # disk[p]
              /\ verified' = [p \in Paths |-> IF p \in S THEN Unknown ELSE verified[p]]
              /\ path \notin S => verified[path] = Unknown \/ verified[path].content = disk[path]
<1>1. CASE verified[path] # Unknown /\ verified[path].content # disk[path]
  BY <1>1 DEF DropIfInvalid, IInv, TypeInv
<1>2. CASE ~ (verified[path] # Unknown /\ verified[path].content # disk[path])
  <2>1. verified' = [p \in Paths |-> IF p \in {} THEN Unknown ELSE verified[p]]
    BY <1>2 DEF DropIfInvalid, IInv, TypeInv
  <2>2. WITNESS {} \in SUBSET {path}
  <2>3. QED  BY <1>2, <2>1
<1>3. QED  BY <1>1, <1>2

LEMMA LookUpKeeps ==
    ASSUME IInv, NEW path \in Paths, LookUp(path)
    PROVE  IInv'
<1>1. UNCHANGED <<disk, number, inProgress, pool, reading, results, registrations, fullStatus,
                  scanStatus, worker, searches, finder, unfound, changes, changed,
                  staleAtStart, failed>>
  BY DEF LookUp, statusVars, analyzerVars, pendingVars, finderVars, ghostVars
<1>2. /\ Carried /\ JobInv'
      /\ verified' \in [Paths -> [content : Content, number : Nat]]
      /\ \A p \in Paths : verified'[p] \in {verified[p], Unknown}
  <2>1. PICK S \in SUBSET {path} :
                /\ \A p \in S : verified[p].content # disk[p]
                /\ verified' = [p \in Paths |-> IF p \in S THEN Unknown ELSE verified[p]]
    BY DropIfInvalidDrops DEF LookUp
  <2>2. QED  BY <1>1, <2>1, DroppedIsCarried
<1>3. TypeInv' /\ StatusInv'
  BY <1>1, <1>2 DEF IInv, TypeInv, StatusInv
<1>4. TruthInv' /\ SearchInv'
  BY <1>1, <1>2, SearchGoesOn DEF Undisturbed
<1>5. IndexationInv' /\ NumberInv'
  BY <1>1, <1>2, DroppedIsHarmless
<1>6. QED  BY <1>2, <1>3, <1>4, <1>5 DEF IInv

LEMMA CheckFileKeeps ==
    ASSUME IInv, NEW path \in Paths, CheckFile(path)
    PROVE  IInv'
<1>1. UNCHANGED <<disk, number, inProgress, pool, reading, results, registrations, fullStatus,
                  scanStatus, searches, finder, unfound, changes, changed, staleAtStart,
                  failed>>
  BY DEF CheckFile, analyzerVars, pendingVars, finderVars, ghostVars
<1>2. /\ worker.does = "removals" /\ worker' \in WorkerStates
      /\ worker'.does = worker.does /\ worker'.left = worker.left \ {path}
  BY Zenon DEF CheckFile, IInv, TypeInv, WorkerStates
<1>3. PICK S \in SUBSET {path} :
              /\ \A p \in S : verified[p].content # disk[p]
              /\ verified' = [p \in Paths |-> IF p \in S THEN Unknown ELSE verified[p]]
              /\ path \notin S => verified[path] = Unknown \/ verified[path].content = disk[path]
  BY DropIfInvalidDrops DEF CheckFile
<1>4. /\ Carried /\ JobInv'
      /\ verified' \in [Paths -> [content : Content, number : Nat]]
      /\ \A p \in Paths : verified'[p] \in {verified[p], Unknown}
  BY <1>1, <1>3, DroppedIsCarried
<1>5. verified'[path] = Unknown \/ verified[path].content = disk[path]
  BY <1>3
<1>6. TypeInv' /\ StatusInv'
  BY <1>1, <1>2, <1>4 DEF IInv, TypeInv, StatusInv
<1>7. TruthInv' /\ SearchInv'
  BY <1>1, <1>4, SearchGoesOn DEF Undisturbed
<1>8. IndexationInv' /\ NumberInv'
  BY <1>1, <1>2, <1>4, <1>5, DroppedIsHarmless
<1>9. QED  BY <1>4, <1>6, <1>7, <1>8 DEF IInv

(* The search for a hash begins with a lookup of all of its files.         *)
LEMMA FindPathForHashKeeps ==
    ASSUME IInv, NEW hash \in Hashes \cup {Absent}, FindPathForHash(hash)
    PROVE  IInv'
<1>1. UNCHANGED <<disk, number, inProgress, pool, reading, results, registrations, fullStatus,
                  scanStatus, worker, finder, unfound, changes, changed, staleAtStart, failed>>
  BY DEF FindPathForHash, statusVars, analyzerVars, pendingVars, ghostVars
<1>2. /\ searches' = Append(searches, hash)
      /\ verified' = [p \in Paths |-> IF p \in {q \in Paths : KnownAs(q, hash)} THEN Unknown
                                      ELSE verified[p]]
      /\ \A p \in {q \in Paths : KnownAs(q, hash)} : verified[p].content # disk[p]
  BY DEF FindPathForHash
<1>3. /\ Carried /\ JobInv'
      /\ verified' \in [Paths -> [content : Content, number : Nat]]
      /\ \A p \in Paths : verified'[p] \in {verified[p], Unknown}
  BY <1>1, <1>2, DroppedIsCarried
<1>4. searches' \in Seq(Hashes \cup {Absent}) /\ searches' # << >>
  BY <1>2, AppendedTo DEF IInv, TypeInv
<1>5. TypeInv' /\ StatusInv'
  BY <1>1, <1>3, <1>4 DEF IInv, TypeInv, StatusInv
<1>6. TruthInv' /\ SearchInv'
  BY <1>1, <1>3, SearchGoesOn DEF Undisturbed
<1>7. IndexationInv' /\ NumberInv'
  BY <1>1, <1>3, DroppedIsHarmless
<1>8. QED  BY <1>3, <1>5, <1>6, <1>7 DEF IInv

(* Locations are not what is known about a file.                           *)
LEMMA RegisterLocationKeeps ==
    ASSUME IInv, NEW pair \in newLocations, RegisterLocation(pair)
    PROVE  IInv'
<1>1. UNCHANGED <<disk, verified, number, inProgress, pool, reading, results, registrations,
                  fullStatus, scanStatus, worker, searches, finder, unfound, changes, changed,
                  staleAtStart, failed>>
  BY DEF RegisterLocation, statusVars, analyzerVars, finderVars, ghostVars
<1>2. Carried /\ JobInv'
  BY <1>1, NothingMoves DEF IInv
<1>3. TypeInv' /\ StatusInv' /\ NumberInv'
  BY <1>1 DEF IInv, TypeInv, StatusInv, NumberInv
<1>4. TruthInv' /\ SearchInv' /\ IndexationInv'
  BY <1>1, <1>2, SearchGoesOn, IndexationGoesOn DEF Undisturbed
<1>5. QED  BY <1>2, <1>3, <1>4 DEF IInv

(* A result becomes knowledge, and is true if it was true under way.       *)
LEMMA RegisterKeeps ==
    ASSUME IInv, NEW result \in registrations, Register(result)
    PROVE  IInv'
<1>1. UNCHANGED <<disk, number, inProgress, pool, reading, results,
                  fullStatus, scanStatus, worker, searches, finder, unfound, changes, changed,
                  staleAtStart, failed>>
  BY DEF Register, statusVars, analyzerVars, finderVars, ghostVars
<1>2. /\ registrations' = registrations \ {result}
      /\ verified' = [verified EXCEPT ![result.path] =
                         [content |-> result.content, number |-> number]]
      /\ result.path \in Paths /\ result.content \in Content
  BY DEF Register, IInv, TypeInv, AnalysisResult
<1>3. /\ verified' \in [Paths -> [content : Content, number : Nat]]
      /\ verified'[result.path].content = result.content
      /\ verified'[result.path].number = number
      /\ \A p \in Paths : p # result.path => verified'[p] = verified[p]
  BY <1>2 DEF IInv, TypeInv
<1>4. ASSUME Truthful, NEW p \in Paths, InHand(p)  PROVE InHand(p)'
  <2>1. result.content = disk[result.path]
    BY <1>4 DEF Truthful
  <2>2. CASE p = result.path
    BY <1>1, <1>3, <2>1, <2>2 DEF InHand, OnItsWay
  <2>3. CASE p # result.path
    BY <1>1, <1>2, <1>3, <1>4, <2>3 DEF InHand, OnItsWay
  <2>4. QED  BY <2>2, <2>3
<1>5. Carried
  <2>1. Truthful => Truthful'
    BY <1>1, <1>2, <1>4 DEF Truthful, IInv, TypeInv
  <2>2. QED  BY <1>1, <1>4, <2>1 DEF Carried
<1>6. TypeInv' /\ StatusInv' /\ JobInv' /\ NumberInv'
  <2>1. TypeInv'
    BY <1>1, <1>2, <1>3 DEF IInv, TypeInv
  <2>2. StatusInv' /\ JobInv'
    BY <1>1 DEF IInv, StatusInv, JobInv, HasJob
  <2>3. NumberInv'
    <3>1. ASSUME NEW p \in Paths  PROVE verified'[p].number <= number
      <4>1. CASE p = result.path
        BY <1>3, <4>1 DEF IInv, TypeInv
      <4>2. CASE p # result.path
        BY <1>3, <4>2 DEF IInv, NumberInv
      <4>3. QED  BY <4>1, <4>2
    <3>2. QED  BY <1>1, <3>1 DEF NumberInv
  <2>4. QED  BY <2>1, <2>2, <2>3
<1>7. TruthInv' /\ SearchInv'
  BY <1>1, <1>5, SearchGoesOn DEF Undisturbed
<1>8. IndexationInv'
  <2>1. SUFFICES ASSUME Undisturbed, NEW p \in Paths
                 PROVE  /\ verified'[p].number = number =>
                              verified'[p].content \in {NoFile, disk[p]}
                        /\ verified'[p].content \notin {NoFile, disk[p]} =>
                              \/ fullStatus \in {"traversal", "waiting"}
                              \/ worker.does = "start removals"
                              \/ worker.does = "removals" /\ p \in worker.left
                        /\ disk[p] # NoFile =>
                              InHand(p)' \/ (worker.does = "full indexation" /\ p \in worker.left)
    BY <1>1 DEF IndexationInv, Undisturbed
  <2>2. result.content = disk[result.path]
    BY <2>1 DEF IInv, TruthInv, Truthful
  <2>3. disk[p] # NoFile =>
            InHand(p)' \/ (worker.does = "full indexation" /\ p \in worker.left)
    BY <1>4, <2>1 DEF IInv, TruthInv, IndexationInv
  <2>4. CASE p = result.path
    BY <1>3, <2>2, <2>3, <2>4
  <2>5. CASE p # result.path
    BY <1>3, <2>1, <2>3, <2>5 DEF IInv, IndexationInv
  <2>6. QED  BY <2>4, <2>5
<1>9. QED  BY <1>6, <1>7, <1>8 DEF IInv

(* A result that is lost is a failure of its file.                         *)
LEMMA RegistrationFailsKeeps ==
    ASSUME IInv, NEW result \in registrations, RegistrationFails(result)
    PROVE  IInv'
<1>1. UNCHANGED <<disk, verified, number, inProgress, pool, reading, results, fullStatus,
                  scanStatus, worker, searches, finder, unfound, changes, changed,
                  staleAtStart>>
  BY DEF RegistrationFails, FileFails, SomethingFails, resolverVars, statusVars, analyzerVars,
         finderVars
<1>2. /\ registrations' = registrations \ {result}
      /\ failed' = failed \cup {result.path} /\ result.path \in Paths
  BY DEF RegistrationFails, FileFails, IInv, TypeInv, AnalysisResult
<1>3. TypeInv' /\ StatusInv' /\ JobInv' /\ NumberInv'
  BY <1>1, <1>2 DEF IInv, TypeInv, StatusInv, JobInv, HasJob, NumberInv
<1>4. ASSUME NEW p \in Paths, InHand(p)  PROVE InHand(p)'
  <2>1. CASE p = result.path
    BY <1>2, <2>1 DEF InHand
  <2>2. CASE p # result.path
    BY <1>1, <1>2, <1>4, <2>2 DEF InHand, OnItsWay
  <2>3. QED  BY <2>1, <2>2
<1>5. Carried
  <2>1. Truthful => Truthful'
    BY <1>1, <1>2, <1>4 DEF Truthful, IInv, TypeInv
  <2>2. QED  BY <1>1, <1>4, <2>1 DEF Carried
<1>6. TruthInv' /\ SearchInv' /\ IndexationInv'
  BY <1>1, <1>5, SearchGoesOn, IndexationGoesOn DEF Undisturbed
<1>7. QED  BY <1>3, <1>6 DEF IInv

(* The others have nothing to do with what is known about a file.          *)
LEMMA LocationFailsKeeps ==
    ASSUME IInv, NEW pair \in newLocations, LocationFails(pair)
    PROVE  IInv'
<1>1. UNCHANGED <<disk, verified, number, inProgress, pool, reading, results, registrations,
                  fullStatus, scanStatus, worker, searches, finder, unfound, changes, changed,
                  staleAtStart, failed>>
  BY DEF LocationFails, SomethingFails, resolverVars, statusVars, analyzerVars, finderVars
<1>2. Carried /\ JobInv'
  BY <1>1, NothingMoves DEF IInv
<1>3. TypeInv' /\ StatusInv' /\ NumberInv'
  BY <1>1 DEF IInv, TypeInv, StatusInv, NumberInv
<1>4. TruthInv' /\ SearchInv' /\ IndexationInv'
  BY <1>1, <1>2, SearchGoesOn, IndexationGoesOn DEF Undisturbed
<1>5. QED  BY <1>2, <1>3, <1>4 DEF IInv

LEMMA SearchFailsKeeps ==
    ASSUME IInv, SearchFails
    PROVE  IInv'
<1>1. UNCHANGED <<disk, verified, number, inProgress, pool, reading, results, registrations,
                  fullStatus, scanStatus, worker, finder, unfound, changes, changed,
                  staleAtStart, failed>>
  BY DEF SearchFails, SomethingFails, resolverVars, statusVars, analyzerVars, pendingVars
<1>2. Carried /\ JobInv'
  BY <1>1, NothingMoves DEF IInv
<1>3. searches' \in Seq(Hashes \cup {Absent}) /\ finder.step = "none"
  BY TakenFrom DEF SearchFails, NoSearch, IInv, TypeInv
<1>4. TypeInv' /\ StatusInv' /\ NumberInv'
  BY <1>1, <1>3 DEF IInv, TypeInv, StatusInv, NumberInv
<1>5. TruthInv' /\ SearchInv' /\ IndexationInv'
  BY <1>1, <1>2, SearchGoesOn, IndexationGoesOn DEF Undisturbed
<1>6. QED  BY <1>2, <1>4, <1>5 DEF IInv

-----------------------------------------------------------------------------
(* The analyzer and the event loop.                                        *)

LEMMA BeginAnalysisKeeps ==
    ASSUME IInv, BeginAnalysis
    PROVE  IInv'
<1>1. UNCHANGED <<disk, verified, number, inProgress, pool, results, registrations,
                  fullStatus, scanStatus, worker, searches, finder, unfound, changes, changed,
                  staleAtStart, failed>>
  BY DEF BeginAnalysis, resolverVars, statusVars, pendingVars, finderVars, ghostVars
<1>2. pool # << >> /\ reading' = disk[Head(pool)] /\ Head(pool) \in Paths
  BY TakenFrom DEF BeginAnalysis, IInv, TypeInv
<1>3. TypeInv' /\ StatusInv' /\ JobInv' /\ NumberInv'
  BY <1>1, <1>2 DEF IInv, TypeInv, StatusInv, JobInv, HasJob, NumberInv
<1>4. Carried
  <2>1. \A p \in Paths : InHand(p)' <=> InHand(p)
    BY <1>1 DEF InHand, OnItsWay
  <2>2. Truthful => Truthful'
    BY <1>1, <1>2, <2>1 DEF Truthful, IInv, TypeInv
  <2>3. QED  BY <1>1, <2>1, <2>2 DEF Carried
<1>5. TruthInv' /\ SearchInv' /\ IndexationInv'
  BY <1>1, <1>4, SearchGoesOn, IndexationGoesOn DEF Undisturbed
<1>6. QED  BY <1>3, <1>5 DEF IInv

(* What the analyzer has read is true if nothing has changed; what has     *)
(* changed is analyzed again.                                              *)
LEMMA EndAnalysisKeeps ==
    ASSUME IInv, EndAnalysis
    PROVE  IInv'
<1>. DEFINE path == Head(pool)
            same == disk[path] = reading
            again == ~ same /\ disk[path] # NoFile
            outcome == IF same THEN reading ELSE NoFile
            progress == inProgress \ {path}
<1>1. UNCHANGED <<disk, verified, number, registrations, fullStatus, scanStatus, worker,
                  searches, finder, unfound, changes, changed, staleAtStart>>
  BY DEF EndAnalysis, resolverVars, statusVars, pendingVars, finderVars, ghostVars,
         FileFails, SomethingFails
<1>2. /\ reading # NotReading /\ reading' = NotReading
      /\ \E content \in {outcome, NoFile} :
            /\ results' = Append(results, [path |-> path, content |-> content])
            /\ failed' = IF content = outcome THEN failed ELSE failed \cup {path}
  BY DEF EndAnalysis, ghostVars, FileFails
<1>. PICK content \in {outcome, NoFile} :
            /\ results' = Append(results, [path |-> path, content |-> content])
            /\ failed' = IF content = outcome THEN failed ELSE failed \cup {path}
  BY <1>2
<1>. DEFINE result == [path |-> path, content |-> content]
<1>3. /\ ~ again => inProgress' = inProgress /\ pool' = Tail(pool)
      /\ again => /\ inProgress' = Enqueued(path, progress, Tail(pool)).inProgress
                  /\ pool' = Enqueued(path, progress, Tail(pool)).pool
  BY DEF EndAnalysis
<1>4. /\ path \in Paths /\ Tail(pool) \in Seq(Paths)
      /\ ToSet(pool) = ToSet(Tail(pool)) \cup {path}
  BY <1>2, TakenFrom DEF IInv, TypeInv
<1>5. /\ result \in AnalysisResult /\ result.path = path /\ result.content = content
      /\ failed \subseteq failed' /\ failed' \in SUBSET Paths
      /\ content # outcome => content = NoFile /\ path \in failed'
  BY <1>2, <1>4 DEF IInv, TypeInv, AnalysisResult, Content
<1>6. results' \in Seq(AnalysisResult) /\ ToSet(results') = ToSet(results) \cup {result}
  BY <1>5, AppendedTo DEF IInv, TypeInv
<1>7. /\ pool' \in Seq(Paths) /\ inProgress' \in SUBSET Paths
      /\ inProgress' \subseteq inProgress \cup {path}
      /\ ToSet(Tail(pool)) \subseteq ToSet(pool')
      /\ again => path \in ToSet(pool')
  <2>1. CASE ~ again
    BY <1>3, <1>4, <2>1 DEF IInv, TypeInv
  <2>2. CASE again
    <3>1. progress \in SUBSET Paths /\ path \notin progress
      BY DEF IInv, TypeInv
    <3>2. /\ Enqueued(path, progress, Tail(pool)).inProgress = progress \cup {path}
          /\ Enqueued(path, progress, Tail(pool)).pool \in Seq(Paths)
          /\ path \in ToSet(Enqueued(path, progress, Tail(pool)).pool)
          /\ ToSet(Tail(pool)) \subseteq ToSet(Enqueued(path, progress, Tail(pool)).pool)
      BY <1>4, <3>1, EnqueuedIsThere, Zenon
    <3>3. QED  BY <1>3, <1>4, <2>2, <3>1, <3>2 DEF IInv, TypeInv
  <2>3. QED  BY <2>1, <2>2
<1>8. TypeInv'
  BY <1>1, <1>2, <1>5, <1>6, <1>7 DEF IInv, TypeInv
<1>9. StatusInv' /\ NumberInv'
  BY <1>1 DEF IInv, StatusInv, NumberInv
<1>10. JobInv'
  BY <1>4, <1>5, <1>6, <1>7 DEF IInv, JobInv, HasJob
<1>11. ASSUME Truthful  PROVE reading = disk[path] /\ outcome = disk[path] /\ ~ again
  BY <1>2, <1>11 DEF Truthful
<1>12. ASSUME Truthful, NEW p \in Paths, InHand(p)  PROVE InHand(p)'
  <2>1. CASE p = path
    BY <1>1, <1>5, <1>6, <1>11, <1>12, <2>1 DEF InHand, OnItsWay
  <2>2. CASE p # path
    BY <1>1, <1>4, <1>6, <1>7, <1>12, <2>2 DEF InHand, OnItsWay
  <2>3. QED  BY <2>1, <2>2
<1>13. Carried
  <2>1. ASSUME Truthful  PROVE Truthful'
    <3>1. \A r \in ToSet(results') : r.content \in {NoFile, disk[r.path]}
      BY <1>5, <1>6, <1>11, <2>1 DEF Truthful
    <3>2. \A p \in inProgress' : disk[p] # NoFile => InHand(p)'
      BY <1>3, <1>11, <1>12, <2>1 DEF Truthful, IInv, TypeInv
    <3>3. QED  BY <1>1, <1>2, <2>1, <3>1, <3>2 DEF Truthful
  <2>2. QED  BY <1>1, <1>12, <2>1 DEF Carried
<1>14. TruthInv' /\ SearchInv' /\ IndexationInv'
  BY <1>1, <1>13, SearchGoesOn, IndexationGoesOn DEF Undisturbed
<1>15. QED  BY <1>8, <1>9, <1>10, <1>14 DEF IInv

(* A result goes on to wait for its hash ID, and the last one may start    *)
(* the next phase of an indexation.                                        *)
LEMMA HandleResultKeeps ==
    ASSUME IInv, HandleResult
    PROVE  IInv'
<1>. DEFINE result == Head(results)
<1>1. UNCHANGED <<disk, verified, number, pool, reading, searches, finder, unfound, changes,
                  changed, staleAtStart, failed>>
  BY DEF HandleResult, resolverVars, finderVars, ghostVars
<1>2. /\ results # << >> /\ results' = Tail(results)
      /\ inProgress' = inProgress \ {result.path}
      /\ registrations' = registrations \cup (IF result.content # NoFile THEN {result} ELSE {})
  BY DEF HandleResult, StillInProgress, Succeeded
<1>3. /\ result \in AnalysisResult /\ Tail(results) \in Seq(AnalysisResult)
      /\ ToSet(results) = ToSet(Tail(results)) \cup {result}
  BY <1>2, TakenFrom DEF IInv, TypeInv
<1>4. \/ UNCHANGED <<fullStatus, scanStatus, worker>>
      \/ /\ scanStatus' = IF scanStatus = "waiting" THEN "notRunning" ELSE scanStatus
         /\ \/ /\ fullStatus = "waiting" /\ fullStatus' = "removals"
               /\ worker' = [does |-> "start removals", left |-> {}]
            \/ fullStatus # "waiting" /\ UNCHANGED <<fullStatus, worker>>
  BY DEF HandleResult, OnAnalyzerFinished, statusVars
<1>5. TypeInv'
  <2>1. worker' \in WorkerStates
    <3>1. CASE worker' = worker
      BY <3>1 DEF IInv, TypeInv
    <3>2. CASE worker' = [does |-> "start removals", left |-> {}]
      BY <3>2 DEF WorkerStates
    <3>3. QED  BY <1>4, <3>1, <3>2
  <2>2. /\ fullStatus' \in {"notRunning", "traversal", "waiting", "removals"}
        /\ scanStatus' \in {"notRunning", "traversal", "waiting"}
    BY <1>4 DEF IInv, TypeInv
  <2>3. QED  BY <1>1, <1>2, <1>3, <2>1, <2>2 DEF IInv, TypeInv
<1>6. StatusInv'
  <2>1. CASE UNCHANGED <<fullStatus, scanStatus, worker>>
    BY <2>1 DEF IInv, StatusInv
  <2>2. CASE /\ scanStatus' = IF scanStatus = "waiting" THEN "notRunning" ELSE scanStatus
             /\ fullStatus = "waiting" /\ fullStatus' = "removals"
             /\ worker' = [does |-> "start removals", left |-> {}]
    BY <2>2 DEF IInv, StatusInv
  <2>3. CASE /\ scanStatus' = IF scanStatus = "waiting" THEN "notRunning" ELSE scanStatus
             /\ UNCHANGED <<fullStatus, worker>>
    BY <2>3 DEF IInv, StatusInv
  <2>4. QED  BY <1>4, <2>1, <2>2, <2>3
<1>7. JobInv' /\ NumberInv'
  BY <1>1, <1>2, <1>3 DEF IInv, JobInv, HasJob, NumberInv
<1>8. ASSUME Truthful, NEW p \in Paths, disk[p] # NoFile, InHand(p)  PROVE InHand(p)'
  <2>1. ASSUME NEW r \in ToSet(results), r.path = p, r.content = disk[p]
        PROVE  r \in ToSet(results') \cup registrations'
    BY <1>2, <1>3, <1>8, <2>1
  <2>2. QED  BY <1>1, <1>2, <1>8, <2>1 DEF InHand, OnItsWay
<1>9. Carried
  <2>1. ASSUME Truthful  PROVE Truthful'
    <3>1. \A r \in registrations' : r.content = disk[r.path]
      BY <1>2, <1>3, <2>1 DEF Truthful
    <3>2. \A r \in ToSet(results') : r.content \in {NoFile, disk[r.path]}
      BY <1>2, <1>3, <2>1 DEF Truthful
    <3>3. \A p \in inProgress' : disk[p] # NoFile => InHand(p)'
      BY <1>2, <1>8, <2>1 DEF Truthful, IInv, TypeInv
    <3>4. QED  BY <1>1, <2>1, <3>1, <3>2, <3>3 DEF Truthful
  <2>2. QED  BY <1>1, <1>8, <2>1 DEF Carried
<1>10. TruthInv' /\ SearchInv'
  BY <1>1, <1>9, SearchGoesOn DEF Undisturbed
<1>11. IndexationInv'
  <2>1. CASE UNCHANGED <<fullStatus, worker>>
    BY <1>1, <1>9, <2>1, IndexationGoesOn
  <2>2. CASE ~ UNCHANGED <<fullStatus, worker>>
    <3>1. fullStatus = "waiting" /\ worker' = [does |-> "start removals", left |-> {}]
      <4>1. CASE UNCHANGED <<fullStatus, scanStatus, worker>>
        BY <2>2, <4>1
      <4>2. CASE /\ fullStatus = "waiting" /\ fullStatus' = "removals"
                 /\ worker' = [does |-> "start removals", left |-> {}]
        BY <4>2
      <4>3. CASE UNCHANGED <<fullStatus, worker>>
        BY <2>2, <4>3
      <4>4. QED  BY <1>4, <4>1, <4>2, <4>3
    <3>2. worker.does # "full indexation"
      BY <3>1 DEF IInv, StatusInv
    <3>3. SUFFICES ASSUME Undisturbed, NEW p \in Paths
                   PROVE  /\ verified[p].number = number =>
                                verified[p].content \in {NoFile, disk[p]}
                          /\ disk[p] # NoFile => InHand(p)'
      BY <1>1, <3>1 DEF IndexationInv, Undisturbed
    <3>4. QED  BY <1>8, <3>2, <3>3 DEF IInv, IndexationInv, TruthInv
  <2>3. QED  BY <2>1, <2>2
<1>12. QED  BY <1>5, <1>6, <1>7, <1>10, <1>11 DEF IInv

-----------------------------------------------------------------------------
(* Beginning an indexation or a search.                                    *)

LEMMA NotStaleIsTruthful ==
    ASSUME JobInv, NothingIsStale
    PROVE  Truthful /\ \A p \in inProgress : OnItsWay(p)
<1>1. ASSUME NEW p \in inProgress  PROVE OnItsWay(p)
  <2>1. CASE p \in ToSet(pool)
    BY <2>1 DEF OnItsWay
  <2>2. CASE \E r \in ToSet(results) : r.path = p
    BY <2>2 DEF NothingIsStale, OnItsWay
  <2>3. QED  BY <1>1, <2>1, <2>2 DEF JobInv, HasJob
<1>2. QED  BY <1>1 DEF NothingIsStale, Truthful, InHand

(* No file has the number of the new indexation, and it has passed none.   *)
LEMMA StartFullIndexationKeeps ==
    ASSUME IInv, StartFullIndexation
    PROVE  IInv'
<1>1. UNCHANGED <<disk, verified, scanStatus, inProgress, pool, reading, results,
                  registrations, searches, changes>>
  BY DEF StartFullIndexation, analyzerVars, pendingVars
<1>2. /\ fullStatus = "notRunning" /\ scanStatus = "notRunning"
      /\ number' = number + 1 /\ fullStatus' = "traversal"
      /\ worker' = [does |-> "full indexation", left |-> Paths]
      /\ changed' = FALSE /\ staleAtStart' = ~ NothingIsStale /\ failed' = {}
      /\ unfound' = IF failed = {} THEN unfound ELSE {}
      /\ finder' = [finder EXCEPT !.undisturbed = @ /\ failed = {}]
  BY DEF StartFullIndexation, NothingRunning
<1>3. JobInv'
  BY <1>1 DEF IInv, JobInv, HasJob
<1>4. /\ staleAtStart' \in BOOLEAN /\ worker' \in WorkerStates
      /\ unfound' \in SUBSET Paths
  BY <1>2 DEF WorkerStates, IInv, TypeInv
<1>f. /\ finder' \in FinderStates /\ finder'.reading = finder.reading
      /\ finder'.path = finder.path /\ finder'.step = finder.step
      /\ finder'.left = finder.left /\ finder'.fresh = finder.fresh
      /\ finder'.undisturbed = (finder.undisturbed /\ failed = {})
  BY <1>2, Zenon DEF IInv, TypeInv, FinderStates
<1>5. TypeInv' /\ StatusInv' /\ NumberInv'
  <2>1. TypeInv'
    <3>1. number \in Nat
      BY DEF IInv, TypeInv
    <3>2. number' = number + 1
      BY <1>2
    <3>3. number' \in Nat
      BY <3>1, <3>2
    <3>4. QED  BY <1>1, <1>2, <1>4, <1>f, <3>3 DEF IInv, TypeInv
  <2>2. StatusInv'
    BY <1>1, <1>2 DEF IInv, StatusInv
  <2>3. ASSUME NEW p \in Paths  PROVE verified[p].number <= number'
    <3>1. verified[p].number \in Nat /\ number \in Nat /\ verified[p].number <= number
      BY NumbersAreNumbers
    <3>2. number' = number + 1
      BY <1>2
    <3>3. QED  BY <3>1, <3>2
  <2>4. QED  BY <1>1, <2>1, <2>2, <2>3 DEF NumberInv
<1>6. ASSUME Undisturbed'  PROVE Truthful'
  <2>1. NothingIsStale
    BY <1>2, <1>6 DEF Undisturbed
  <2>2. Truthful /\ \A p \in inProgress : OnItsWay(p)
    BY <2>1, NotStaleIsTruthful DEF IInv
  <2>3. \A p \in inProgress : InHand(p)'
    BY <1>1, <2>2 DEF InHand, OnItsWay
  <2>4. QED  BY <1>1, <2>2, <2>3 DEF Truthful
<1>7. TruthInv' /\ SearchInv'
  <2>1. CASE failed = {}
    <3>1. Carried /\ \A p \in Paths : InHand(p)' <=> InHand(p)
      BY <1>1, <1>2, <2>1, NothingMoves
    <3>2. unfound' = unfound /\ finder'.undisturbed = finder.undisturbed
      BY <1>2, <1>f, <2>1 DEF IInv, TypeInv, FinderStates
    <3>3. TruthInv'
      BY <1>6, <3>1, <3>2 DEF IInv, TruthInv, Carried
    <3>4. unfound \subseteq Paths /\ finder.fresh \subseteq Paths
      BY DEF IInv, TypeInv, FinderStates
    <3>5. SearchInv'
      BY <1>1, <1>f, <3>1, <3>2, <3>4 DEF IInv, SearchInv
    <3>6. QED  BY <3>3, <3>5
  <2>2. CASE failed # {}
    BY <1>2, <1>6, <1>f, <2>2 DEF TruthInv, SearchInv
  <2>3. QED  BY <2>1, <2>2
<1>8. ASSUME NEW p \in Paths  PROVE verified[p].number # number'
  <2>1. verified[p].number \in Nat /\ number \in Nat /\ verified[p].number <= number
    BY NumbersAreNumbers
  <2>2. number' = number + 1
    BY <1>2
  <2>3. QED  BY <2>1, <2>2
<1>9. IndexationInv'
  BY <1>1, <1>2, <1>8 DEF IndexationInv
<1>10. QED  BY <1>3, <1>5, <1>7, <1>9 DEF IInv

LEMMA StartQuickScanKeeps ==
    ASSUME IInv, StartQuickScanForNewFiles
    PROVE  IInv'
<1>1. UNCHANGED <<disk, verified, number, fullStatus, inProgress, pool, reading, results,
                  registrations, searches, finder, unfound, changes, changed,
                  staleAtStart, failed>>
  BY DEF StartQuickScanForNewFiles, resolverVars, analyzerVars, pendingVars, finderVars
<1>2. /\ fullStatus = "notRunning" /\ scanStatus = "notRunning"
      /\ scanStatus' = "traversal"
      /\ worker' = [does |-> "quick scan", left |-> Paths]
  BY DEF StartQuickScanForNewFiles, NothingRunning
<1>3. StatusStep
  BY <1>1, <1>2 DEF StatusStep, WorkerStates, IInv, TypeInv
<1>4. StatusInv'
  BY <1>1, <1>2 DEF IInv, StatusInv
<1>5. ASSUME Undisturbed, NEW p \in Paths, verified[p].content \notin {NoFile, disk[p]}
      PROVE  FALSE
  BY <1>2, <1>5 DEF IInv, IndexationInv, StatusInv
<1>6. worker.does # "full indexation"
  BY <1>2 DEF IInv, StatusInv
<1>7. QED  BY <1>3, <1>4, <1>5, <1>6, StatusStepKeeps

-----------------------------------------------------------------------------
(* Searches.                                                               *)

(* What a step of a search has to keep.                                    *)
LEMMA SearchStepKeeps ==
    ASSUME IInv, Carried, JobInv',
           UNCHANGED <<verified, number, fullStatus, scanStatus, worker, reading, results,
                       changes, changed, staleAtStart>>,
           failed' \in SUBSET Paths,
           inProgress' \in SUBSET Paths, pool' \in Seq(Paths),
           pool # << >> => pool' # << >>,
           registrations' \in SUBSET AnalysisResult,
           searches' \in Seq(Hashes \cup {Absent}),
           finder' \in FinderStates,
           finder'.reading # NotReading => finder'.path \in Paths /\ finder'.step # "none",
           finder'.step # "none" => searches' # << >>,
           unfound' \in SUBSET Paths,
           finder'.undisturbed => finder.undisturbed \/ Truthful,
           unfound' # {} => finder.undisturbed \/ unfound # {},
           SearchInv'
    PROVE  IInv'
<1>1. disk' = disk
  BY DEF Carried
<1>2. TypeInv' /\ StatusInv' /\ NumberInv'
  BY <1>1 DEF IInv, TypeInv, StatusInv, NumberInv
<1>3. TruthInv'
  BY DEF IInv, TruthInv, Carried, Undisturbed
<1>4. IndexationInv'
  BY IndexationGoesOn
<1>5. QED  BY <1>2, <1>3, <1>4 DEF IInv

(* A search that does not touch the analyzer.                              *)
LEMMA QuietSearchStepKeeps ==
    ASSUME IInv,
           UNCHANGED <<disk, verified, number, fullStatus, scanStatus, worker, inProgress,
                       pool, reading, results, registrations, changes, changed,
                       staleAtStart, failed>>,
           searches' = searches, unfound' = unfound, searches # << >>,
           finder' \in FinderStates,
           finder'.reading # NotReading => finder'.path \in Paths /\ finder'.step # "none",
           finder'.undisturbed => finder.undisturbed \/ Truthful,
           ASSUME finder'.undisturbed, NEW p \in finder'.fresh
           PROVE  /\ disk[p] # NoFile
                  /\ finder'.step = "new" =>
                        \/ p \in finder'.left \/ InHand(p)
                        \/ finder'.path = p /\ finder'.reading = disk[p]
    PROVE  IInv'
<1>1. Carried /\ JobInv' /\ \A p \in Paths : InHand(p)' <=> InHand(p)
  BY NothingMoves DEF IInv
<1>2. SearchInv'
  <2>1. \A p \in unfound : disk[p] # NoFile /\ InHand(p)'
    BY <1>1 DEF IInv, TypeInv, SearchInv
  <2>2. finder'.fresh \in SUBSET Paths
    BY DEF FinderStates
  <2>3. QED  BY <1>1, <2>1, <2>2 DEF SearchInv
<1>3. QED  BY <1>1, <1>2, SearchStepKeeps DEF IInv, TypeInv

LEMMA BeginSearchKeeps ==
    ASSUME IInv, BeginSearch
    PROVE  IInv'
<1>1. UNCHANGED <<disk, verified, number, fullStatus, scanStatus, worker, inProgress,
                  pool, reading, results, registrations, changes, changed, staleAtStart,
                  failed>>
  BY DEF BeginSearch, resolverVars, statusVars, analyzerVars, pendingVars, ghostVars
<1>2. /\ searches # << >> /\ searches' = searches /\ unfound' = unfound
      /\ finder' = [step |-> "names", left |-> Paths, fresh |-> {}, scanned |-> 0, path |-> 0,
                    reading |-> NotReading, undisturbed |-> NothingIsStale]
  BY DEF BeginSearch, NoSearch
<1>3. (NothingIsStale) \in BOOLEAN
  BY DEF NothingIsStale
<1>4. /\ finder' \in FinderStates /\ finder'.reading = NotReading /\ finder'.fresh = {}
      /\ finder'.undisturbed = NothingIsStale
  BY <1>2, <1>3 DEF FinderStates
<1>5. finder'.undisturbed => Truthful
  BY <1>4, NotStaleIsTruthful DEF IInv
<1>6. QED  BY <1>1, <1>2, <1>4, <1>5, QuietSearchStepKeeps

(* Going on to a file: what is new and is not passed stays as it was.      *)
LEMMA PassedIsTyped ==
    ASSUME IInv, NEW path \in Paths
    PROVE  /\ Passed(path) \in FinderStates
           /\ Passed(path).step = finder.step /\ Passed(path).left = finder.left \ {path}
           /\ Passed(path).fresh = finder.fresh /\ Passed(path).scanned = finder.scanned
           /\ Passed(path).path = finder.path /\ Passed(path).reading = finder.reading
           /\ Passed(path).undisturbed = finder.undisturbed
BY Zenon DEF Passed, IInv, TypeInv, FinderStates

LEMMA LookAtNameKeeps ==
    ASSUME IInv, NEW path \in Paths, LookAtName(path)
    PROVE  IInv'
<1>1. UNCHANGED <<disk, verified, number, fullStatus, scanStatus, worker, inProgress,
                  pool, reading, results, registrations, changes, changed, staleAtStart,
                  failed>>
  BY DEF LookAtName, resolverVars, statusVars, analyzerVars, pendingVars, ghostVars
<1>2. /\ finder.step = "names" /\ searches' = searches /\ unfound' = unfound
      /\ finder' = [Analyzing(path) EXCEPT !.left = {p \in finder.left : p > path}]
  BY DEF LookAtName
<1>3. disk[path] \in Content
  BY DEF IInv, TypeInv
<1>4. /\ finder' \in FinderStates
      /\ finder'.step = "names" /\ finder'.fresh = finder.fresh /\ finder'.path = path
      /\ finder'.undisturbed = finder.undisturbed
  BY <1>2, <1>3, PassedIsTyped, Zenon DEF Analyzing, FinderStates
<1>5. QED  BY <1>1, <1>2, <1>4, QuietSearchStepKeeps DEF IInv, TypeInv, SearchInv

(* A file that is new is there.                                            *)
LEMMA LookAtSizeKeeps ==
    ASSUME IInv, NEW path \in Paths, NEW likely \in BOOLEAN, LookAtSize(path, likely)
    PROVE  IInv'
<1>1. UNCHANGED <<disk, verified, number, fullStatus, scanStatus, worker, inProgress,
                  pool, reading, results, registrations, changes, changed, staleAtStart,
                  failed>>
  BY DEF LookAtSize, resolverVars, statusVars, analyzerVars, pendingVars, ghostVars
<1>2. finder.step = "sizes" /\ searches' = searches /\ unfound' = unfound
  BY DEF LookAtSize, SearchIsAt
<1>3. \/ finder' = Passed(path)
      \/ finder' = Analyzing(path)
      \/ disk[path] # NoFile /\ finder' = [Passed(path) EXCEPT !.fresh = @ \cup {path}]
  BY DEF LookAtSize
<1>4. disk[path] \in Content
  BY DEF IInv, TypeInv
<1>5. /\ finder' \in FinderStates /\ finder'.step = "sizes"
      /\ \/ finder'.fresh = finder.fresh
         \/ disk[path] # NoFile /\ finder'.fresh = finder.fresh \cup {path}
      /\ finder'.reading = finder.reading \/ finder'.path = path
      /\ finder'.path \in {finder.path, path}
      /\ finder'.undisturbed = finder.undisturbed
  <2>1. CASE finder' = Passed(path)
    BY <1>2, <2>1, PassedIsTyped
  <2>2. CASE finder' = Analyzing(path)
    BY <1>2, <1>4, <2>2, PassedIsTyped, Zenon DEF Analyzing, FinderStates
  <2>3. CASE disk[path] # NoFile /\ finder' = [Passed(path) EXCEPT !.fresh = @ \cup {path}]
    <3>1. finder.fresh \cup {path} \in SUBSET Paths
      BY DEF IInv, TypeInv, FinderStates
    <3>2. QED  BY <1>2, <2>3, <3>1, PassedIsTyped, Zenon DEF FinderStates
  <2>4. QED  BY <1>3, <2>1, <2>2, <2>3
<1>6. QED  BY <1>1, <1>2, <1>5, QuietSearchStepKeeps DEF IInv, TypeInv, SearchInv

(* A search analyzes the first new files itself.                           *)
LEMMA LookAtNewFileKeeps ==
    ASSUME IInv, NEW path \in Paths, LookAtNewFile(path)
    PROVE  IInv'
<1>1. UNCHANGED <<disk, verified, number, fullStatus, scanStatus, worker, inProgress,
                  pool, reading, results, registrations, changes, changed, staleAtStart,
                  failed>>
  BY DEF LookAtNewFile, resolverVars, statusVars, analyzerVars, pendingVars, ghostVars
<1>2. /\ finder.step = "new" /\ finder.path = 0
      /\ searches' = searches /\ unfound' = unfound
      /\ finder' = [Analyzing(path) EXCEPT !.scanned = @ + 1]
  BY DEF LookAtNewFile, SearchIsAt
<1>3. disk[path] \in Content /\ finder.scanned + 1 \in Nat
  BY DEF IInv, TypeInv, FinderStates
<1>4. /\ Analyzing(path) \in FinderStates /\ Analyzing(path).scanned = finder.scanned
      /\ Analyzing(path).step = finder.step /\ Analyzing(path).fresh = finder.fresh
      /\ Analyzing(path).path = path /\ Analyzing(path).reading = disk[path]
      /\ Analyzing(path).left = finder.left \ {path}
      /\ Analyzing(path).undisturbed = finder.undisturbed
  BY <1>3, PassedIsTyped, Zenon DEF Analyzing, FinderStates
<1>5. /\ finder' \in FinderStates /\ finder'.step = "new" /\ finder'.fresh = finder.fresh
      /\ finder'.path = path /\ finder'.reading = disk[path]
      /\ finder'.left = finder.left \ {path}
      /\ finder'.undisturbed = finder.undisturbed
  BY <1>2, <1>3, <1>4, Zenon DEF FinderStates
<1>6. 0 \notin Paths
  BY IndexationConstants
<1>7. ASSUME finder'.undisturbed, NEW p \in finder'.fresh
      PROVE  /\ disk[p] # NoFile
             /\ \/ p \in finder'.left \/ InHand(p)
                \/ finder'.path = p /\ finder'.reading = disk[p]
  <2>1. p \in Paths
    BY <1>5, <1>7 DEF FinderStates
  <2>2. QED  BY <1>2, <1>5, <1>6, <1>7, <2>1 DEF IInv, SearchInv
<1>8. QED  BY <1>1, <1>2, <1>5, <1>7, QuietSearchStepKeeps DEF IInv, TypeInv

(* The others are left to the analyzer.                                    *)
LEMMA EnqueueNewFileKeeps ==
    ASSUME IInv, NEW path \in Paths, EnqueueNewFile(path)
    PROVE  IInv'
<1>1. UNCHANGED <<disk, verified, number, fullStatus, scanStatus, worker, reading, results,
                  registrations, changes, changed, staleAtStart, failed>>
  BY DEF EnqueueNewFile, resolverVars, statusVars, pendingVars, ghostVars
<1>2. /\ finder.step = "new" /\ finder.path = 0
      /\ searches' = searches /\ unfound' = unfound /\ finder' = Passed(path)
      /\ inProgress' = Enqueued(path, inProgress, pool).inProgress
      /\ pool' = Enqueued(path, inProgress, pool).pool
  BY DEF EnqueueNewFile, SearchIsAt
<1>3. /\ Carried /\ JobInv'
      /\ inProgress' \in SUBSET Paths /\ pool' \in Seq(Paths)
      /\ pool # << >> => pool' # << >>
      /\ Truthful /\ disk[path] # NoFile => InHand(path)'
  BY <1>1, <1>2, EnqueuedIsCarried DEF IInv
<1>4. /\ finder' \in FinderStates /\ finder'.step = "new" /\ finder'.fresh = finder.fresh
      /\ finder'.path = finder.path /\ finder'.reading = finder.reading
      /\ finder'.left = finder.left \ {path}
      /\ finder'.undisturbed = finder.undisturbed
  BY <1>2, PassedIsTyped
<1>5. SearchInv'
  <2>1. ASSUME finder'.undisturbed, NEW p \in finder'.fresh
        PROVE  /\ disk[p] # NoFile
               /\ \/ p \in finder'.left \/ InHand(p)'
                  \/ finder'.path = p /\ finder'.reading = disk[p]
    <3>1. p \in Paths /\ Truthful
      BY <1>4, <2>1 DEF FinderStates, IInv, TruthInv
    <3>2. QED  BY <1>2, <1>3, <1>4, <2>1, <3>1 DEF IInv, SearchInv, Carried
  <2>2. ASSUME NEW p \in unfound  PROVE disk[p] # NoFile /\ InHand(p)'
    BY <1>3, <2>2 DEF IInv, Carried, TypeInv, TruthInv, SearchInv
  <2>3. QED  BY <1>1, <1>2, <1>4, <2>1, <2>2 DEF SearchInv
<1>6. QED  BY <1>1, <1>2, <1>3, <1>4, <1>5, SearchStepKeeps DEF IInv, TypeInv

(* What a search has analyzed is registered, or analyzed again.            *)
LEMMA EndSearchAnalysisKeeps ==
    ASSUME IInv, NEW succeeds \in BOOLEAN, EndSearchAnalysis(succeeds)
    PROVE  IInv'
<1>. DEFINE path == finder.path
            same == disk[path] = finder.reading
            done == same /\ disk[path] # NoFile /\ succeeds
            again == ~ same /\ disk[path] # NoFile
            result == [path |-> path, content |-> finder.reading]
<1>1. UNCHANGED <<disk, verified, number, fullStatus, scanStatus, worker, reading, results,
                  changes, changed, staleAtStart>>
  BY DEF EndSearchAnalysis, resolverVars, statusVars, ghostVars, FileFails, SomethingFails
<1>2. /\ finder.reading # NotReading /\ finder.reading \in Content
      /\ path \in Paths /\ finder.step # "none" /\ searches # << >>
  BY DEF EndSearchAnalysis, IInv, TypeInv, FinderStates
<1>3. /\ inProgress' = IF again THEN Enqueued(path, inProgress, pool).inProgress
                       ELSE inProgress
      /\ pool' = IF again THEN Enqueued(path, inProgress, pool).pool ELSE pool
      /\ registrations' = registrations \cup (IF done THEN {result} ELSE {})
      /\ \/ succeeds /\ failed' = failed
         \/ same /\ disk[path] # NoFile /\ failed' = failed \cup {path}
  BY DEF EndSearchAnalysis, ghostVars, FileFails
<1>4. \/ /\ searches' = Tail(searches) /\ finder' = NoSearch /\ unfound' = {}
      \/ /\ finder' = [finder EXCEPT !.path = 0, !.reading = NotReading]
         /\ UNCHANGED <<searches, unfound>>
  BY DEF EndSearchAnalysis, EndSearch
<1>5. /\ Carried /\ JobInv'
      /\ inProgress' \in SUBSET Paths /\ pool' \in Seq(Paths)
      /\ pool # << >> => pool' # << >>
      /\ registrations' \in SUBSET AnalysisResult
      /\ failed' \in SUBSET Paths
      /\ same /\ disk[path] # NoFile => \A p \in Paths : p = path => InHand(p)'
  <2>1. CASE again
    <3>1. registrations' = registrations /\ failed' = failed
      BY <1>3, <2>1
    <3>2. /\ Carried /\ JobInv'
          /\ inProgress' \in SUBSET Paths /\ pool' \in Seq(Paths)
          /\ pool # << >> => pool' # << >>
      BY <1>1, <1>2, <1>3, <2>1, <3>1, EnqueuedIsCarried DEF IInv
    <3>3. QED  BY <2>1, <3>1, <3>2 DEF IInv, TypeInv
  <2>2. CASE ~ again
    <3>1. inProgress' = inProgress /\ pool' = pool
      BY <1>3, <2>2
    <3>2. result \in AnalysisResult /\ result.path = path /\ result.content = finder.reading
      BY <1>2 DEF AnalysisResult
    <3>3. /\ registrations \subseteq registrations' /\ failed \subseteq failed'
          /\ failed' \in SUBSET Paths
      BY <1>2, <1>3 DEF IInv, TypeInv
    <3>4. \A p \in Paths : InHand(p) => InHand(p)'
      BY <1>1, <3>1, <3>3 DEF InHand, OnItsWay
    <3>5. ASSUME same, disk[path] # NoFile, NEW p \in Paths, p = path  PROVE InHand(p)'
      <4>1. CASE succeeds
        BY <1>1, <1>3, <3>2, <3>5, <4>1 DEF InHand, OnItsWay
      <4>2. CASE ~ succeeds
        BY <1>3, <3>5, <4>2 DEF InHand
      <4>3. QED  BY <4>1, <4>2
    <3>6. ASSUME Truthful  PROVE Truthful'
      <4>1. \A r \in registrations' : r.content = disk[r.path]
        BY <1>3, <3>2, <3>6 DEF Truthful
      <4>2. \A p \in inProgress : disk[p] # NoFile => InHand(p)'
        BY <3>4, <3>6 DEF Truthful, IInv, TypeInv
      <4>3. QED  BY <1>1, <3>1, <3>6, <4>1, <4>2 DEF Truthful
    <3>7. JobInv'
      BY <1>1, <3>1 DEF IInv, JobInv, HasJob
    <3>8. QED
      BY <1>1, <1>3, <3>1, <3>2, <3>3, <3>4, <3>5, <3>6, <3>7 DEF Carried, IInv, TypeInv
  <2>3. QED  BY <2>1, <2>2
<1>6. CASE searches' = Tail(searches) /\ finder' = NoSearch /\ unfound' = {}
  <2>1. searches' \in Seq(Hashes \cup {Absent})
    BY <1>2, <1>6, TakenFrom DEF IInv, TypeInv
  <2>2. /\ finder' \in FinderStates /\ finder'.reading = NotReading
        /\ finder'.step = "none" /\ ~ finder'.undisturbed
    BY <1>6 DEF NoSearch, FinderStates
  <2>3. SearchInv'
    BY <1>6, <2>2 DEF SearchInv
  <2>4. QED  BY <1>1, <1>5, <1>6, <2>1, <2>2, <2>3, SearchStepKeeps
<1>7. CASE /\ finder' = [finder EXCEPT !.path = 0, !.reading = NotReading]
           /\ UNCHANGED <<searches, unfound>>
  <2>1. /\ finder' \in FinderStates /\ finder'.reading = NotReading
        /\ finder'.step = finder.step /\ finder'.left = finder.left
        /\ finder'.fresh = finder.fresh /\ finder'.undisturbed = finder.undisturbed
    BY <1>7, Zenon DEF IInv, TypeInv, FinderStates
  <2>2. SearchInv'
    <3>1. ASSUME finder'.undisturbed, NEW p \in finder'.fresh
          PROVE  /\ disk[p] # NoFile
                 /\ finder'.step = "new" => p \in finder'.left \/ InHand(p)'
      <4>1. p \in Paths /\ Truthful
        BY <2>1, <3>1 DEF FinderStates, IInv, TruthInv
      <4>2. QED  BY <1>5, <2>1, <3>1, <4>1 DEF IInv, SearchInv, Carried
    <3>2. ASSUME NEW p \in unfound  PROVE disk[p] # NoFile /\ InHand(p)'
      BY <1>5, <3>2 DEF IInv, Carried, TypeInv, TruthInv, SearchInv
    <3>3. QED  BY <1>1, <1>7, <3>1, <3>2 DEF SearchInv
  <2>3. QED  BY <1>1, <1>2, <1>5, <1>7, <2>1, <2>2, SearchStepKeeps DEF IInv, TypeInv
<1>8. QED  BY <1>4, <1>6, <1>7

(* A search that is over without success has passed all new files.         *)
LEMMA NextPartOfSearchKeeps ==
    ASSUME IInv, NextPartOfSearch
    PROVE  IInv'
<1>1. UNCHANGED <<disk, verified, number, fullStatus, scanStatus, worker, inProgress,
                  pool, reading, results, registrations, changes, changed, staleAtStart,
                  failed>>
  BY DEF NextPartOfSearch, resolverVars, statusVars, analyzerVars, pendingVars, ghostVars
<1>2. /\ finder.path = 0 /\ finder.step # "none" /\ searches # << >>
      /\ finder.left = {} \/ finder.step = "names"
      /\ 0 \notin Paths
  BY IndexationConstants DEF NextPartOfSearch, IInv, TypeInv
<1>3. finder.reading = NotReading
  BY <1>2 DEF IInv, TypeInv
<1>4. CASE /\ finder.step = "names"
           /\ finder' = [finder EXCEPT !.step = "sizes", !.left = Paths]
           /\ UNCHANGED <<searches, unfound>>
  <2>1. /\ finder' \in FinderStates /\ finder'.reading = finder.reading
        /\ finder'.step = "sizes" /\ finder'.fresh = finder.fresh
        /\ finder'.undisturbed = finder.undisturbed
    BY <1>4, Zenon DEF IInv, TypeInv, FinderStates
  <2>2. QED  BY <1>1, <1>2, <1>3, <1>4, <2>1, QuietSearchStepKeeps DEF IInv, SearchInv
<1>5. CASE /\ finder.step = "sizes"
           /\ finder' = [finder EXCEPT !.step = "new", !.left = finder.fresh]
           /\ UNCHANGED <<searches, unfound>>
  <2>1. finder.fresh \in SUBSET Paths
    BY DEF IInv, TypeInv, FinderStates
  <2>2. /\ finder' \in FinderStates /\ finder'.reading = finder.reading
        /\ finder'.fresh = finder.fresh /\ finder'.left = finder.fresh
        /\ finder'.undisturbed = finder.undisturbed
    BY <1>5, <2>1, Zenon DEF IInv, TypeInv, FinderStates
  <2>3. QED  BY <1>1, <1>2, <1>3, <1>5, <2>2, QuietSearchStepKeeps DEF IInv, SearchInv
<1>6. CASE /\ finder.step = "new"
           /\ searches' = Tail(searches) /\ finder' = NoSearch
           /\ unfound' = IF finder.undisturbed THEN finder.fresh ELSE {}
  <2>1. searches' \in Seq(Hashes \cup {Absent})
    BY <1>2, <1>6, TakenFrom DEF IInv, TypeInv
  <2>2. /\ finder' \in FinderStates /\ finder'.reading = NotReading
        /\ finder'.step = "none" /\ ~ finder'.undisturbed
    BY <1>6 DEF NoSearch, FinderStates
  <2>3. unfound' \in SUBSET Paths
    BY <1>6 DEF IInv, TypeInv, FinderStates
  <2>4. Carried /\ JobInv' /\ \A p \in Paths : InHand(p)' <=> InHand(p)
    BY <1>1, NothingMoves DEF IInv
  <2>5. ASSUME NEW p \in unfound'  PROVE disk[p] # NoFile /\ InHand(p)'
    BY <1>2, <1>6, <2>3, <2>4, <2>5 DEF IInv, SearchInv
  <2>6. SearchInv'
    BY <1>1, <2>2, <2>5 DEF SearchInv
  <2>7. QED  BY <1>1, <1>6, <2>1, <2>2, <2>3, <2>4, <2>6, SearchStepKeeps DEF IInv, TypeInv
<1>7. QED  BY <1>4, <1>5, <1>6 DEF NextPartOfSearch, EndSearch

-----------------------------------------------------------------------------
(* Files change: nothing is promised until the next indexation or search.  *)
LEMMA ChangeFileKeeps ==
    ASSUME IInv, NEW path \in Paths,
           NEW content \in {NoFile} \cup [hash : Hashes, stamp : {changes + 1}],
           ChangeFile(path, content)
    PROVE  IInv'
<1>1. UNCHANGED <<verified, number, fullStatus, scanStatus, worker, inProgress, pool,
                  reading, results, registrations, searches, staleAtStart, failed>>
  BY DEF ChangeFile, resolverVars, statusVars, analyzerVars, pendingVars
<1>2. /\ disk' = [disk EXCEPT ![path] = content] /\ changes' = changes + 1
      /\ changed' = TRUE /\ unfound' = {}
      /\ finder' = [finder EXCEPT !.undisturbed = FALSE]
  BY DEF ChangeFile
<1>3. content \in Content /\ changes + 1 \in Nat
  BY DEF Content, IInv, TypeInv
<1>4. disk' \in [Paths -> Content]
  BY <1>2, <1>3 DEF IInv, TypeInv
<1>5. /\ finder' \in FinderStates /\ finder'.reading = finder.reading
      /\ finder'.path = finder.path /\ finder'.step = finder.step
      /\ ~ finder'.undisturbed
  BY <1>2, Zenon DEF IInv, TypeInv, FinderStates
<1>6. TypeInv'
  BY <1>1, <1>2, <1>3, <1>4, <1>5 DEF IInv, TypeInv
<1>7. StatusInv' /\ JobInv' /\ NumberInv'
  BY <1>1 DEF IInv, StatusInv, JobInv, HasJob, NumberInv
<1>8. TruthInv' /\ IndexationInv' /\ SearchInv'
  BY <1>2, <1>5 DEF TruthInv, IndexationInv, SearchInv, Undisturbed
<1>9. QED  BY <1>6, <1>7, <1>8 DEF IInv

LEMMA InitHolds == Init => IInv
<1>. SUFFICES ASSUME Init  PROVE IInv
  OBVIOUS
<1>1. [hash : Hashes, stamp : {0}] \subseteq [hash : Hashes, stamp : Nat]
  OBVIOUS
<1>2. Unknown \in [content : Content, number : Nat] /\ Unknown.number = 0
  BY DEF Unknown, Content
<1>3. NoSearch \in FinderStates /\ NoSearch.reading = NotReading
      /\ NoSearch.step = "none" /\ ~ NoSearch.undisturbed
  BY DEF NoSearch, FinderStates
<1>4. Resting \in WorkerStates /\ Resting.does = "nothing"
  BY DEF Resting, WorkerStates
<1>5. disk \in [Paths -> Content]
  BY <1>1 DEF Init, Content
<1>6. TypeInv
  <2>1. verified \in [Paths -> [content : Content, number : Nat]]
    BY <1>2 DEF Init
  <2>2. /\ << >> \in Seq(Paths) /\ << >> \in Seq(AnalysisResult)
        /\ << >> \in Seq(Hashes \cup {Absent})
    BY EmptySeq
  <2>3. QED  BY <1>3, <1>4, <1>5, <2>1, <2>2 DEF Init, TypeInv
<1>7. StatusInv /\ JobInv /\ NumberInv
  BY <1>2, <1>4 DEF Init, StatusInv, JobInv, NumberInv
<1>8. TruthInv /\ IndexationInv /\ SearchInv
  BY <1>3 DEF Init, TruthInv, IndexationInv, SearchInv, Undisturbed
<1>9. QED  BY <1>6, <1>7, <1>8 DEF IInv

LEMMA NextKeeps == IInv /\ [Next]_vars => IInv'
<1>. SUFFICES ASSUME IInv, [Next]_vars  PROVE IInv'
  OBVIOUS
<1>1. CASE WorkerStep
  BY <1>1, VisitKeeps, CheckFileKeeps, EndTraversalKeeps, WaitForAnalyzerKeeps,
     BeginRemovalsKeeps, EndRemovalsKeeps DEF WorkerStep
<1>2. CASE AnalyzerStep
  BY <1>2, BeginAnalysisKeeps, EndAnalysisKeeps DEF AnalyzerStep
<1>3. CASE FinderStep
  BY <1>3, BeginSearchKeeps, SearchFailsKeeps, EndSearchAnalysisKeeps,
     NextPartOfSearchKeeps, LookAtSizeKeeps,
     LookAtNameKeeps, LookAtNewFileKeeps, EnqueueNewFileKeeps DEF FinderStep
<1>4. CASE EventLoopStep
  BY <1>4, HandleResultKeeps, RegisterKeeps, RegistrationFailsKeeps, RegisterLocationKeeps,
     LocationFailsKeeps DEF EventLoopStep
<1>5. CASE StartFullIndexation \/ StartQuickScanForNewFiles
  BY <1>5, StartFullIndexationKeeps, StartQuickScanKeeps
<1>6. CASE \E h \in Hashes \cup {Absent} : FindPathForHash(h)
  BY <1>6, FindPathForHashKeeps
<1>7. CASE \E p \in Paths : LookUp(p)
  BY <1>7, LookUpKeeps
<1>8. CASE \E p \in Paths :
              \E c \in {NoFile} \cup [hash : Hashes, stamp : {changes + 1}] : ChangeFile(p, c)
  BY <1>8, ChangeFileKeeps
<1>9. CASE UNCHANGED vars
  <2>1. UNCHANGED <<disk, verified, number, fullStatus, scanStatus, worker, inProgress, pool,
                    reading, results, registrations, searches, finder, unfound, changes,
                    changed, staleAtStart, failed>>
    BY <1>9 DEF vars, ghostVars
  <2>2. Carried /\ JobInv'
    BY <2>1, NothingMoves DEF IInv
  <2>3. TypeInv' /\ StatusInv' /\ NumberInv'
    BY <2>1 DEF IInv, TypeInv, StatusInv, NumberInv
  <2>4. TruthInv' /\ SearchInv' /\ IndexationInv'
    BY <2>1, <2>2, SearchGoesOn, IndexationGoesOn DEF Undisturbed
  <2>5. QED  BY <2>2, <2>3, <2>4 DEF IInv
<1>10. QED
  BY <1>1, <1>2, <1>3, <1>4, <1>5, <1>6, <1>7, <1>8, <1>9 DEF Next

(* The invariant on which the others rest.                                 *)
THEOREM IndexationInvariant == Spec => []IInv
<1>1. QED  BY InitHolds, NextKeeps, PTL DEF Spec

(* When a full indexation is over and its results have been registered,    *)
(* the server knows exactly the files that are there, except those with a  *)
(* failure, of which it knows nothing wrong, whatever else the analyzer and*)
(* the searches have done in the meantime; and a search that fails leaves  *)
(* no new file behind.                                                     *)
THEOREM ServerKnowsTheFiles == Spec => []KnowsTheFiles
<1>1. IInv => KnowsTheFiles
  <2>. SUFFICES ASSUME IInv, AnalyzerIsIdle  PROVE
            /\ NothingRunning /\ ~ changed /\ ~ staleAtStart =>
                  \A p \in Paths : \/ verified[p].content = disk[p]
                                   \/ p \in failed /\ verified[p].content = NoFile
            /\ \A p \in unfound \ failed : verified[p].content = disk[p]
    BY DEF KnowsTheFiles
  <2>1. ToSet(pool) = {} /\ ToSet(results) = {} /\ registrations = {}
    BY DEF AnalyzerIsIdle, ToSet
  <2>2. \A p \in Paths : InHand(p) => verified[p].content = disk[p] \/ p \in failed
    BY <2>1 DEF InHand, OnItsWay
  <2>3. ASSUME NothingRunning, Undisturbed, NEW p \in Paths
        PROVE  \/ verified[p].content = disk[p]
               \/ p \in failed /\ verified[p].content = NoFile
    <3>1. worker.does \notin {"full indexation", "start removals", "removals"}
      BY <2>3 DEF NothingRunning, IInv, StatusInv
    <3>2. verified[p].content \in {NoFile, disk[p]}
      BY <2>3, <3>1 DEF NothingRunning, IInv, IndexationInv
    <3>3. disk[p] # NoFile => InHand(p)
      BY <2>3, <3>1 DEF IInv, IndexationInv
    <3>4. QED  BY <2>2, <3>2, <3>3
  <2>4. ASSUME NEW p \in unfound \ failed  PROVE verified[p].content = disk[p]
    BY <2>2, <2>4 DEF IInv, TypeInv, SearchInv
  <2>5. QED  BY <2>3, <2>4 DEF Undisturbed
<1>2. QED  BY <1>1, IndexationInvariant, PTL
=============================================================================
