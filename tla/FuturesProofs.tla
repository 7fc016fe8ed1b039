--------------------------- MODULE FuturesProofs ---------------------------
(***************************************************************************)
(* Proofs about Futures, for any number of futures, continuations, threads *)
(* and receivers.  The argument: a continuation is in one place at a time, *)
(* and nobody else stores at the future that it is to finish.              *)
(***************************************************************************)
EXTENDS Futures, TLAPS

ContinuationRecords ==
    [does : {"nothing", "handle", "store", "indirect"},
     runner : {"loop", "pool", "any"},
     receiver : Receivers \cup {Nobody},
     target : Futures \cup {Nobody},
     second : Continuations \cup {Nobody}]

TypeInv ==
    /\ state \in [Futures -> {"unused", "open", "finished"}]
    /\ made \in [Futures -> {"nobody", "promise", "pool", "loop", "indirect",
                             "continuation"}]
    /\ waiting \in [Futures -> SUBSET Continuations]
    /\ starts \in SUBSET Futures
    /\ cont \in [Continuations -> ContinuationRecords]
    /\ used \in SUBSET Continuations
    /\ reserved \in SUBSET Continuations
    /\ todo \in [Threads -> SUBSET Continuations]
    /\ carried \in SUBSET Continuations
    /\ jobs \in SUBSET Continuations
    /\ running \in [Threads -> Continuations \cup {Nobody}]
    /\ ranOn \in [Continuations -> Threads \cup {Nobody}]
    /\ done \in SUBSET Continuations
    /\ dropped \in SUBSET Continuations

(* The places where a continuation can be that has not come to its end.    *)
IsWaiting(c) == \E f \in Futures : c \in waiting[f]
IsToDo(c) == \E t \in Threads : c \in todo[t]
IsRunning(c) == \E t \in Threads : c = running[t]

(* A continuation that does not exist is nowhere, and one that exists is   *)
(* in one place: with one future, with one thread, in a runner, waiting for*)
(* the future of a function, or at its end.                                *)
OnePlaceOf(c) ==
    /\ c \notin used => ~ IsWaiting(c) /\ ~ IsToDo(c) /\ ~ IsRunning(c)
                        /\ c \notin jobs \cup reserved \cup done \cup dropped
    /\ \A f, g \in Futures : c \in waiting[f] /\ c \in waiting[g] => f = g
    /\ \A s, t \in Threads : c \in todo[s] /\ c \in todo[t] => s = t
    /\ \A s, t \in Threads : c = running[s] /\ c = running[t] => s = t
    /\ IsWaiting(c) => ~ IsToDo(c) /\ ~ IsRunning(c)
                       /\ c \notin jobs \cup reserved \cup done \cup dropped
    /\ IsToDo(c) => ~ IsRunning(c) /\ c \notin jobs \cup reserved \cup done \cup dropped
    /\ IsRunning(c) => c \notin jobs \cup reserved \cup done \cup dropped
    /\ c \in jobs => c \notin reserved \cup done \cup dropped
    /\ c \in reserved => c \notin done \cup dropped
    /\ c \in done => c \notin dropped

OnePlace == \A c \in Continuations : OnePlaceOf(c)

(* Only an open future has continuations that wait, and one that does not  *)
(* exist was made by nobody.                                               *)
OpenWhenWaiting ==
    \A f \in Futures :
        /\ waiting[f] # {} => state[f] = "open"
        /\ state[f] = "unused" => made[f] = "nobody"

(* A future that a continuation finishes is finished by no other one, not  *)
(* by a promise nor by a job, and is open until the continuation was run.  *)
TargetsAreOpen ==
    /\ \A c \in used : cont[c].does = "store" =>
          /\ cont[c].target \in Futures
          /\ made[cont[c].target] \in {"continuation", "indirect"}
          /\ state[cont[c].target] # "unused"
          /\ c \notin done => state[cont[c].target] = "open"
    /\ \A c, d \in used :
          cont[c].does = "store" /\ cont[d].does = "store"
          /\ cont[c].target = cont[d].target => c = d

(* The job of a future is run once, and while it was not run no other      *)
(* continuation is about to finish the future.                             *)
StartsAreOpen ==
    /\ \A f \in starts : state[f] = "open" /\ made[f] \in {"pool", "loop", "indirect"}
    /\ \A f \in starts, c \in used :
          cont[c].does = "store" /\ cont[c].target = f => c \in reserved
    /\ \A c \in used : cont[c].does = "indirect" =>
          /\ cont[c].second \in used /\ cont[cont[c].second].does = "store"
          /\ made[cont[cont[c].second].target] = "continuation"

(* Work for the event loop, or for a pool, was or is run there.            *)
WhereItWasRun ==
    /\ \A t \in Threads : running[t] # Nobody =>
          /\ cont[running[t]].runner = "loop" => t = LoopThread
          /\ cont[running[t]].runner = "pool" => t # LoopThread
    /\ \A c \in done :
          /\ cont[c].runner = "loop" => ranOn[c] = LoopThread
          /\ cont[c].runner = "pool" => ranOn[c] # LoopThread

IInv == /\ TypeInv /\ OnePlace /\ OpenWhenWaiting /\ TargetsAreOpen /\ StartsAreOpen
        /\ WhereItWasRun

-----------------------------------------------------------------------------

(* A continuation that is added comes to one place, and no other one moves. *)
LEMMA AddContinuationAdds ==
    ASSUME TypeInv, NEW t \in Threads, NEW f \in Futures, NEW c \in Continuations,
           AddContinuation(t, f, c)
    PROVE  /\ \A b \in Continuations : b # c =>
                 /\ \A p \in Futures : b \in waiting'[p] <=> b \in waiting[p]
                 /\ \A s \in Threads : b \in todo'[s] <=> b \in todo[s]
           /\ ~ IsWaiting(c) /\ ~ IsToDo(c) =>
                 /\ \A g, h \in Futures : c \in waiting'[g] /\ c \in waiting'[h] => g = h
                 /\ \A s, u \in Threads : c \in todo'[s] /\ c \in todo'[u] => s = u
                 /\ ~ (IsWaiting(c)' /\ IsToDo(c)')
<1>1. CASE state[f] = "finished"
  BY <1>1 DEF TypeInv, AddContinuation, IsWaiting, IsToDo
<1>2. CASE state[f] # "finished"
  BY <1>2 DEF TypeInv, AddContinuation, KeepContinuation, IsWaiting, IsToDo
<1>3. QED  BY <1>1, <1>2

(* A promise makes an open future that nothing waits for.                  *)
LEMMA CreatePromiseKeeps ==
    ASSUME IInv, NEW f \in Futures, CreatePromise(f)
    PROVE  IInv'
<1> USE NobodyAssumption, ThreadsAssumption DEF IInv
<1>1. TypeInv'
  BY DEF TypeInv, ContinuationRecords, Threads, CreatePromise, Create,
     futureVars, programVars, threadVars
<1>2. OnePlace'
  BY DEF OnePlace, OnePlaceOf, TypeInv, IsWaiting, IsToDo, IsRunning,
     CreatePromise, Create, futureVars, programVars, threadVars
<1>3. OpenWhenWaiting'
  BY DEF OpenWhenWaiting, TypeInv, CreatePromise, Create, futureVars,
     programVars, threadVars
<1>4. TargetsAreOpen'
  BY DEF TargetsAreOpen, TypeInv, OnePlace, OnePlaceOf, StartsAreOpen,
     IsWaiting, IsToDo, IsRunning, CreatePromise, Create, futureVars,
     programVars, threadVars
<1>5. StartsAreOpen'
  BY DEF StartsAreOpen, TypeInv, TargetsAreOpen, OnePlace, OnePlaceOf,
     OpenWhenWaiting, IsWaiting, IsToDo, IsRunning, CreatePromise, Create,
     futureVars, programVars, threadVars
<1>6. WhereItWasRun'
  BY DEF WhereItWasRun, TypeInv, OnePlace, OnePlaceOf, Threads, IsWaiting,
     IsToDo, IsRunning, CreatePromise, Create, futureVars, programVars,
     threadVars
<1>7. QED  BY <1>1, <1>2, <1>3, <1>4, <1>5, <1>6

(* So does a future that is made finished.                                 *)
LEMMA CreateFinishedKeeps ==
    ASSUME IInv, NEW f \in Futures, CreateFinished(f)
    PROVE  IInv'
<1> USE NobodyAssumption, ThreadsAssumption DEF IInv
<1>1. TypeInv'
  BY DEF TypeInv, ContinuationRecords, Threads, CreateFinished, Create,
     futureVars, programVars, threadVars
<1>2. OnePlace'
  BY DEF OnePlace, OnePlaceOf, TypeInv, IsWaiting, IsToDo, IsRunning,
     CreateFinished, Create, futureVars, programVars, threadVars
<1>3. OpenWhenWaiting'
  BY DEF OpenWhenWaiting, TypeInv, CreateFinished, Create, futureVars,
     programVars, threadVars
<1>4. TargetsAreOpen'
  BY DEF TargetsAreOpen, TypeInv, OnePlace, OnePlaceOf, StartsAreOpen,
     IsWaiting, IsToDo, IsRunning, CreateFinished, Create, futureVars,
     programVars, threadVars
<1>5. StartsAreOpen'
  BY DEF StartsAreOpen, TypeInv, TargetsAreOpen, OnePlace, OnePlaceOf,
     OpenWhenWaiting, IsWaiting, IsToDo, IsRunning, CreateFinished, Create,
     futureVars, programVars, threadVars
<1>6. WhereItWasRun'
  BY DEF WhereItWasRun, TypeInv, OnePlace, OnePlaceOf, Threads, IsWaiting,
     IsToDo, IsRunning, CreateFinished, Create, futureVars, programVars,
     threadVars
<1>7. QED  BY <1>1, <1>2, <1>3, <1>4, <1>5, <1>6

(* A promise's future is the target of no continuation and of no job.      *)
LEMMA SetOutcomeKeeps ==
    ASSUME IInv, NEW t \in Threads, NEW f \in Futures, SetOutcome(t, f)
    PROVE  IInv'
<1> USE NobodyAssumption, ThreadsAssumption DEF IInv
<1>1. TypeInv'
  BY DEF TypeInv, ContinuationRecords, Threads, SetOutcome,
     StoreAndContinueFrom, futureVars, programVars, threadVars
<1>2. OnePlace'
  BY DEF OnePlace, OnePlaceOf, TypeInv, IsWaiting, IsToDo, IsRunning,
     SetOutcome, StoreAndContinueFrom, futureVars, programVars, threadVars
<1>3. OpenWhenWaiting'
  BY DEF OpenWhenWaiting, TypeInv, SetOutcome, StoreAndContinueFrom,
     futureVars, programVars, threadVars
<1>4. TargetsAreOpen'
  BY DEF TargetsAreOpen, TypeInv, OnePlace, OnePlaceOf, StartsAreOpen,
     IsWaiting, IsToDo, IsRunning, SetOutcome, StoreAndContinueFrom,
     futureVars, programVars, threadVars
<1>5. StartsAreOpen'
  BY DEF StartsAreOpen, TypeInv, TargetsAreOpen, OnePlace, OnePlaceOf,
     OpenWhenWaiting, IsWaiting, IsToDo, IsRunning, SetOutcome,
     StoreAndContinueFrom, futureVars, programVars, threadVars
<1>6. WhereItWasRun'
  BY DEF WhereItWasRun, TypeInv, OnePlace, OnePlaceOf, Threads, IsWaiting,
     IsToDo, IsRunning, SetOutcome, StoreAndContinueFrom, futureVars,
     programVars, threadVars
<1>7. QED  BY <1>1, <1>2, <1>3, <1>4, <1>5, <1>6

(* A runner's job makes a future of its own.                               *)
LEMMA RunOnKeeps ==
    ASSUME IInv, NEW f \in Futures, NEW where \in {"pool", "loop"}, RunOn(f, where)
    PROVE  IInv'
<1> USE NobodyAssumption, ThreadsAssumption DEF IInv
<1>1. TypeInv'
  BY DEF TypeInv, ContinuationRecords, Threads, RunOn, Create, futureVars,
     programVars, threadVars
<1>2. OnePlace'
  BY DEF OnePlace, OnePlaceOf, TypeInv, IsWaiting, IsToDo, IsRunning, RunOn,
     Create, futureVars, programVars, threadVars
<1>3. OpenWhenWaiting'
  BY DEF OpenWhenWaiting, TypeInv, RunOn, Create, futureVars, programVars,
     threadVars
<1>4. TargetsAreOpen'
  BY DEF TargetsAreOpen, TypeInv, OnePlace, OnePlaceOf, StartsAreOpen,
     IsWaiting, IsToDo, IsRunning, RunOn, Create, futureVars, programVars,
     threadVars
<1>5. StartsAreOpen'
  BY DEF StartsAreOpen, TypeInv, TargetsAreOpen, OnePlace, OnePlaceOf,
     OpenWhenWaiting, IsWaiting, IsToDo, IsRunning, RunOn, Create, futureVars,
     programVars, threadVars
<1>6. WhereItWasRun'
  BY DEF WhereItWasRun, TypeInv, OnePlace, OnePlaceOf, Threads, IsWaiting,
     IsToDo, IsRunning, RunOn, Create, futureVars, programVars, threadVars
<1>7. QED  BY <1>1, <1>2, <1>3, <1>4, <1>5, <1>6

(* So does a job that returns a future, with the continuation it reserves. *)
LEMMA RunIndirectOnLoopKeeps ==
    ASSUME IInv, NEW f \in Futures, NEW d \in Continuations, RunIndirectOnLoop(f, d)
    PROVE  IInv'
<1> USE NobodyAssumption, ThreadsAssumption DEF IInv
<1>1. TypeInv'
  BY DEF TypeInv, ContinuationRecords, Threads, RunIndirectOnLoop, Create,
     NextUnused, StoreAt, ThatStoresResultAt, futureVars, programVars,
     threadVars
<1>2. OnePlace'
  BY DEF OnePlace, OnePlaceOf, TypeInv, IsWaiting, IsToDo, IsRunning,
     RunIndirectOnLoop, Create, NextUnused, StoreAt, ThatStoresResultAt,
     futureVars, programVars, threadVars
<1>3. OpenWhenWaiting'
  BY DEF OpenWhenWaiting, TypeInv, RunIndirectOnLoop, Create, NextUnused,
     StoreAt, ThatStoresResultAt, futureVars, programVars, threadVars
<1>4. TargetsAreOpen'
  BY DEF TargetsAreOpen, TypeInv, OnePlace, OnePlaceOf, StartsAreOpen,
     IsWaiting, IsToDo, IsRunning, RunIndirectOnLoop, Create, NextUnused,
     StoreAt, ThatStoresResultAt, futureVars, programVars, threadVars
<1>5. StartsAreOpen'
  BY DEF StartsAreOpen, TypeInv, TargetsAreOpen, OnePlace, OnePlaceOf,
     OpenWhenWaiting, IsWaiting, IsToDo, IsRunning, RunIndirectOnLoop, Create,
     NextUnused, StoreAt, ThatStoresResultAt, futureVars, programVars,
     threadVars
<1>6. WhereItWasRun'
  BY DEF WhereItWasRun, TypeInv, OnePlace, OnePlaceOf, Threads, IsWaiting,
     IsToDo, IsRunning, RunIndirectOnLoop, Create, NextUnused, StoreAt,
     ThatStoresResultAt, futureVars, programVars, threadVars
<1>7. QED  BY <1>1, <1>2, <1>3, <1>4, <1>5, <1>6

(* A handler stores nowhere.                                               *)
LEMMA HandleOnEventLoopKeeps ==
    ASSUME IInv, NEW t \in Threads, NEW f \in Futures,
           NEW c \in Continuations, NEW r \in Receivers, HandleOnEventLoop(t, f, c, r)
    PROVE  IInv'
<1> USE NobodyAssumption, ThreadsAssumption DEF IInv
<1>1. TypeInv'
  BY DEF TypeInv, ContinuationRecords, Threads, HandleOnEventLoop, New,
     NextUnused, AddContinuation, KeepContinuation, Handler, futureVars,
     programVars, threadVars
<1>2. OnePlace'
  <2> SUFFICES ASSUME NEW b \in Continuations
               PROVE  OnePlaceOf(b)'
    BY DEF OnePlace
  <2>1. AddContinuation(t, f, c) /\ c \in Continuations
    BY DEF TypeInv, HandleOnEventLoop, New, NextUnused, futureVars,
       programVars, threadVars, ContinuationRecords, Threads, OnePlace,
       OnePlaceOf, IsRunning
  <2>2. CASE b # c
    <3>1. /\ \A p \in Futures : b \in waiting'[p] <=> b \in waiting[p]
          /\ \A s \in Threads : b \in todo'[s] <=> b \in todo[s]
      BY <2>1, <2>2, AddContinuationAdds DEF Threads
    <3>2. QED
      BY <2>2, <3>1 DEF TypeInv, OnePlace, OnePlaceOf, IsWaiting, IsToDo, IsRunning,
         HandleOnEventLoop, New, NextUnused, futureVars, programVars,
         threadVars
  <2>3. CASE b = c
    <3>1. ~ IsWaiting(b) /\ ~ IsToDo(b)
      BY <2>3 DEF TypeInv, OnePlace, OnePlaceOf, IsWaiting, IsToDo, IsRunning,
         HandleOnEventLoop, New, NextUnused, futureVars, programVars,
         threadVars
    <3>2. /\ \A p, q \in Futures : b \in waiting'[p] /\ b \in waiting'[q] => p = q
          /\ \A s, u \in Threads : b \in todo'[s] /\ b \in todo'[u] => s = u
          /\ ~ (IsWaiting(b)' /\ IsToDo(b)')
      BY <2>1, <2>3, <3>1, AddContinuationAdds DEF Threads
    <3>3. QED
      BY <2>3, <3>1, <3>2 DEF TypeInv, OnePlace, OnePlaceOf, IsWaiting, IsToDo, IsRunning,
         HandleOnEventLoop, New, NextUnused, futureVars, programVars,
         threadVars
  <2>4. QED  BY <2>2, <2>3
<1>3. OpenWhenWaiting'
  BY DEF OpenWhenWaiting, TypeInv, HandleOnEventLoop, New, NextUnused,
     AddContinuation, KeepContinuation, Handler, futureVars, programVars,
     threadVars
<1>4. TargetsAreOpen'
  BY DEF TargetsAreOpen, TypeInv, OnePlace, OnePlaceOf, StartsAreOpen,
     IsWaiting, IsToDo, IsRunning, HandleOnEventLoop, New, NextUnused,
     AddContinuation, KeepContinuation, Handler, futureVars, programVars,
     threadVars
<1>5. StartsAreOpen'
  BY DEF StartsAreOpen, TypeInv, TargetsAreOpen, OnePlace, OnePlaceOf,
     OpenWhenWaiting, IsWaiting, IsToDo, IsRunning, HandleOnEventLoop, New,
     NextUnused, AddContinuation, KeepContinuation, Handler, futureVars,
     programVars, threadVars
<1>6. WhereItWasRun'
  BY DEF WhereItWasRun, TypeInv, OnePlace, OnePlaceOf, Threads, IsWaiting,
     IsToDo, IsRunning, HandleOnEventLoop, New, NextUnused, AddContinuation,
     KeepContinuation, Handler, futureVars, programVars, threadVars
<1>7. QED  BY <1>1, <1>2, <1>3, <1>4, <1>5, <1>6

(* The target of a continuation is a new future.                           *)
LEMMA ThenKeeps ==
    ASSUME IInv, NEW t \in Threads, NEW f \in Futures, NEW c \in Continuations,
           NEW g \in Futures, NEW runner \in {"loop", "pool", "any"},
           NEW r \in Receivers \cup {Nobody}, Then(t, f, c, g, runner, r)
    PROVE  IInv'
<1> USE NobodyAssumption, ThreadsAssumption DEF IInv
<1>1. TypeInv'
  BY DEF TypeInv, ContinuationRecords, Threads, Then, Create, New, NextUnused,
     AddContinuation, KeepContinuation, StoreAt, futureVars, programVars,
     threadVars
<1>2. OnePlace'
  <2> SUFFICES ASSUME NEW b \in Continuations
               PROVE  OnePlaceOf(b)'
    BY DEF OnePlace
  <2>1. AddContinuation(t, f, c) /\ c \in Continuations
    BY DEF TypeInv, Then, New, NextUnused, futureVars, programVars,
       threadVars, ContinuationRecords, Threads, OnePlace, OnePlaceOf,
       IsRunning
  <2>2. CASE b # c
    <3>1. /\ \A p \in Futures : b \in waiting'[p] <=> b \in waiting[p]
          /\ \A s \in Threads : b \in todo'[s] <=> b \in todo[s]
      BY <2>1, <2>2, AddContinuationAdds DEF Threads
    <3>2. QED
      BY <2>2, <3>1 DEF TypeInv, OnePlace, OnePlaceOf, IsWaiting, IsToDo, IsRunning,
         Then, New, NextUnused, futureVars, programVars, threadVars
  <2>3. CASE b = c
    <3>1. ~ IsWaiting(b) /\ ~ IsToDo(b)
      BY <2>3 DEF TypeInv, OnePlace, OnePlaceOf, IsWaiting, IsToDo, IsRunning,
         Then, New, NextUnused, futureVars, programVars, threadVars
    <3>2. /\ \A p, q \in Futures : b \in waiting'[p] /\ b \in waiting'[q] => p = q
          /\ \A s, u \in Threads : b \in todo'[s] /\ b \in todo'[u] => s = u
          /\ ~ (IsWaiting(b)' /\ IsToDo(b)')
      BY <2>1, <2>3, <3>1, AddContinuationAdds DEF Threads
    <3>3. QED
      BY <2>3, <3>1, <3>2 DEF TypeInv, OnePlace, OnePlaceOf, IsWaiting, IsToDo, IsRunning,
         Then, New, NextUnused, futureVars, programVars, threadVars
  <2>4. QED  BY <2>2, <2>3
<1>3. OpenWhenWaiting'
  BY DEF OpenWhenWaiting, TypeInv, Then, Create, New, NextUnused,
     AddContinuation, KeepContinuation, StoreAt, futureVars, programVars,
     threadVars
<1>4. TargetsAreOpen'
  BY DEF TargetsAreOpen, TypeInv, OnePlace, OnePlaceOf, StartsAreOpen,
     IsWaiting, IsToDo, IsRunning, Then, Create, New, NextUnused,
     AddContinuation, KeepContinuation, StoreAt, futureVars, programVars,
     threadVars
<1>5. StartsAreOpen'
  BY DEF StartsAreOpen, TypeInv, TargetsAreOpen, OnePlace, OnePlaceOf,
     OpenWhenWaiting, IsWaiting, IsToDo, IsRunning, Then, Create, New,
     NextUnused, AddContinuation, KeepContinuation, StoreAt, futureVars,
     programVars, threadVars
<1>6. WhereItWasRun'
  BY DEF WhereItWasRun, TypeInv, OnePlace, OnePlaceOf, Threads, IsWaiting,
     IsToDo, IsRunning, Then, Create, New, NextUnused, AddContinuation,
     KeepContinuation, StoreAt, futureVars, programVars, threadVars
<1>7. QED  BY <1>1, <1>2, <1>3, <1>4, <1>5, <1>6

(* So is that of the second continuation of an indirect one.               *)
LEMMA ThenIndirectKeeps ==
    ASSUME IInv, NEW t \in Threads, NEW f \in Futures, NEW c \in Continuations,
           NEW d \in Continuations, NEW g \in Futures, ThenIndirect(t, f, c, d, g)
    PROVE  IInv'
<1> USE NobodyAssumption, ThreadsAssumption DEF IInv
<1>1. TypeInv'
  BY DEF TypeInv, ContinuationRecords, Threads, ThenIndirect, Create,
     NextUnused, AddContinuation, KeepContinuation, Indirect, StoreAt,
     ThatStoresResultAt, futureVars, programVars, threadVars
<1>2. OnePlace'
  <2> SUFFICES ASSUME NEW b \in Continuations
               PROVE  OnePlaceOf(b)'
    BY DEF OnePlace
  <2>1. AddContinuation(t, f, c) /\ c \in Continuations
    BY DEF TypeInv, ThenIndirect, NextUnused, futureVars, programVars,
       threadVars, ContinuationRecords, Threads, OnePlace, OnePlaceOf,
       IsRunning
  <2>2. CASE b # c
    <3>1. /\ \A p \in Futures : b \in waiting'[p] <=> b \in waiting[p]
          /\ \A s \in Threads : b \in todo'[s] <=> b \in todo[s]
      BY <2>1, <2>2, AddContinuationAdds DEF Threads
    <3>2. QED
      BY <2>2, <3>1 DEF TypeInv, OnePlace, OnePlaceOf, IsWaiting, IsToDo, IsRunning,
         ThenIndirect, NextUnused, futureVars, programVars, threadVars
  <2>3. CASE b = c
    <3>1. ~ IsWaiting(b) /\ ~ IsToDo(b)
      BY <2>3 DEF TypeInv, OnePlace, OnePlaceOf, IsWaiting, IsToDo, IsRunning,
         ThenIndirect, NextUnused, futureVars, programVars, threadVars
    <3>2. /\ \A p, q \in Futures : b \in waiting'[p] /\ b \in waiting'[q] => p = q
          /\ \A s, u \in Threads : b \in todo'[s] /\ b \in todo'[u] => s = u
          /\ ~ (IsWaiting(b)' /\ IsToDo(b)')
      BY <2>1, <2>3, <3>1, AddContinuationAdds DEF Threads
    <3>3. QED
      BY <2>3, <3>1, <3>2 DEF TypeInv, OnePlace, OnePlaceOf, IsWaiting, IsToDo, IsRunning,
         ThenIndirect, NextUnused, futureVars, programVars, threadVars
  <2>4. QED  BY <2>2, <2>3
<1>3. OpenWhenWaiting'
  BY DEF OpenWhenWaiting, TypeInv, ThenIndirect, Create, NextUnused,
     AddContinuation, KeepContinuation, Indirect, StoreAt,
     ThatStoresResultAt, futureVars, programVars, threadVars
<1>4. TargetsAreOpen'
  BY DEF TargetsAreOpen, TypeInv, OnePlace, OnePlaceOf, StartsAreOpen,
     IsWaiting, IsToDo, IsRunning, ThenIndirect, Create, NextUnused,
     AddContinuation, KeepContinuation, Indirect, StoreAt,
     ThatStoresResultAt, futureVars, programVars, threadVars
<1>5. StartsAreOpen'
  <2>1. /\ c \notin used /\ d \notin used /\ c # d
        /\ cont'[c] = Indirect(d) /\ cont'[d] = ThatStoresResultAt(g)
        /\ \A b \in used : cont'[b] = cont[b]
        /\ used' = used \cup {c, d} /\ reserved' = reserved \cup {d}
    BY DEF ThenIndirect, NextUnused, TypeInv
  <2>2. /\ state[g] = "unused" /\ made'[g] = "continuation" /\ starts' = starts
        /\ \A h \in Futures : h # g => state'[h] = state[h] /\ made'[h] = made[h]
    BY DEF ThenIndirect, Create, TypeInv
  <2>3. \A f1 \in starts : f1 # g
    BY <2>2 DEF StartsAreOpen
  <2>4. \A b \in used : cont[b].does = "store" => cont[b].target # g /\ cont[b].target \in Futures
    BY <2>2 DEF TargetsAreOpen
  <2>5. /\ Indirect(d).does = "indirect" /\ Indirect(d).second = d
        /\ ThatStoresResultAt(g).does = "store" /\ ThatStoresResultAt(g).target = g
    BY DEF Indirect, ThatStoresResultAt, StoreAt
  <2>6. \A f1 \in starts' : state'[f1] = "open" /\ made'[f1] \in {"pool", "loop", "indirect"}
    BY <2>2, <2>3 DEF StartsAreOpen, TypeInv
  <2>7. \A f1 \in starts', b \in used' :
           cont'[b].does = "store" /\ cont'[b].target = f1 => b \in reserved'
    BY <2>1, <2>2, <2>3, <2>5 DEF StartsAreOpen
  <2>8. \A b \in used' : cont'[b].does = "indirect" =>
           /\ cont'[b].second \in used' /\ cont'[cont'[b].second].does = "store"
           /\ made'[cont'[cont'[b].second].target] = "continuation"
    <3> SUFFICES ASSUME NEW b \in used', cont'[b].does = "indirect"
                 PROVE  /\ cont'[b].second \in used' /\ cont'[cont'[b].second].does = "store"
                        /\ made'[cont'[cont'[b].second].target] = "continuation"
      OBVIOUS
    <3>1. CASE b = c
      BY <3>1, <2>1, <2>2, <2>5
    <3>2. CASE b \in used
      BY <3>2, <2>1, <2>2, <2>4 DEF StartsAreOpen
    <3>3. b # d
      BY <2>1, <2>5
    <3>4. QED  BY <3>1, <3>2, <3>3, <2>1
  <2>9. QED  BY <2>6, <2>7, <2>8 DEF StartsAreOpen
<1>6. WhereItWasRun'
  BY DEF WhereItWasRun, TypeInv, OnePlace, OnePlaceOf, Threads, IsWaiting,
     IsToDo, IsRunning, ThenIndirect, Create, NextUnused, AddContinuation,
     KeepContinuation, Indirect, StoreAt, ThatStoresResultAt, futureVars,
     programVars, threadVars
<1>7. QED  BY <1>1, <1>2, <1>3, <1>4, <1>5, <1>6

(* What a receiver takes along has come to its end.                        *)
LEMMA DestroyKeeps ==
    ASSUME IInv, NEW r \in Receivers, Destroy(r)
    PROVE  IInv'
<1> USE NobodyAssumption, ThreadsAssumption DEF IInv
<1>1. TypeInv'
  BY DEF TypeInv, ContinuationRecords, Threads, Destroy, futureVars,
     programVars, threadVars
<1>2. OnePlace'
  BY DEF OnePlace, OnePlaceOf, TypeInv, IsWaiting, IsToDo, IsRunning, Destroy,
     futureVars, programVars, threadVars
<1>3. OpenWhenWaiting'
  BY DEF OpenWhenWaiting, TypeInv, Destroy, futureVars, programVars,
     threadVars
<1>4. TargetsAreOpen'
  BY DEF TargetsAreOpen, TypeInv, OnePlace, OnePlaceOf, StartsAreOpen,
     IsWaiting, IsToDo, IsRunning, Destroy, futureVars, programVars,
     threadVars
<1>5. StartsAreOpen'
  BY DEF StartsAreOpen, TypeInv, TargetsAreOpen, OnePlace, OnePlaceOf,
     OpenWhenWaiting, IsWaiting, IsToDo, IsRunning, Destroy, futureVars,
     programVars, threadVars
<1>6. WhereItWasRun'
  BY DEF WhereItWasRun, TypeInv, OnePlace, OnePlaceOf, Threads, IsWaiting,
     IsToDo, IsRunning, Destroy, futureVars, programVars, threadVars
<1>7. QED  BY <1>1, <1>2, <1>3, <1>4, <1>5, <1>6

(* What is to be continued with is run, or given to one runner.            *)
LEMMA ContinueFromKeeps ==
    ASSUME IInv, NEW t \in Threads, NEW c \in Continuations, ContinueFrom(t, c)
    PROVE  IInv'
<1> USE NobodyAssumption, ThreadsAssumption DEF IInv
<1>1. TypeInv'
  BY DEF TypeInv, ContinuationRecords, Threads, ContinueFrom, ContinueAtOnce,
     GiveToRunner, CanContinueInThreadFrom, futureVars, programVars,
     threadVars
<1>2. OnePlace'
  BY DEF OnePlace, OnePlaceOf, TypeInv, IsWaiting, IsToDo, IsRunning,
     ContinueFrom, ContinueAtOnce, GiveToRunner, CanContinueInThreadFrom,
     futureVars, programVars, threadVars
<1>3. OpenWhenWaiting'
  BY DEF OpenWhenWaiting, TypeInv, ContinueFrom, ContinueAtOnce, GiveToRunner,
     CanContinueInThreadFrom, futureVars, programVars, threadVars
<1>4. TargetsAreOpen'
  BY DEF TargetsAreOpen, TypeInv, OnePlace, OnePlaceOf, StartsAreOpen,
     IsWaiting, IsToDo, IsRunning, ContinueFrom, ContinueAtOnce, GiveToRunner,
     CanContinueInThreadFrom, futureVars, programVars, threadVars
<1>5. StartsAreOpen'
  BY DEF StartsAreOpen, TypeInv, TargetsAreOpen, OnePlace, OnePlaceOf,
     OpenWhenWaiting, IsWaiting, IsToDo, IsRunning, ContinueFrom,
     ContinueAtOnce, GiveToRunner, CanContinueInThreadFrom, futureVars,
     programVars, threadVars
<1>6. WhereItWasRun'
  BY DEF WhereItWasRun, TypeInv, OnePlace, OnePlaceOf, Threads, IsWaiting,
     IsToDo, IsRunning, ContinueFrom, ContinueAtOnce, GiveToRunner,
     CanContinueInThreadFrom, futureVars, programVars, threadVars
<1>7. QED  BY <1>1, <1>2, <1>3, <1>4, <1>5, <1>6

(* A runner gives its job to one thread.                                   *)
LEMMA TakeJobKeeps ==
    ASSUME IInv, NEW t \in Threads, NEW c \in Continuations, TakeJob(t, c)
    PROVE  IInv'
<1> USE NobodyAssumption, ThreadsAssumption DEF IInv
<1>1. TypeInv'
  BY DEF TypeInv, ContinuationRecords, Threads, TakeJob, Idle, futureVars,
     programVars, threadVars
<1>2. OnePlace'
  BY DEF OnePlace, OnePlaceOf, TypeInv, IsWaiting, IsToDo, IsRunning, TakeJob,
     Idle, futureVars, programVars, threadVars
<1>3. OpenWhenWaiting'
  BY DEF OpenWhenWaiting, TypeInv, TakeJob, Idle, futureVars, programVars,
     threadVars
<1>4. TargetsAreOpen'
  BY DEF TargetsAreOpen, TypeInv, OnePlace, OnePlaceOf, StartsAreOpen,
     IsWaiting, IsToDo, IsRunning, TakeJob, Idle, futureVars, programVars,
     threadVars
<1>5. StartsAreOpen'
  BY DEF StartsAreOpen, TypeInv, TargetsAreOpen, OnePlace, OnePlaceOf,
     OpenWhenWaiting, IsWaiting, IsToDo, IsRunning, TakeJob, Idle, futureVars,
     programVars, threadVars
<1>6. WhereItWasRun'
  BY DEF WhereItWasRun, TypeInv, OnePlace, OnePlaceOf, Threads, IsWaiting,
     IsToDo, IsRunning, TakeJob, Idle, futureVars, programVars, threadVars
<1>7. QED  BY <1>1, <1>2, <1>3, <1>4, <1>5, <1>6

(* A handler that was run stores nothing.                                  *)
LEMMA FinishHandlerKeeps ==
    ASSUME IInv, NEW t \in Threads, FinishHandler(t)
    PROVE  IInv'
<1> USE NobodyAssumption, ThreadsAssumption DEF IInv
<1>1. TypeInv'
  BY DEF TypeInv, ContinuationRecords, Threads, FinishHandler, Ran,
     futureVars, programVars, threadVars
<1>2. OnePlace'
  BY DEF OnePlace, OnePlaceOf, TypeInv, IsWaiting, IsToDo, IsRunning,
     FinishHandler, Ran, futureVars, programVars, threadVars
<1>3. OpenWhenWaiting'
  BY DEF OpenWhenWaiting, TypeInv, FinishHandler, Ran, futureVars,
     programVars, threadVars
<1>4. TargetsAreOpen'
  BY DEF TargetsAreOpen, TypeInv, OnePlace, OnePlaceOf, StartsAreOpen,
     IsWaiting, IsToDo, IsRunning, FinishHandler, Ran, futureVars,
     programVars, threadVars
<1>5. StartsAreOpen'
  BY DEF StartsAreOpen, TypeInv, TargetsAreOpen, OnePlace, OnePlaceOf,
     OpenWhenWaiting, IsWaiting, IsToDo, IsRunning, FinishHandler, Ran,
     futureVars, programVars, threadVars
<1>6. WhereItWasRun'
  BY DEF WhereItWasRun, TypeInv, OnePlace, OnePlaceOf, Threads, IsWaiting,
     IsToDo, IsRunning, FinishHandler, Ran, futureVars, programVars,
     threadVars
<1>7. QED  BY <1>1, <1>2, <1>3, <1>4, <1>5, <1>6

(* Nobody else is left who could store at the target.                      *)
LEMMA FinishStoreKeeps ==
    ASSUME IInv, NEW t \in Threads, FinishStore(t)
    PROVE  IInv'
<1> USE NobodyAssumption, ThreadsAssumption DEF IInv
<1> DEFINE c == running[t]
<1>a. c \in used \ done /\ cont[c].target \in Futures /\ state[cont[c].target] = "open"
      /\ made[cont[c].target] \in {"continuation", "indirect"}
  BY DEF TypeInv, OnePlace, OnePlaceOf, TargetsAreOpen, IsRunning,
     FinishStore, Ran
<1>1. TypeInv'
  BY <1>a DEF TypeInv, ContinuationRecords, Threads, FinishStore, Ran,
     StoreAndContinueFrom, futureVars, programVars, threadVars
<1>2. OnePlace'
  BY <1>a DEF OnePlace, OnePlaceOf, TypeInv, IsWaiting, IsToDo, IsRunning,
     FinishStore, Ran, StoreAndContinueFrom, futureVars, programVars,
     threadVars
<1>3. OpenWhenWaiting'
  BY <1>a DEF OpenWhenWaiting, TypeInv, FinishStore, Ran, StoreAndContinueFrom,
     futureVars, programVars, threadVars
<1>4. TargetsAreOpen'
  BY <1>a DEF TargetsAreOpen, TypeInv, OnePlace, OnePlaceOf, StartsAreOpen,
     IsWaiting, IsToDo, IsRunning, FinishStore, Ran, StoreAndContinueFrom,
     futureVars, programVars, threadVars
<1>5. StartsAreOpen'
  BY <1>a DEF StartsAreOpen, TypeInv, TargetsAreOpen, OnePlace, OnePlaceOf,
     OpenWhenWaiting, IsWaiting, IsToDo, IsRunning, FinishStore, Ran,
     StoreAndContinueFrom, futureVars, programVars, threadVars
<1>6. WhereItWasRun'
  BY <1>a DEF WhereItWasRun, TypeInv, OnePlace, OnePlaceOf, Threads, IsWaiting,
     IsToDo, IsRunning, FinishStore, Ran, StoreAndContinueFrom, futureVars,
     programVars, threadVars
<1>7. QED  BY <1>1, <1>2, <1>3, <1>4, <1>5, <1>6

(* The reserved continuation is added once.                                *)
LEMMA FinishIndirectKeeps ==
    ASSUME IInv, NEW t \in Threads, NEW h \in Futures, FinishIndirect(t, h)
    PROVE  IInv'
<1> USE NobodyAssumption, ThreadsAssumption DEF IInv
<1>1. TypeInv'
  BY DEF TypeInv, ContinuationRecords, Threads, FinishIndirect, Ran, Returned,
     AddReserved, AddContinuation, KeepContinuation, futureVars,
     programVars, threadVars
<1>2. OnePlace'
  <2> SUFFICES ASSUME NEW b \in Continuations
               PROVE  OnePlaceOf(b)'
    BY DEF OnePlace
  <2>1. AddContinuation(t, h, cont[running[t]].second) /\ cont[running[t]].second \in Continuations
    BY DEF TypeInv, FinishIndirect, Ran, AddReserved, futureVars, programVars,
       threadVars, ContinuationRecords, Threads, OnePlace, OnePlaceOf,
       IsRunning
  <2>2. CASE b # cont[running[t]].second
    <3>1. /\ \A p \in Futures : b \in waiting'[p] <=> b \in waiting[p]
          /\ \A s \in Threads : b \in todo'[s] <=> b \in todo[s]
      BY <2>1, <2>2, AddContinuationAdds DEF Threads
    <3>2. QED
      BY <2>2, <3>1 DEF TypeInv, OnePlace, OnePlaceOf, IsWaiting, IsToDo, IsRunning,
         FinishIndirect, Ran, AddReserved, futureVars, programVars, threadVars
  <2>3. CASE b = cont[running[t]].second
    <3>1. ~ IsWaiting(b) /\ ~ IsToDo(b)
      BY <2>3 DEF TypeInv, OnePlace, OnePlaceOf, IsWaiting, IsToDo, IsRunning,
         FinishIndirect, Ran, AddReserved, futureVars, programVars, threadVars
    <3>2. /\ \A p, q \in Futures : b \in waiting'[p] /\ b \in waiting'[q] => p = q
          /\ \A s, u \in Threads : b \in todo'[s] /\ b \in todo'[u] => s = u
          /\ ~ (IsWaiting(b)' /\ IsToDo(b)')
      BY <2>1, <2>3, <3>1, AddContinuationAdds DEF Threads
    <3>3. QED
      BY <2>3, <3>1, <3>2 DEF TypeInv, OnePlace, OnePlaceOf, IsWaiting, IsToDo, IsRunning,
         FinishIndirect, Ran, AddReserved, futureVars, programVars, threadVars
  <2>4. QED  BY <2>2, <2>3
<1>3. OpenWhenWaiting'
  BY DEF OpenWhenWaiting, TypeInv, FinishIndirect, Ran, Returned, AddReserved,
     AddContinuation, KeepContinuation, futureVars, programVars,
     threadVars
<1>4. TargetsAreOpen'
  BY DEF TargetsAreOpen, TypeInv, OnePlace, OnePlaceOf, StartsAreOpen,
     IsWaiting, IsToDo, IsRunning, FinishIndirect, Ran, Returned, AddReserved,
     AddContinuation, KeepContinuation, futureVars, programVars,
     threadVars
<1>5. StartsAreOpen'
  BY DEF StartsAreOpen, TypeInv, TargetsAreOpen, OnePlace, OnePlaceOf,
     OpenWhenWaiting, IsWaiting, IsToDo, IsRunning, FinishIndirect, Ran,
     Returned, AddReserved, AddContinuation, KeepContinuation,
     futureVars, programVars, threadVars
<1>6. WhereItWasRun'
  BY DEF WhereItWasRun, TypeInv, OnePlace, OnePlaceOf, Threads, IsWaiting,
     IsToDo, IsRunning, FinishIndirect, Ran, Returned, AddReserved,
     AddContinuation, KeepContinuation, futureVars, programVars,
     threadVars
<1>7. QED  BY <1>1, <1>2, <1>3, <1>4, <1>5, <1>6

(* A job is run once.                                                      *)
LEMMA RunStartKeeps ==
    ASSUME IInv, NEW t \in Threads, NEW f \in Futures, RunStart(t, f)
    PROVE  IInv'
<1> USE NobodyAssumption, ThreadsAssumption DEF IInv
<1>1. TypeInv'
  BY DEF TypeInv, ContinuationRecords, Threads, RunStart, Idle,
     StoreAndContinueFrom, futureVars, programVars, threadVars
<1>2. OnePlace'
  BY DEF OnePlace, OnePlaceOf, TypeInv, IsWaiting, IsToDo, IsRunning,
     RunStart, Idle, StoreAndContinueFrom, futureVars, programVars, threadVars
<1>3. OpenWhenWaiting'
  BY DEF OpenWhenWaiting, TypeInv, RunStart, Idle, StoreAndContinueFrom,
     futureVars, programVars, threadVars
<1>4. TargetsAreOpen'
  BY DEF TargetsAreOpen, TypeInv, OnePlace, OnePlaceOf, StartsAreOpen,
     IsWaiting, IsToDo, IsRunning, RunStart, Idle, StoreAndContinueFrom,
     futureVars, programVars, threadVars
<1>5. StartsAreOpen'
  BY DEF StartsAreOpen, TypeInv, TargetsAreOpen, OnePlace, OnePlaceOf,
     OpenWhenWaiting, IsWaiting, IsToDo, IsRunning, RunStart, Idle,
     StoreAndContinueFrom, futureVars, programVars, threadVars
<1>6. WhereItWasRun'
  BY DEF WhereItWasRun, TypeInv, OnePlace, OnePlaceOf, Threads, IsWaiting,
     IsToDo, IsRunning, RunStart, Idle, StoreAndContinueFrom, futureVars,
     programVars, threadVars
<1>7. QED  BY <1>1, <1>2, <1>3, <1>4, <1>5, <1>6

(* The continuation reserved by a job is added once.                       *)
LEMMA RunStartIndirectKeeps ==
    ASSUME IInv, NEW f \in Futures, NEW h \in Futures, NEW d \in Continuations, RunStartIndirect(f, h, d)
    PROVE  IInv'
<1> USE NobodyAssumption, ThreadsAssumption DEF IInv
<1>1. TypeInv'
  BY DEF TypeInv, ContinuationRecords, Threads, RunStartIndirect, Idle,
     Returned, AddReserved, AddContinuation, KeepContinuation,
     futureVars, programVars, threadVars
<1>2. OnePlace'
  <2> SUFFICES ASSUME NEW b \in Continuations
               PROVE  OnePlaceOf(b)'
    BY DEF OnePlace
  <2>1. AddContinuation(LoopThread, h, d) /\ d \in Continuations
    BY DEF TypeInv, RunStartIndirect, AddReserved, futureVars, programVars,
       threadVars, ContinuationRecords, Threads, OnePlace, OnePlaceOf,
       IsRunning
  <2>2. CASE b # d
    <3>1. /\ \A p \in Futures : b \in waiting'[p] <=> b \in waiting[p]
          /\ \A s \in Threads : b \in todo'[s] <=> b \in todo[s]
      BY <2>1, <2>2, AddContinuationAdds DEF Threads
    <3>2. QED
      BY <2>2, <3>1 DEF TypeInv, OnePlace, OnePlaceOf, IsWaiting, IsToDo, IsRunning,
         RunStartIndirect, AddReserved, futureVars, programVars, threadVars
  <2>3. CASE b = d
    <3>1. ~ IsWaiting(b) /\ ~ IsToDo(b)
      BY <2>3 DEF TypeInv, OnePlace, OnePlaceOf, IsWaiting, IsToDo, IsRunning,
         RunStartIndirect, AddReserved, futureVars, programVars, threadVars
    <3>2. /\ \A p, q \in Futures : b \in waiting'[p] /\ b \in waiting'[q] => p = q
          /\ \A s, u \in Threads : b \in todo'[s] /\ b \in todo'[u] => s = u
          /\ ~ (IsWaiting(b)' /\ IsToDo(b)')
      BY <2>1, <2>3, <3>1, AddContinuationAdds DEF Threads
    <3>3. QED
      BY <2>3, <3>1, <3>2 DEF TypeInv, OnePlace, OnePlaceOf, IsWaiting, IsToDo, IsRunning,
         RunStartIndirect, AddReserved, futureVars, programVars, threadVars
  <2>4. QED  BY <2>2, <2>3
<1>3. OpenWhenWaiting'
  BY DEF OpenWhenWaiting, TypeInv, RunStartIndirect, Idle, Returned,
     AddReserved, AddContinuation, KeepContinuation, futureVars,
     programVars, threadVars
<1>4. TargetsAreOpen'
  BY DEF TargetsAreOpen, TypeInv, OnePlace, OnePlaceOf, StartsAreOpen,
     IsWaiting, IsToDo, IsRunning, RunStartIndirect, Idle, Returned,
     AddReserved, AddContinuation, KeepContinuation, futureVars,
     programVars, threadVars
<1>5. StartsAreOpen'
  BY DEF StartsAreOpen, TypeInv, TargetsAreOpen, OnePlace, OnePlaceOf,
     OpenWhenWaiting, IsWaiting, IsToDo, IsRunning, RunStartIndirect, Idle,
     Returned, AddReserved, AddContinuation, KeepContinuation,
     futureVars, programVars, threadVars
<1>6. WhereItWasRun'
  BY DEF WhereItWasRun, TypeInv, OnePlace, OnePlaceOf, Threads, IsWaiting,
     IsToDo, IsRunning, RunStartIndirect, Idle, Returned, AddReserved,
     AddContinuation, KeepContinuation, futureVars, programVars,
     threadVars
<1>7. QED  BY <1>1, <1>2, <1>3, <1>4, <1>5, <1>6

-----------------------------------------------------------------------------

(* At first there is nothing to continue with.                             *)
LEMMA InitEstablishes ==
    ASSUME Init
    PROVE  IInv
<1> USE NobodyAssumption, ThreadsAssumption DEF Init
<1>1. TypeInv
  BY DEF TypeInv, ContinuationRecords, Unused
<1>2. OnePlace
  BY DEF OnePlace, OnePlaceOf, IsWaiting, IsToDo, IsRunning
<1>3. OpenWhenWaiting /\ TargetsAreOpen /\ StartsAreOpen /\ WhereItWasRun
  BY DEF OpenWhenWaiting, TargetsAreOpen, StartsAreOpen, WhereItWasRun
<1>4. QED  BY <1>1, <1>2, <1>3 DEF IInv

LEMMA StutteringKeeps ==
    ASSUME IInv, UNCHANGED vars
    PROVE  IInv'
  BY DEF IInv, TypeInv, OnePlace, OnePlaceOf, IsWaiting, IsToDo, IsRunning,
         OpenWhenWaiting, TargetsAreOpen, StartsAreOpen, WhereItWasRun,
         vars, futureVars, programVars, threadVars

(* Every step of the program code keeps the invariant.                     *)
LEMMA ProgramKeeps ==
    ASSUME IInv, Program
    PROVE  IInv'
<1>1. ASSUME NEW f \in Futures, CreatePromise(f) \/ CreateFinished(f)
      PROVE  IInv'
  BY <1>1, CreatePromiseKeeps, CreateFinishedKeeps
<1>2. ASSUME NEW f \in Futures, NEW where \in {"pool", "loop"}, RunOn(f, where)
      PROVE  IInv'
  BY <1>2, RunOnKeeps
<1>3. ASSUME NEW f \in Futures, NEW d \in Continuations, RunIndirectOnLoop(f, d)
      PROVE  IInv'
  BY <1>3, RunIndirectOnLoopKeeps
<1>4. ASSUME NEW t \in Threads, NEW f \in Futures, SetOutcome(t, f)
      PROVE  IInv'
  BY <1>4, SetOutcomeKeeps
<1>5. ASSUME NEW t \in Threads, NEW f \in Futures, NEW c \in Continuations,
             NEW r \in Receivers, HandleOnEventLoop(t, f, c, r)
      PROVE  IInv'
  BY <1>5, HandleOnEventLoopKeeps
<1>6. ASSUME NEW t \in Threads, NEW f \in Futures, NEW c \in Continuations,
             NEW g \in Futures, NEW runner \in {"loop", "pool", "any"},
             NEW r \in Receivers \cup {Nobody}, Then(t, f, c, g, runner, r)
      PROVE  IInv'
  BY <1>6, ThenKeeps
<1>7. ASSUME NEW t \in Threads, NEW f \in Futures, NEW c \in Continuations,
             NEW d \in Continuations, NEW g \in Futures, ThenIndirect(t, f, c, d, g)
      PROVE  IInv'
  BY <1>7, ThenIndirectKeeps
<1>8. ASSUME NEW r \in Receivers, Destroy(r)
      PROVE  IInv'
  BY <1>8, DestroyKeeps
<1>9. QED
  BY <1>1, <1>2, <1>3, <1>4, <1>5, <1>6, <1>7, <1>8 DEF Program

(* So does every step of a thread on its own.                              *)
LEMMA WorkKeeps ==
    ASSUME IInv, NEW t \in Threads, Work(t)
    PROVE  IInv'
<1>1. ASSUME NEW c \in Continuations, ContinueFrom(t, c) \/ TakeJob(t, c)
      PROVE  IInv'
  BY <1>1, ContinueFromKeeps, TakeJobKeeps
<1>2. CASE FinishHandler(t)
  BY <1>2, FinishHandlerKeeps
<1>3. CASE FinishStore(t)
  BY <1>3, FinishStoreKeeps
<1>4. ASSUME NEW h \in Futures, FinishIndirect(t, h)
      PROVE  IInv'
  BY <1>4, FinishIndirectKeeps
<1>5. ASSUME NEW f \in Futures, RunStart(t, f)
      PROVE  IInv'
  BY <1>5, RunStartKeeps
<1>6. ASSUME NEW f \in Futures, NEW h \in Futures, NEW d \in Continuations,
             RunStartIndirect(f, h, d)
      PROVE  IInv'
  BY <1>6, RunStartIndirectKeeps
<1>7. QED  BY <1>1, <1>2, <1>3, <1>4, <1>5, <1>6 DEF Work

-----------------------------------------------------------------------------

(* The invariant holds whatever the program does with its futures.         *)
THEOREM InvariantHolds == Spec => []IInv
<1>1. Init => IInv
  BY InitEstablishes
<1>2. IInv /\ [Next]_vars => IInv'
  BY ProgramKeeps, WorkKeeps, StutteringKeeps DEF Next
<1>3. QED  BY <1>1, <1>2, PTL DEF Spec

(* No step of a continuation is lost or doubled: it is with one future, one*)
(* thread or one runner until its work was run, or its receiver is gone.   *)
THEOREM ContinuationsAreInOnePlace == Spec => []OnePlace
<1>1. IInv => OnePlace
  BY DEF IInv
<1>2. QED  BY <1>1, InvariantHolds, PTL

(* The assertion of storeAndContinueFrom never fails: an outcome is stored *)
(* once, by the one continuation, promise or job that owes it.             *)
THEOREM OutcomesAreStoredOnceTheorem == Spec => []OutcomesAreStoredOnce
<1>1. IInv => OutcomesAreStoredOnce
  <2> SUFFICES ASSUME IInv PROVE OutcomesAreStoredOnce
    OBVIOUS
  <2>1. ASSUME NEW t \in Threads, running[t] # Nobody, cont[running[t]].does = "store"
        PROVE  state[cont[running[t]].target] = "open"
    <3>1. running[t] \in used \ done
      BY <2>1 DEF IInv, TypeInv, OnePlace, OnePlaceOf, IsRunning
    <3>2. QED  BY <2>1, <3>1 DEF IInv, TargetsAreOpen
  <2>2. QED  BY <2>1 DEF IInv, StartsAreOpen, OutcomesAreStoredOnce
<1>2. QED  BY <1>1, InvariantHolds, PTL

(* What is for the event loop is run in its thread and nowhere else, and   *)
(* what is for a pool never blocks the event loop.                         *)
THEOREM RunsWhereItBelongsTheorem == Spec => []RunsWhereItBelongs
<1>1. IInv => RunsWhereItBelongs
  <2> SUFFICES ASSUME IInv, NEW c \in Continuations, NEW t \in Threads,
                      c = running[t] \/ (c \in done /\ ranOn[c] = t)
               PROVE  /\ cont[c].runner = "loop" => t = LoopThread
                      /\ cont[c].runner = "pool" => t \in PoolThreads
    BY DEF RunsWhereItBelongs
  <2>1. c # Nobody
    BY NobodyAssumption
  <2>2. /\ cont[c].runner = "loop" => t = LoopThread
        /\ cont[c].runner = "pool" => t # LoopThread
    BY <2>1 DEF IInv, WhereItWasRun
  <2>3. QED  BY <2>2 DEF Threads
<1>2. QED  BY <1>1, InvariantHolds, PTL
=============================================================================
