------------------------------ MODULE Futures ------------------------------
(***************************************************************************)
(* Futures, promises and runners (src/common/future.h, promise.h, async.h, *)
(* concurrent.h, runners.cpp), which carry every result that one thread    *)
(* owes to another.                                                        *)
(*                                                                         *)
(* A future is finished by a promise, by a job of a runner, or by the work *)
(* of a continuation of another future.  A continuation has a runner: the  *)
(* event loop of a receiver, a thread pool, or any thread.  Whoever        *)
(* finishes a future takes its continuations under the mutex and continues *)
(* with them, one after the other, without it; the critical sections are   *)
(* single steps.  Program code adds continuations and sets outcomes at any *)
(* time, in any thread, also from within the work of a continuation.       *)
(* Outcomes are left out, and so is the order of continuations that can be *)
(* continued at the same time.                                             *)
(***************************************************************************)
EXTENDS Naturals

CONSTANTS
    Futures,        \* the storages of futures, numbered as they are created
    Continuations,  \* numbered as well
    Receivers,      \* objects in the thread of the event loop
    LoopThread,     \* the thread of the event loop
    PoolThreads,    \* the threads of the pools
    Nobody          \* no continuation, no future, no thread, no receiver

Threads == {LoopThread} \cup PoolThreads

ASSUME NobodyAssumption ==
    Nobody \notin Futures \cup Continuations \cup Receivers \cup Threads
ASSUME ThreadsAssumption == LoopThread \notin PoolThreads

VARIABLES
    state,      \* future -> "unused", "open" or "finished"
    made,       \* future -> what finishes it
    waiting,    \* future -> its _continuations
    starts,     \* futures whose job a runner has not run yet
    cont,       \* continuation -> its runner, its receiver, what it does
    source,     \* continuation -> the future that it was added to
    used,       \* the continuations that exist
    reserved,   \* those that wait for a function to return their future
    todo,       \* thread -> continuations it is about to continue with
    carried,    \* those of them that are continued from another runner
    jobs,       \* continuations in a pool or an event loop
    running,    \* thread -> the continuation whose work it runs
    ranOn,      \* continuation -> the thread that has run it
    done,       \* continuations whose work was run
    dropped,    \* those that were not run because their receiver is gone
    alive       \* receivers that exist

futureVars == <<state, made, waiting, starts>>
programVars == <<cont, used>>
threadVars == <<jobs, running, ranOn, done, dropped, alive>>
vars == <<futureVars, programVars, source, reserved, todo, carried, threadVars>>

(* What a continuation does: it only handles the outcome, stores another   *)
(* outcome at its target, stores the same outcome there, or calls a        *)
(* function that returns a future and adds its second continuation to it.  *)
Unused == [does |-> "nothing", runner |-> "any", receiver |-> Nobody,
           target |-> Nobody, second |-> Nobody]
Handler(r) == [does |-> "handle", runner |-> "loop", receiver |-> r,
               target |-> Nobody, second |-> Nobody]
StoreAt(g, runner, r) == [does |-> "store", runner |-> runner, receiver |-> r,
                          target |-> g, second |-> Nobody]
Indirect(d) == [does |-> "indirect", runner |-> "any", receiver |-> Nobody,
                target |-> Nobody, second |-> d]
ThatStoresResultAt(g) == StoreAt(g, "any", Nobody)

Init ==
    /\ state = [f \in Futures |-> "unused"]
    /\ made = [f \in Futures |-> "nobody"]
    /\ waiting = [f \in Futures |-> {}]
    /\ starts = {}
    /\ cont = [c \in Continuations |-> Unused]
    /\ source = [c \in Continuations |-> Nobody]
    /\ used = {} /\ reserved = {}
    /\ todo = [t \in Threads |-> {}]
    /\ carried = {} /\ jobs = {}
    /\ running = [t \in Threads |-> Nobody]
    /\ ranOn = [c \in Continuations |-> Nobody]
    /\ done = {} /\ dropped = {}
    /\ alive = Receivers

-----------------------------------------------------------------------------
(* FutureStorage.                                                          *)

Create(f, maker, how) ==
    /\ state[f] = "unused" /\ \A g \in Futures : state[g] = "unused" => f <= g
    /\ state' = [state EXCEPT ![f] = how]
    /\ made' = [made EXCEPT ![f] = maker]

(* The continuation waits for the future.                                  *)
KeepContinuation(t, f, c) ==
    /\ waiting' = [waiting EXCEPT ![f] = @ \cup {c}]
    /\ UNCHANGED <<todo, carried>>

(* It waits only when the future is not finished: the thread continues with*)
(* it otherwise, from no runner.                                           *)
AddContinuation(t, f, c) ==
    IF state[f] = "finished"
    THEN /\ todo' = [todo EXCEPT ![t] = @ \cup {c}]
         /\ UNCHANGED <<waiting, carried>>
    ELSE KeepContinuation(t, f, c)

(* storeAndContinueFrom, up to the end of its critical section.            *)
StoreAndContinueFrom(t, f, fromRunner) ==
    /\ state' = [state EXCEPT ![f] = "finished"]
    /\ waiting' = [waiting EXCEPT ![f] = {}]
    /\ todo' = [todo EXCEPT ![t] = @ \cup waiting[f]]
    /\ carried' = IF fromRunner THEN carried \cup waiting[f] ELSE carried

-----------------------------------------------------------------------------
(* What program code does with futures.                                    *)

NextUnused(c, taken) ==
    c \notin taken /\ \A b \in Continuations \ taken : c <= b

(* Async::createPromise.                                                   *)
CreatePromise(f) ==
    /\ Create(f, "promise", "open")
    /\ UNCHANGED <<waiting, starts, programVars, source, reserved, todo, carried,
                   threadVars>>

(* FutureResult, FutureError, fromOutcome.                                 *)
CreateFinished(f) ==
    /\ Create(f, "promise", "finished")
    /\ UNCHANGED <<waiting, starts, programVars, source, reserved, todo, carried,
                   threadVars>>

(* Promise::setOutcome; a promise is kept once.                            *)
SetOutcome(t, f) ==
    /\ made[f] = "promise" /\ state[f] = "open"
    /\ StoreAndContinueFrom(t, f, FALSE)
    /\ UNCHANGED <<made, starts, programVars, source, reserved, threadVars>>

(* createForRunnerDirect: runOnThreadPool, runOnEventLoop.                 *)
RunOn(f, where) ==
    /\ Create(f, where, "open")
    /\ starts' = starts \cup {f}
    /\ UNCHANGED <<waiting, programVars, source, reserved, todo, carried, threadVars>>

(* createForRunnerIndirect: runOnEventLoop with a function that returns a  *)
(* future.                                                                 *)
RunIndirectOnLoop(f, d) ==
    /\ Create(f, "indirect", "open")
    /\ starts' = starts \cup {f}
    /\ NextUnused(d, used)
    /\ used' = used \cup {d}
    /\ cont' = [cont EXCEPT ![d] = ThatStoresResultAt(f)]
    /\ reserved' = reserved \cup {d}
    /\ UNCHANGED <<waiting, source, todo, carried, threadVars>>

New(c, what, f) ==
    /\ NextUnused(c, used)
    /\ cont' = [cont EXCEPT ![c] = what]
    /\ source' = [source EXCEPT ![c] = f]
    /\ used' = used \cup {c}

HandleOnEventLoop(t, f, c, r) ==
    /\ state[f] # "unused" /\ r \in alive
    /\ New(c, Handler(r), f)
    /\ AddContinuation(t, f, c)
    /\ UNCHANGED <<state, made, starts, reserved, threadVars>>

(* setUpContinuationToRunner: thenOnEventLoop, thenOnThreadPool,           *)
(* thenOnAnyThread, convertToSimpleFuture.                                 *)
Then(t, f, c, g, runner, r) ==
    /\ state[f] # "unused" /\ f # g
    /\ (runner = "loop" /\ r \in alive) \/ (runner # "loop" /\ r = Nobody)
    /\ Create(g, "continuation", "open")
    /\ New(c, StoreAt(g, runner, r), f)
    /\ AddContinuation(t, f, c)
    /\ UNCHANGED <<starts, reserved, threadVars>>

(* setUpContinuationToRunnerIndirect: thenOnAnyThreadIndirect.             *)
ThenIndirect(t, f, c, d, g) ==
    /\ state[f] # "unused" /\ f # g
    /\ Create(g, "continuation", "open")
    /\ NextUnused(d, used) /\ NextUnused(c, used \cup {d})
    /\ cont' = [cont EXCEPT ![c] = Indirect(d), ![d] = ThatStoresResultAt(g)]
    /\ source' = [source EXCEPT ![c] = f]
    /\ used' = used \cup {c, d}
    /\ reserved' = reserved \cup {d}
    /\ AddContinuation(t, f, c)
    /\ UNCHANGED <<starts, threadVars>>

(* A receiver is deleted: its timers do not fire any more.                 *)
Destroy(r) ==
    /\ r \in alive
    /\ alive' = alive \ {r}
    /\ dropped' = dropped \cup {c \in jobs : cont[c].receiver = r}
    /\ jobs' = {c \in jobs : cont[c].receiver # r}
    /\ UNCHANGED <<futureVars, programVars, source, reserved, todo, carried,
                   running, ranOn, done>>

-----------------------------------------------------------------------------
(* Continuation::continueFrom and the runners.                             *)

(* Mistake: the TODO of the other runners is followed too eagerly.         *)
CanContinueInAnyThreadFrom(c) == c \in carried

(* Only a continuation for any thread is run at once.                      *)
CanContinueInThreadFrom(c) == c \in carried /\ cont[c].runner = "any"

(* Mistake: no return after the work was run at once.                      *)
ContinueTwice(t, c) ==
    /\ CanContinueInThreadFrom(c) /\ running[t] = Nobody
    /\ running' = [running EXCEPT ![t] = c]
    /\ jobs' = jobs \cup {c}
    /\ UNCHANGED dropped

ContinueAtOnce(t, c) ==
    /\ CanContinueInThreadFrom(c) /\ running[t] = Nobody
    /\ running' = [running EXCEPT ![t] = c]
    /\ UNCHANGED <<jobs, dropped>>

(* What is given to a receiver that is gone is undefined; when the program *)
(* survives it, the work is never run.                                     *)
GiveToRunner(c) ==
    /\ ~ CanContinueInThreadFrom(c)
    /\ IF cont[c].runner = "loop" /\ cont[c].receiver \notin alive
       THEN dropped' = dropped \cup {c} /\ UNCHANGED jobs
       ELSE jobs' = jobs \cup {c} /\ UNCHANGED dropped
    /\ UNCHANGED running

ContinueFrom(t, c) ==
    /\ c \in todo[t]
    /\ ContinueAtOnce(t, c) \/ GiveToRunner(c)
    /\ todo' = [todo EXCEPT ![t] = @ \ {c}]
    /\ UNCHANGED <<futureVars, programVars, source, reserved, carried, ranOn, done,
                   alive>>

Idle(t) == running[t] = Nobody /\ todo[t] = {}

(* A timer of the event loop fires, or a pool gives a job to a thread; what*)
(* may be run in any thread is run by the global pool.                     *)
TakeJob(t, c) ==
    /\ Idle(t)
    /\ c \in jobs
    /\ (t = LoopThread) <=> (cont[c].runner = "loop")
    /\ running' = [running EXCEPT ![t] = c]
    /\ jobs' = jobs \ {c}
    /\ UNCHANGED <<futureVars, programVars, source, reserved, todo, carried, ranOn,
                   done, dropped, alive>>

Ran(t) ==
    /\ running[t] # Nobody
    /\ done' = done \cup {running[t]}
    /\ ranOn' = [ranOn EXCEPT ![running[t]] = t]
    /\ running' = [running EXCEPT ![t] = Nobody]
    /\ UNCHANGED <<jobs, dropped, alive>>

FinishHandler(t) ==
    /\ Ran(t)
    /\ cont[running[t]].does = "handle"
    /\ UNCHANGED <<futureVars, programVars, source, reserved, todo, carried>>

FinishStore(t) ==
    /\ Ran(t)
    /\ cont[running[t]].does = "store"
    /\ StoreAndContinueFrom(t, cont[running[t]].target, TRUE)
    /\ UNCHANGED <<made, starts, programVars, source, reserved>>

(* The futures that the function of an indirect continuation may return.   *)
Returned == {h \in Futures : made[h] \in {"promise", "pool", "loop"}}

AddReserved(t, h, d) ==
    /\ d \in reserved
    /\ reserved' = reserved \ {d}
    /\ source' = [source EXCEPT ![d] = h]
    /\ AddContinuation(t, h, d)

FinishIndirect(t, h) ==
    /\ Ran(t)
    /\ cont[running[t]].does = "indirect" /\ h \in Returned
    /\ AddReserved(t, h, cont[running[t]].second)
    /\ UNCHANGED <<state, made, starts, programVars>>

(* The job of a future is run by its runner.                               *)
RunStart(t, f) ==
    /\ Idle(t)
    /\ f \in starts /\ made[f] \in {"pool", "loop"}
    /\ (t = LoopThread) <=> (made[f] = "loop")
    /\ starts' = starts \ {f}
    /\ StoreAndContinueFrom(t, f, TRUE)
    /\ UNCHANGED <<made, programVars, source, reserved, threadVars>>

RunStartIndirect(f, h, d) ==
    /\ Idle(LoopThread)
    /\ f \in starts /\ made[f] = "indirect" /\ h \in Returned
    /\ cont[d].target = f
    /\ AddReserved(LoopThread, h, d)
    /\ starts' = starts \ {f}
    /\ UNCHANGED <<state, made, programVars, threadVars>>

-----------------------------------------------------------------------------

Program ==
    \/ \E f \in Futures : CreatePromise(f) \/ CreateFinished(f)
    \/ \E f \in Futures, where \in {"pool", "loop"} : RunOn(f, where)
    \/ \E f \in Futures, d \in Continuations : RunIndirectOnLoop(f, d)
    \/ \E t \in Threads, f \in Futures :
          \/ SetOutcome(t, f)
          \/ \E c \in Continuations, r \in Receivers : HandleOnEventLoop(t, f, c, r)
          \/ \E c \in Continuations, g \in Futures, runner \in {"loop", "pool", "any"},
                r \in Receivers \cup {Nobody} : Then(t, f, c, g, runner, r)
          \/ \E c, d \in Continuations, g \in Futures : ThenIndirect(t, f, c, d, g)
    \/ \E r \in Receivers : Destroy(r)

Work(t) ==
    \/ \E c \in Continuations : ContinueFrom(t, c) \/ TakeJob(t, c)
    \/ FinishHandler(t) \/ FinishStore(t)
    \/ \E h \in Futures : FinishIndirect(t, h)
    \/ \E f \in Futures : RunStart(t, f)
    \/ \E f, h \in Futures, d \in Continuations :
          t = LoopThread /\ RunStartIndirect(f, h, d)

Next == Program \/ \E t \in Threads : Work(t)

Spec == Init /\ [][Next]_vars

(* Each thread goes on with what it has to do: pools have threads enough,  *)
(* the event loop comes back to its timers.                                *)
FairSpec == Spec /\ \A t \in Threads : WF_vars(Work(t))

-----------------------------------------------------------------------------
(* Properties.                                                             *)

(* Whoever is about to store an outcome stores the first one: the assertion*)
(* of storeAndContinueFrom ("attempt to set result on finished future").   *)
(* It takes a continuation that is run twice to violate it, because two    *)
(* threads, or one thread and the list, have hold of it.                   *)
OutcomesAreStoredOnce ==
    /\ \A t \in Threads :
          running[t] # Nobody /\ cont[running[t]].does = "store" =>
              state[cont[running[t]].target] = "open"
    /\ \A f \in starts : state[f] = "open"

(* Work for the event loop is run in its thread, and work for a pool in a  *)
(* thread of a pool, whoever finishes the future and however long the chain*)
(* of continuations in between.                                            *)
RunsWhereItBelongs ==
    \A c \in Continuations, t \in Threads :
        c = running[t] \/ (c \in done /\ ranOn[c] = t) =>
            /\ cont[c].runner = "loop" => t = LoopThread
            /\ cont[c].runner = "pool" => t \in PoolThreads

(* A continuation of a finished future is run, even one that is added while*)
(* another thread finishes the future, unless its receiver is gone.        *)
EverybodyIsContinued ==
    \A c \in Continuations :
        c \in used \ reserved /\ (source[c] \in Futures /\ state[source[c]] = "finished")
            ~> c \in done \cup dropped
=============================================================================
