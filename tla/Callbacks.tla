------------------------------ MODULE Callbacks ------------------------------
(***************************************************************************)
(* The queue of validation callbacks: SingleThreadedSchedulerClient on top *)
(* of CScheduler (scheduler.cpp), the threads that add callbacks and wait  *)
(* for them (validationinterface.cpp, validation.cpp), and the stages of   *)
(* Shutdown (init.cpp) that end them.                                      *)
(*                                                                         *)
(* A step is one critical section of m_callbacks_mutex or newTaskMutex.    *)
(* The functions scheduled for a later time do not touch the queue and are *)
(* left out; the calls of ProcessQueue are due at once and are all alike,  *)
(* so taskQueue is their number.                                           *)
(***************************************************************************)
EXTENDS Integers, Sequences

CONSTANTS
  ServiceThread, \* the threads in CScheduler::serviceQueue
  Producer,     \* the threads that change the chain: network, RPC, m_load_block
  Loader,       \* the thread m_load_block among them
  Main,         \* the thread that runs Shutdown
  Event,        \* the notifications
  NoCallback,
  Limit,        \* CallbacksPending() above which a producer waits
  MaxPending,   \* bound: callbacks queued when a notification is added
  MaxTasks      \* bound: calls of ProcessQueue scheduled when one is added

\* A callback is a notification, or the promise a producer waits for.
Callback == Event \cup Producer
Executor == ServiceThread \cup {Main}
Actor == Executor \cup Producer

ASSUME CallbacksAssumption ==
  /\ ServiceThread # {} /\ Loader \in Producer /\ NoCallback \notin Callback
  /\ Main \notin ServiceThread /\ Executor \cap Producer = {} /\ Event \cap Producer = {}

VARIABLES
  pending,      \* m_callbacks_pending
  running,      \* m_are_callbacks_running
  tasks,        \* how many calls of ProcessQueue taskQueue holds
  stopRequested,
  callback,     \* per executor, the callback ProcessQueue took
  at,           \* per executor, where it is
  sched,        \* per actor, where it is in MaybeScheduleProcessQueue
  step,         \* per producer, where it is
  promised      \* the producers whose promise is set

callbacksVars == <<pending, running, tasks, stopRequested, callback, at, sched, step, promised>>

\* ProcessQueue is "call", "run" and "clear"; "loop" and "wait" are serviceQueue,
\* the last two rows the stages of Shutdown, "again" the loop of EmptyQueue.
ThreadPlace == {"call", "run", "clear", "loop", "wait", "exited"}
MainPlace == {"call", "run", "clear", "again",
              "up", "interrupt", "stop", "join", "flush", "down"}

CallbacksTypeOK ==
  /\ pending \in Seq(Callback)
  /\ running \in BOOLEAN /\ stopRequested \in BOOLEAN
  /\ tasks \in Nat
  /\ callback \in [Executor -> Callback \cup {NoCallback}]
  /\ at \in [Executor -> ThreadPlace \cup MainPlace]
  /\ \A t \in ServiceThread : at[t] \in ThreadPlace
  /\ at[Main] \in MainPlace
  /\ sched \in [Actor -> {"no", "check", "insert"}]
  /\ step \in [Producer -> {"sync", "waiting", "active", "exited"}]
  /\ promised \subseteq Producer

CallbacksInit ==
  /\ pending = <<>> /\ running = FALSE
  /\ tasks = 0 /\ stopRequested = FALSE
  /\ callback = [e \in Executor |-> NoCallback]
  /\ at = [e \in Executor |-> IF e = Main THEN "up" ELSE "loop"]
  /\ sched = [a \in Actor |-> "no"]
  /\ step = [p \in Producer |-> "active"]
  /\ promised = {}
-----------------------------------------------------------------------------
\* Mutant: nobody is notified.
NotifyThreadNot == UNCHANGED at

\* newTaskScheduled.notify_one(): one waiting thread, if there is one, wakes up.
NotifyThread ==
  \/ /\ \A t \in ServiceThread : at[t] # "wait"
     /\ UNCHANGED at
  \/ \E t \in ServiceThread : at[t] = "wait" /\ at' = [at EXCEPT ![t] = "loop"]

\* What MaybeScheduleProcessQueue tests.
NeedsTask(a) == ~running /\ pending # <<>>

MaybeScheduleProcessQueue(a) ==
  /\ sched[a] = "check"
  /\ sched' = [sched EXCEPT ![a] = IF NeedsTask(a) THEN "insert" ELSE "no"]
  /\ UNCHANGED <<pending, running, tasks, stopRequested, callback, at, step, promised>>

\* CScheduler::schedule; the thread that is notified takes the lock later.
Schedule(a) ==
  /\ sched[a] = "insert"
  /\ sched' = [sched EXCEPT ![a] = "no"]
  /\ tasks' = tasks + 1
  /\ NotifyThread
  /\ UNCHANGED <<pending, running, stopRequested, callback, step, promised>>

\* AddToProcessQueue, up to its call of MaybeScheduleProcessQueue.
AddToProcessQueue(a, c) ==
  /\ pending' = Append(pending, c)
  /\ sched' = [sched EXCEPT ![a] = "check"]

\* Where the executor goes on when ProcessQueue returns.
After(e) == IF e = Main THEN "again" ELSE "loop"

\* ProcessQueue: a callback runs already, or there is none.
ProcessNothing(e) ==
  /\ at[e] = "call"
  /\ running \/ pending = <<>>
  /\ at' = [at EXCEPT ![e] = After(e)]
  /\ UNCHANGED <<pending, running, tasks, stopRequested, callback, sched, step, promised>>

\* Mutant: a second thread may take a callback.
IsFreeAlways == TRUE

IsFree == ~running

\* ProcessQueue: the first callback is taken off the queue.
ProcessFirst(e) ==
  /\ at[e] = "call"
  /\ IsFree /\ pending # <<>>
  /\ running' = TRUE
  /\ callback' = [callback EXCEPT ![e] = Head(pending)]
  /\ pending' = Tail(pending)
  /\ at' = [at EXCEPT ![e] = "run"]
  /\ UNCHANGED <<tasks, stopRequested, sched, step, promised>>

\* A callback may add others: a wallet sends its transactions again.
CallbackAdds(e, c) ==
  /\ at[e] = "run" /\ sched[e] = "no" /\ callback[e] \in Event
  /\ Len(pending) < MaxPending /\ tasks < MaxTasks
  /\ AddToProcessQueue(e, c)
  /\ UNCHANGED <<running, tasks, stopRequested, callback, at, step, promised>>

\* The callback returns; a producer's callback has set its promise.
CallbackReturns(e) ==
  /\ at[e] = "run" /\ sched[e] = "no"
  /\ promised' = promised \cup ({callback[e]} \cap Producer)
  /\ callback' = [callback EXCEPT ![e] = NoCallback]
  /\ at' = [at EXCEPT ![e] = "clear"]
  /\ UNCHANGED <<pending, running, tasks, stopRequested, sched, step>>

\* Mutant: the flag is left set.
RunningAfterKept == running

\* m_are_callbacks_running when a callback is done.
RunningAfter == FALSE

\* The destructor of RAIICallbacksRunning: it clears the flag, then calls
\* MaybeScheduleProcessQueue.
ClearRunning(e) ==
  /\ at[e] = "clear"
  /\ running' = RunningAfter
  /\ sched' = [sched EXCEPT ![e] = "check"]
  /\ at' = [at EXCEPT ![e] = After(e)]
  /\ UNCHANGED <<pending, tasks, stopRequested, callback, step, promised>>

ProcessQueue(e) == ProcessNothing(e) \/ ProcessFirst(e) \/ CallbackReturns(e) \/ ClearRunning(e)
-----------------------------------------------------------------------------
\* serviceQueue: nothing to do, the thread waits on newTaskScheduled.
AwaitTask(t) ==
  /\ at[t] = "loop" /\ sched[t] = "no"
  /\ ~stopRequested /\ tasks = 0
  /\ at' = [at EXCEPT ![t] = "wait"]
  /\ UNCHANGED <<pending, running, tasks, stopRequested, callback, sched, step, promised>>

\* A condition variable may wake a thread without being notified.
UnnotifiedWakeup(t) ==
  /\ at[t] = "wait"
  /\ at' = [at EXCEPT ![t] = "loop"]
  /\ UNCHANGED <<pending, running, tasks, stopRequested, callback, sched, step, promised>>

\* serviceQueue: a task is taken off the queue and called without the lock.
Service(t) ==
  /\ at[t] = "loop" /\ sched[t] = "no"
  /\ ~stopRequested /\ tasks > 0
  /\ tasks' = tasks - 1
  /\ at' = [at EXCEPT ![t] = "call"]
  /\ UNCHANGED <<pending, running, stopRequested, callback, sched, step, promised>>

\* serviceQueue: shouldStop(); the notification at its end wakes nobody that
\* stop() has not woken already.
Exit(t) ==
  /\ at[t] = "loop" /\ sched[t] = "no"
  /\ stopRequested
  /\ at' = [at EXCEPT ![t] = "exited"]
  /\ UNCHANGED <<pending, running, tasks, stopRequested, callback, sched, step, promised>>

ServiceQueue(t) == AwaitTask(t) \/ Service(t) \/ Exit(t)
-----------------------------------------------------------------------------
\* LimitValidationInterfaceQueue, as ActivateBestChain and InvalidateBlock begin
\* each round: above the limit the thread calls SyncWithValidationInterfaceQueue.
LimitValidationInterfaceQueue(p) ==
  /\ step[p] = "active" /\ sched[p] = "no"
  /\ Len(pending) > Limit
  /\ step' = [step EXCEPT ![p] = "sync"]
  /\ UNCHANGED <<pending, running, tasks, stopRequested, callback, at, sched, promised>>

\* SyncWithValidationInterfaceQueue: the promise is queued ...
SyncWithValidationInterfaceQueue(p) ==
  /\ step[p] = "sync"
  /\ AddToProcessQueue(p, p)
  /\ promised' = promised \ {p}
  /\ step' = [step EXCEPT ![p] = "waiting"]
  /\ UNCHANGED <<running, tasks, stopRequested, callback, at>>

\* ... and waited for.
SyncReturns(p) ==
  /\ step[p] = "waiting" /\ sched[p] = "no" /\ p \in promised
  /\ step' = [step EXCEPT ![p] = "active"]
  /\ UNCHANGED <<pending, running, tasks, stopRequested, callback, at, sched, promised>>

\* The round changes the chain and notifies.
Notify(p, c) ==
  /\ step[p] = "active" /\ sched[p] = "no"
  /\ Len(pending) < MaxPending /\ tasks < MaxTasks
  /\ AddToProcessQueue(p, c)
  /\ UNCHANGED <<running, tasks, stopRequested, callback, at, step, promised>>

\* The thread sees ShutdownRequested, or its interrupt, between two rounds.
Leave(p) ==
  /\ step[p] = "active" /\ sched[p] = "no" /\ at[Main] # "up"
  /\ step' = [step EXCEPT ![p] = "exited"]
  /\ UNCHANGED <<pending, running, tasks, stopRequested, callback, at, sched, promised>>

Sync(p) == SyncWithValidationInterfaceQueue(p) \/ SyncReturns(p)
-----------------------------------------------------------------------------
MainGoes(from, to) == at[Main] = from /\ at' = [at EXCEPT ![Main] = to]

\* Shutdown begins: StopHTTPRPC, StopRPC, CConnman::Stop ...
Shutdown ==
  /\ MainGoes("up", "interrupt")
  /\ UNCHANGED <<pending, running, tasks, stopRequested, callback, sched, step, promised>>

\* ... join every producer but m_load_block; then CScheduler::stop() sets
\* stopRequested and wakes the threads ...
StopScheduler ==
  /\ at[Main] = "interrupt"
  /\ \A p \in Producer \ {Loader} : step[p] = "exited"
  /\ stopRequested' = TRUE
  /\ at' = [e \in Executor |-> IF e = Main THEN "stop" ELSE
                               IF at[e] = "wait" THEN "loop" ELSE at[e]]
  /\ UNCHANGED <<pending, running, tasks, callback, sched, step, promised>>

\* ... and joins them.
JoinScheduler ==
  /\ MainGoes("stop", "join")
  /\ \A t \in ServiceThread : at[t] = "exited"
  /\ UNCHANGED <<pending, running, tasks, stopRequested, callback, sched, step, promised>>

\* m_load_block.join()
JoinLoader ==
  /\ MainGoes("join", "flush")
  /\ step[Loader] = "exited"
  /\ UNCHANGED <<pending, running, tasks, stopRequested, callback, sched, step, promised>>

\* ForceFlushStateToDisk adds ChainStateFlushed; FlushBackgroundCallbacks calls
\* EmptyQueue.
FlushState(c) ==
  /\ MainGoes("flush", "again")
  /\ AddToProcessQueue(Main, c)
  /\ UNCHANGED <<running, tasks, stopRequested, callback, step, promised>>

\* The loop of EmptyQueue: should_continue.
EmptyQueue ==
  /\ sched[Main] = "no"
  /\ MainGoes("again", IF pending # <<>> THEN "call" ELSE "down")
  /\ UNCHANGED <<pending, running, tasks, stopRequested, callback, sched, step, promised>>

ShutdownStep == StopScheduler \/ JoinScheduler \/ JoinLoader \/ EmptyQueue
-----------------------------------------------------------------------------
CallbacksNext ==
  \/ \E a \in Actor : MaybeScheduleProcessQueue(a) \/ Schedule(a)
  \/ \E e \in Executor : ProcessQueue(e) \/ \E c \in Event : CallbackAdds(e, c)
  \/ \E t \in ServiceThread : ServiceQueue(t) \/ UnnotifiedWakeup(t)
  \/ \E p \in Producer : \/ LimitValidationInterfaceQueue(p) \/ Sync(p) \/ Leave(p)
                         \/ \E c \in Event : Notify(p, c)
  \/ Shutdown \/ ShutdownStep
  \/ \E c \in Event : FlushState(c)

CallbacksSpec == CallbacksInit /\ [][CallbacksNext]_callbacksVars

\* Every thread that can run does; a callback ends; a producer that looks again
\* and again whether it should leave does so once it should; a shutdown that has
\* begun goes on.  No wakeup is relied on that was not notified.
CallbacksFairSpec ==
  /\ CallbacksSpec
  /\ \A a \in Actor : WF_callbacksVars(MaybeScheduleProcessQueue(a) \/ Schedule(a))
  /\ \A e \in Executor : WF_callbacksVars(ProcessQueue(e))
  /\ \A t \in ServiceThread : WF_callbacksVars(ServiceQueue(t))
  /\ \A p \in Producer : WF_callbacksVars(Sync(p)) /\ SF_callbacksVars(Leave(p))
  /\ WF_callbacksVars(ShutdownStep \/ \E c \in Event : FlushState(c))
-----------------------------------------------------------------------------
\* The thread that runs a callback, and the callback.
Running(e) == callback[e] # NoCallback
Current == IF \E e \in Executor : Running(e)
             THEN callback[CHOOSE e \in Executor : Running(e)] ELSE NoCallback

Q == INSTANCE CallbackQueue WITH queue <- pending, current <- Current

\* "All jobs will be run sequentially, but not necessarily in the same thread":
\* whatever the threads, notifications reach their listeners in the order the
\* chain changed, each one done before the next begins.
ImplementsQueue == Q!Spec

\* Someone who will come to the queue: a task that a thread can take, a thread
\* about to look at the queue, or one that runs a callback and will look again.
Attended ==
  \/ tasks > 0
  \/ \E a \in Actor : sched[a] # "no"
  \/ \E e \in Executor : at[e] \in {"call", "run", "clear"}

\* MaybeScheduleProcessQueue drops its task whenever a callback runs, so the
\* queue relies on the running thread to look again: no callback is left in a
\* queue that nobody will come to, no task is left to threads that all sleep,
\* and Shutdown leaves no callback behind.
NothingStranded ==
  /\ pending # <<>> /\ at[Main] # "down" => Attended
  /\ tasks > 0 /\ ~stopRequested => \E t \in ServiceThread : at[t] # "wait"
  /\ at[Main] = "down" => pending = <<>> /\ ~running

\* The import thread waits for a queue that no thread serves any more.
LoaderCutOff ==
  step[Loader] = "waiting" /\ Loader \notin promised /\ \A t \in ServiceThread : at[t] = "exited"

\* SyncWithValidationInterfaceQueue returns, though others go on adding
\* callbacks, unless the scheduler was stopped under the import thread.
SyncEnds == \A p \in Producer : (step[p] = "waiting") ~> (step[p] # "waiting" \/ (p = Loader /\ LoaderCutOff))

\* Shutdown ends, unless the import thread is cut off.
ShutdownEndsOrCutOff == (at[Main] = "interrupt") ~> (at[Main] = "down" \/ LoaderCutOff)

\* init.cpp: "After everything has been shut down, but before things get flushed,
\* stop the CScheduler/checkqueue, scheduler and load block thread."
ShutdownEnds == (at[Main] = "interrupt") ~> (at[Main] = "down")
=============================================================================
