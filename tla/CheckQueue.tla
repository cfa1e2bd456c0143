----------------------------- MODULE CheckQueue -----------------------------
(***************************************************************************)
(* CCheckQueue (checkqueue.h): the master thread adds script checks, worker *)
(* threads take batches of them, and the master joins the pool in Wait     *)
(* until every check is done and learns whether all succeeded.             *)
(*                                                                         *)
(* A step is one critical section of m_mutex, one notification made        *)
(* outside it, or the evaluation of one batch.  The order of the queue     *)
(* does not matter to the code, so the queue is a set.                     *)
(***************************************************************************)
EXTENDS Integers, FiniteSets

CONSTANTS
  Worker, Master,
  Check,        \* the checks; each is added at most once
  Fails,        \* the checks that evaluate to false
  BatchSize     \* nBatchSize

Thread == Worker \cup {Master}

ASSUME CheckQueueAssumption ==
  /\ Master \notin Worker
  /\ IsFiniteSet(Worker) /\ IsFiniteSet(Check) /\ Fails \subseteq Check
  /\ BatchSize \in Nat \ {0}

VARIABLES
  queue,        \* checks not yet taken
  held,         \* per thread, the batch taken last: nNow = Cardinality(held[t])
  ok,           \* per thread, fOk
  pc,           \* per thread, where it is
  nIdle, nTotal, nTodo, fAllOk, requestStop,
  added,        \* checks added since the last Wait returned
  used,         \* checks ever added
  result,       \* what Wait returned last
  pool          \* "off", "running", or a stage of StopWorkerThreads

vars == <<queue, held, ok, pc, nIdle, nTotal, nTodo, fAllOk, requestStop,
          added, used, result, pool>>

\* Where a thread may be.
Place == {"off", "lock", "wait", "woken", "work", "stopped",
          "idle", "control", "notifyOne", "notifyAll", "returned"}

TypeOK ==
  /\ queue \subseteq added /\ added \subseteq used /\ used \subseteq Check
  /\ held \in [Thread -> SUBSET Check]
  /\ ok \in [Thread -> BOOLEAN]
  /\ pc \in [Thread -> Place]
  /\ nIdle \in Nat /\ nTotal \in Nat /\ nTodo \in Nat
  /\ fAllOk \in BOOLEAN /\ requestStop \in BOOLEAN /\ result \in BOOLEAN
  /\ pool \in {"off", "running", "stop", "join"}

Init ==
  /\ queue = {} /\ added = {} /\ used = {}
  /\ held = [t \in Thread |-> {}]
  /\ ok = [t \in Thread |-> TRUE]
  /\ pc = [t \in Thread |-> IF t = Master THEN "idle" ELSE "off"]
  /\ nIdle = 0 /\ nTotal = 0 /\ nTodo = 0
  /\ fAllOk = TRUE /\ requestStop = FALSE /\ result = TRUE
  /\ pool = "off"
-----------------------------------------------------------------------------
AtMost(a, b) == IF a <= b THEN a ELSE b

\* A fair share of the queue, at most a full batch.
Share(total, idle) == AtMost(BatchSize, Cardinality(queue) \div (total + idle + 1))

\* nNow: how many checks a thread takes, at least one.
Now(total, idle) == IF Share(total, idle) = 0 THEN 1 ELSE Share(total, idle)

\* Mutant: the status is left as it is for the next round.
StatusAfterKept(status) == status
\* fAllOk when Wait returns.
StatusAfter(status) == TRUE

\* A thread that takes m_mutex in Loop: at the top of the outer loop, or out of
\* the wait on its condition variable.
Enters(t) == pc[t] \in {"lock", "woken"}

\* The variables once the batch done before is accounted for, or the thread is
\* counted for the first time, or is no longer idle.
Todo(t) == nTodo - Cardinality(held[t])
Total(t) == IF pc[t] = "lock" /\ held[t] = {} THEN nTotal + 1 ELSE nTotal
Idle(t) == IF pc[t] = "woken" THEN nIdle - 1 ELSE nIdle
AllOk(t) == fAllOk /\ (held[t] = {} \/ ok[t])

\* Mutant: the master returns as soon as the queue is empty.
MasterDoneEarly(t) == t = Master

\* The master leaves Loop when every check is done, whoever did it.
MasterDone(t) == t = Master /\ Todo(t) = 0

\* Mutant: the master is not told.
NotifiedNever(t) == pc

\* A worker that did the last check wakes the master.
Notified(t) ==
  IF held[t] # {} /\ Todo(t) = 0 /\ t # Master /\ pc[Master] = "wait"
    THEN [pc EXCEPT ![Master] = "woken"] ELSE pc

\* Loop returns the result to the master.
Return(t) ==
  /\ Enters(t)
  /\ queue = {} /\ ~requestStop /\ MasterDone(t)
  /\ nTodo' = Todo(t) /\ nTotal' = Total(t) - 1 /\ nIdle' = Idle(t)
  /\ result' = AllOk(t)
  /\ fAllOk' = StatusAfter(AllOk(t))
  /\ held' = [held EXCEPT ![t] = {}]
  /\ pc' = [pc EXCEPT ![t] = "returned"]
  /\ UNCHANGED <<queue, ok, requestStop, added, used, pool>>

\* Nothing to do: the thread waits on its condition variable.
WaitForWork(t) ==
  /\ Enters(t)
  /\ queue = {} /\ ~requestStop /\ ~MasterDone(t)
  /\ nTodo' = Todo(t) /\ nTotal' = Total(t) /\ nIdle' = Idle(t) + 1
  /\ fAllOk' = AllOk(t)
  /\ held' = [held EXCEPT ![t] = {}]
  /\ pc' = [Notified(t) EXCEPT ![t] = "wait"]
  /\ UNCHANGED <<queue, ok, requestStop, added, used, result, pool>>

\* m_request_stop: Loop returns.
LeaveLoop(t) ==
  /\ Enters(t)
  /\ requestStop
  /\ nTodo' = Todo(t) /\ nTotal' = Total(t) /\ nIdle' = Idle(t)
  /\ fAllOk' = AllOk(t)
  /\ held' = [held EXCEPT ![t] = {}]
  /\ pc' = [Notified(t) EXCEPT ![t] = "stopped"]
  /\ UNCHANGED <<queue, ok, requestStop, added, used, result, pool>>

\* A batch is taken off the queue.
Take(t) ==
  /\ Enters(t)
  /\ queue # {} /\ ~requestStop
  /\ nTodo' = Todo(t) /\ nTotal' = Total(t) /\ nIdle' = Idle(t)
  /\ fAllOk' = AllOk(t)
  /\ \E S \in SUBSET queue :
       /\ Cardinality(S) = Now(Total(t), Idle(t))
       /\ queue' = queue \ S
       /\ held' = [held EXCEPT ![t] = S]
  /\ ok' = [ok EXCEPT ![t] = AllOk(t)]
  /\ pc' = [Notified(t) EXCEPT ![t] = "work"]
  /\ UNCHANGED <<requestStop, added, used, result, pool>>

\* The checks run without the lock; after a failure the rest is skipped.
Work(t) ==
  /\ pc[t] = "work"
  /\ ok' = [ok EXCEPT ![t] = @ /\ held[t] \cap Fails = {}]
  /\ pc' = [pc EXCEPT ![t] = "lock"]
  /\ UNCHANGED <<queue, held, nIdle, nTotal, nTodo, fAllOk, requestStop, added, used,
                 result, pool>>

\* A condition variable may wake a thread without being notified.
SpuriousWakeup(t) ==
  /\ pc[t] = "wait"
  /\ pc' = [pc EXCEPT ![t] = "woken"]
  /\ UNCHANGED <<queue, held, ok, nIdle, nTotal, nTodo, fAllOk, requestStop, added, used,
                 result, pool>>

Loop(t) == Return(t) \/ WaitForWork(t) \/ LeaveLoop(t) \/ Take(t) \/ Work(t)
-----------------------------------------------------------------------------
\* CCheckQueueControl takes m_control_mutex; used only when there are threads.
Control ==
  /\ pc[Master] = "idle" /\ pool = "running"
  /\ pc' = [pc EXCEPT ![Master] = "control"]
  /\ UNCHANGED <<queue, held, ok, nIdle, nTotal, nTodo, fAllOk, requestStop, added, used,
                 result, pool>>

\* Add, under the lock.
Add(S) ==
  /\ pc[Master] = "control"
  /\ S # {}
  /\ queue' = queue \cup S
  /\ nTodo' = nTodo + Cardinality(S)
  /\ added' = added \cup S /\ used' = used \cup S
  /\ pc' = [pc EXCEPT ![Master] = IF Cardinality(S) = 1 THEN "notifyOne" ELSE "notifyAll"]
  /\ UNCHANGED <<held, ok, nIdle, nTotal, fAllOk, requestStop, result, pool>>

\* Mutant: nobody is woken.
WakeWorkersNone == pc

\* m_worker_cv.notify_all().
WakeWorkers == [t \in Thread |-> IF t \in Worker /\ pc[t] = "wait" THEN "woken" ELSE pc[t]]

\* Add, after the lock: one waiting worker is woken for one check, all for more.
NotifyOne ==
  /\ pc[Master] = "notifyOne"
  /\ IF \E w \in Worker : pc[w] = "wait"
       THEN \E w \in Worker : /\ pc[w] = "wait"
                              /\ pc' = [pc EXCEPT ![w] = "woken", ![Master] = "control"]
       ELSE pc' = [pc EXCEPT ![Master] = "control"]
  /\ UNCHANGED <<queue, held, ok, nIdle, nTotal, nTodo, fAllOk, requestStop, added, used,
                 result, pool>>

NotifyAll ==
  /\ pc[Master] = "notifyAll"
  /\ pc' = [WakeWorkers EXCEPT ![Master] = "control"]
  /\ UNCHANGED <<queue, held, ok, nIdle, nTotal, nTodo, fAllOk, requestStop, added, used,
                 result, pool>>

\* Wait, by the caller or by the destructor of CCheckQueueControl.
Wait ==
  /\ pc[Master] = "control"
  /\ pc' = [pc EXCEPT ![Master] = "lock"]
  /\ UNCHANGED <<queue, held, ok, nIdle, nTotal, nTodo, fAllOk, requestStop, added, used,
                 result, pool>>

\* The controller is gone; the checks of the round were accounted for.
EndControl ==
  /\ pc[Master] = "returned"
  /\ added' = {}
  /\ pc' = [pc EXCEPT ![Master] = "idle"]
  /\ UNCHANGED <<queue, held, ok, nIdle, nTotal, nTodo, fAllOk, requestStop, used, result, pool>>

StartWorkerThreads ==
  /\ pool = "off"
  /\ nIdle' = 0 /\ nTotal' = 0 /\ fAllOk' = TRUE
  /\ pc' = [t \in Thread |-> IF t \in Worker THEN "lock" ELSE pc[t]]
  /\ pool' = "running"
  /\ UNCHANGED <<queue, held, ok, nTodo, requestStop, added, used, result>>

\* StopWorkerThreads sets the flag, wakes the workers and joins them.  It is
\* called when no block is being connected.
StopWorkerThreads ==
  /\ pool = "running" /\ pc[Master] = "idle"
  /\ requestStop' = TRUE
  /\ pool' = "stop"
  /\ UNCHANGED <<queue, held, ok, pc, nIdle, nTotal, nTodo, fAllOk, added, used, result>>

StopNotify ==
  /\ pool = "stop"
  /\ pc' = WakeWorkers
  /\ pool' = "join"
  /\ UNCHANGED <<queue, held, ok, nIdle, nTotal, nTodo, fAllOk, requestStop, added, used, result>>

Join ==
  /\ pool = "join" /\ \A w \in Worker : pc[w] = "stopped"
  /\ requestStop' = FALSE
  /\ pool' = "off"
  /\ pc' = [t \in Thread |-> IF t \in Worker THEN "off" ELSE pc[t]]
  /\ UNCHANGED <<queue, held, ok, nIdle, nTotal, nTodo, fAllOk, added, used, result>>

Next ==
  \/ \E t \in Thread : Loop(t) \/ SpuriousWakeup(t)
  \/ Control
  \/ \E S \in SUBSET (Check \ used) : Add(S)
  \/ NotifyOne \/ NotifyAll \/ Wait \/ EndControl
  \/ StartWorkerThreads \/ StopWorkerThreads \/ StopNotify \/ Join

Spec == Init /\ [][Next]_vars

\* Every thread that can run does; a block that adds checks waits for them; a
\* stop that has begun goes on.  No wakeup is relied on that was not notified.
FairSpec ==
  /\ Spec
  /\ \A t \in Thread : WF_vars(Loop(t))
  /\ WF_vars(NotifyOne \/ NotifyAll \/ EndControl) /\ WF_vars(Wait)
  /\ WF_vars(StopNotify \/ Join)
-----------------------------------------------------------------------------
InLoop(t) == pc[t] \in {"wait", "woken", "work"} \/ (pc[t] = "lock" /\ held[t] # {})

\* Wait tells the caller exactly whether every check added since the last Wait
\* succeeds, though batches finish in any order and some are skipped.
ResultExact == pc[Master] = "returned" => (result <=> added \cap Fails = {})

\* When Wait returns, no thread holds or can still take a check that was added
\* (checks refer to data of the block being connected).
NoCheckOutlivesWait ==
  pc[Master] = "returned" => queue = {} /\ nTodo = 0 /\ \A t \in Thread : held[t] = {}

\* "Number of verifications that haven't completed yet. This includes elements
\* that are no longer queued, but still in the worker's own batches."
TodoExact == nTodo = Cardinality(queue \cup UNION {held[t] : t \in Thread})

\* nTotal counts the threads in Loop and nIdle those that wait, as the batch
\* size assumes.
CountsExact ==
  pool = "running" =>
    /\ nTotal = Cardinality({t \in Thread : InLoop(t)})
    /\ nIdle = Cardinality({t \in Thread : pc[t] \in {"wait", "woken"}})

\* Wait returns, with no wakeup lost.
WaitReturns == (pc[Master] = "control") ~> (pc[Master] = "returned")

\* StopWorkerThreads joins every worker.
StopEnds == (pool = "stop") ~> (pool = "off")
=============================================================================
