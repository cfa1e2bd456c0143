----------------------------- MODULE QueueProofs -----------------------------
(***************************************************************************)
(* Proofs about the two queues that threads share: Callbacks and           *)
(* CheckQueue, for any number of threads.                                  *)
(*                                                                         *)
(* Callbacks: the flag m_are_callbacks_running stands for exactly one      *)
(* thread, so the queue is a first-in first-out queue with one consumer,   *)
(* and no callback is left in a queue nobody will come to.                 *)
(*                                                                         *)
(* CheckQueue: the inductive invariant follows each check from the queue   *)
(* through one thread's batch: batches and queue are disjoint (Apart),     *)
(* nTodo counts their union (TodoExact), and as long as fAllOk holds every *)
(* failing check of the round is still in it (Verdict).                    *)
(***************************************************************************)
EXTENDS CheckQueue, Callbacks, FiniteSetTheorems, TLAPS

-----------------------------------------------------------------------------
(* Callbacks.                                                              *)

Busy(e) == at[e] \in {"run", "clear"}

\* Shutdown is past the join of the service threads; past that of m_load_block.
PastJoin == at[Main] \notin {"up", "interrupt", "stop"}
Alone == at[Main] \notin {"up", "interrupt", "stop", "join"}

\* The flag belongs to one executor, which holds a callback until it returns.
FlagOwned ==
  /\ running <=> \E e \in Executor : Busy(e)
  /\ \A e, f \in Executor : Busy(e) /\ Busy(f) => e = f
  /\ \A e \in Executor : callback[e] # NoCallback <=> at[e] = "run"

\* Who is still there at each stage of Shutdown.
Stages ==
  /\ stopRequested <=> at[Main] \notin {"up", "interrupt"}
  /\ PastJoin => \A t \in ServiceThread : at[t] = "exited"
  /\ at[Main] \notin {"up", "interrupt"} => \A p \in Producer \ {Loader} : step[p] = "exited"
  /\ Alone => \A p \in Producer : step[p] = "exited"
  /\ \A t \in ServiceThread : at[t] = "exited" => sched[t] = "no"
  /\ \A p \in Producer : step[p] = "exited" => sched[p] = "no"
  /\ at[Main] = "down" => sched[Main] = "no" /\ pending = <<>>

CallbacksIInv == CallbacksTypeOK /\ FlagOwned /\ Stages /\ NothingStranded

USE CallbacksAssumption
-----------------------------------------------------------------------------
LEMMA SetFacts == /\ Main \in Executor /\ Main \in Actor /\ Main \notin ServiceThread
                  /\ ServiceThread \subseteq Executor /\ Executor \subseteq Actor /\ Producer \subseteq Actor
                  /\ Main \notin Producer /\ Loader \in Producer
                  /\ Event \subseteq Callback /\ Producer \subseteq Callback
                  /\ \A e \in Executor : e \notin Producer
                  /\ \A e \in Executor : e = Main \/ e \in ServiceThread
BY DEF Executor, Actor, Callback

LEMMA InitIInv == CallbacksInit => CallbacksIInv
<1> SUFFICES ASSUME CallbacksInit PROVE CallbacksIInv
  OBVIOUS
<1> USE SetFacts DEF CallbacksInit
<1>1. \A e \in Executor : at[e] \in {"up", "loop"} /\ (at[e] = "up" <=> e = Main)
  OBVIOUS
<1>2. CallbacksTypeOK
  <2>1. pending \in Seq(Callback)
    BY DEF Callback
  <2> QED BY <1>1, <2>1 DEF CallbacksTypeOK, ThreadPlace, MainPlace
<1>3. FlagOwned
  BY <1>1 DEF FlagOwned, Busy
<1>4. Stages
  BY <1>1 DEF Stages, PastJoin, Alone
<1>5. NothingStranded
  BY <1>1 DEF NothingStranded
<1> QED BY <1>2, <1>3, <1>4, <1>5 DEF CallbacksIInv

\* notify_one() moves at most one thread, from its wait into its loop, and some
\* thread is then awake.
LEMMA NotifyKeeps ==
  ASSUME CallbacksTypeOK, NotifyThread
  PROVE  /\ at' \in [Executor -> ThreadPlace \cup MainPlace]
         /\ \A t \in ServiceThread : at'[t] \in ThreadPlace
         /\ at'[Main] = at[Main]
         /\ \A e \in Executor : at'[e] = at[e] \/ (at[e] = "wait" /\ at'[e] = "loop")
         /\ \E t \in ServiceThread : at'[t] # "wait"
<1>1. CASE (\A t \in ServiceThread : at[t] # "wait") /\ UNCHANGED at
  BY <1>1, SetFacts DEF CallbacksTypeOK
<1>2. CASE \E t \in ServiceThread : at[t] = "wait" /\ at' = [at EXCEPT ![t] = "loop"]
  <2>1. PICK t \in ServiceThread : at[t] = "wait" /\ at' = [at EXCEPT ![t] = "loop"]
    BY <1>2
  <2> QED BY <2>1, SetFacts DEF CallbacksTypeOK, ThreadPlace
<1> QED BY <1>1, <1>2 DEF NotifyThread

LEMMA NextIInv == CallbacksIInv /\ [CallbacksNext]_callbacksVars => CallbacksIInv'
<1> SUFFICES ASSUME CallbacksIInv, [CallbacksNext]_callbacksVars PROVE CallbacksIInv'
  OBVIOUS
<1> USE SetFacts DEF CallbacksIInv, Busy
<1>1. ASSUME NEW a \in Actor, MaybeScheduleProcessQueue(a) PROVE CallbacksIInv'
  <2> USE <1>1 DEF MaybeScheduleProcessQueue, NeedsTask
  <2>1. CallbacksTypeOK'
    BY SMTT(20) DEF CallbacksTypeOK, ThreadPlace, MainPlace
  <2>2. FlagOwned'
    BY SMTT(20) DEF CallbacksTypeOK, FlagOwned
  <2>3. Stages'
    BY SMTT(20) DEF CallbacksTypeOK, Stages, PastJoin, Alone
  <2>4. NothingStranded'
    BY SMTT(20) DEF CallbacksTypeOK, FlagOwned, Stages, NothingStranded, Attended, PastJoin, Alone
  <2> QED BY <2>1, <2>2, <2>3, <2>4
<1>2. ASSUME NEW a \in Actor, Schedule(a) PROVE CallbacksIInv'
  <2> USE <1>2 DEF Schedule
  <2>1. CallbacksTypeOK'
    BY NotifyKeeps, SMTT(20) DEF CallbacksTypeOK, ThreadPlace, MainPlace
  <2>2. FlagOwned'
    BY NotifyKeeps, SMTT(20) DEF CallbacksTypeOK, FlagOwned
  <2>3. Stages'
    BY NotifyKeeps, SMTT(20) DEF CallbacksTypeOK, Stages, PastJoin, Alone
  <2>4. NothingStranded'
    BY NotifyKeeps, SMTT(20) DEF CallbacksTypeOK, FlagOwned, Stages, NothingStranded, Attended, PastJoin, Alone
  <2> QED BY <2>1, <2>2, <2>3, <2>4
<1>3. ASSUME NEW e \in Executor, ProcessNothing(e) PROVE CallbacksIInv'
  <2> USE <1>3 DEF ProcessNothing, After
  <2>1. CallbacksTypeOK'
    BY SMTT(20) DEF CallbacksTypeOK, ThreadPlace, MainPlace
  <2>2. FlagOwned'
    BY SMTT(20) DEF CallbacksTypeOK, FlagOwned
  <2>3. Stages'
    BY SMTT(20) DEF CallbacksTypeOK, Stages, PastJoin, Alone
  <2>4. NothingStranded'
    BY SMTT(20) DEF CallbacksTypeOK, FlagOwned, Stages, NothingStranded, Attended, PastJoin, Alone
  <2> QED BY <2>1, <2>2, <2>3, <2>4
<1>4. ASSUME NEW e \in Executor, ProcessFirst(e) PROVE CallbacksIInv'
  <2> USE <1>4 DEF ProcessFirst, IsFree
  <2>1. CallbacksTypeOK'
    BY SMTT(20) DEF CallbacksTypeOK, ThreadPlace, MainPlace
  <2>2. FlagOwned'
    BY SMTT(20) DEF CallbacksTypeOK, FlagOwned
  <2>3. Stages'
    BY SMTT(20) DEF CallbacksTypeOK, Stages, PastJoin, Alone
  <2>4. NothingStranded'
    BY SMTT(20) DEF CallbacksTypeOK, FlagOwned, Stages, NothingStranded, Attended, PastJoin, Alone
  <2> QED BY <2>1, <2>2, <2>3, <2>4
<1>5. ASSUME NEW e \in Executor, CallbackReturns(e) PROVE CallbacksIInv'
  <2> USE <1>5 DEF CallbackReturns
  <2>1. CallbacksTypeOK'
    BY SMTT(20) DEF CallbacksTypeOK, ThreadPlace, MainPlace
  <2>2. FlagOwned'
    BY SMTT(20) DEF CallbacksTypeOK, FlagOwned
  <2>3. Stages'
    BY SMTT(20) DEF CallbacksTypeOK, Stages, PastJoin, Alone
  <2>4. NothingStranded'
    BY SMTT(20) DEF CallbacksTypeOK, FlagOwned, Stages, NothingStranded, Attended, PastJoin, Alone
  <2> QED BY <2>1, <2>2, <2>3, <2>4
<1>6. ASSUME NEW e \in Executor, ClearRunning(e) PROVE CallbacksIInv'
  <2> USE <1>6 DEF ClearRunning, After, RunningAfter
  <2>1. CallbacksTypeOK'
    <3>1. at' = [at EXCEPT ![e] = After(e)] /\ sched' = [sched EXCEPT ![e] = "check"]
          /\ running' = FALSE
          /\ UNCHANGED <<pending, tasks, stopRequested, callback, step, promised>>
      BY Zenon
    <3>2. After(e) \in ThreadPlace \cup MainPlace /\ (e \in ServiceThread => After(e) \in ThreadPlace)
          /\ (e = Main => After(e) \in MainPlace)
      BY DEF ThreadPlace, MainPlace
    <3> HIDE <1>6 DEF ClearRunning, After, RunningAfter
    <3>3. at' \in [Executor -> ThreadPlace \cup MainPlace] /\ sched' \in [Actor -> {"no", "check", "insert"}]
      BY <3>1, <3>2 DEF CallbacksTypeOK
    <3>4. (\A t \in ServiceThread : at'[t] \in ThreadPlace) /\ at'[Main] \in MainPlace
      BY <3>1, <3>2 DEF CallbacksTypeOK
    <3> QED BY <3>1, <3>3, <3>4, Zenon DEF CallbacksTypeOK
  <2>2. FlagOwned'
    <3>1. \A f \in Executor : f # e => at'[f] = at[f]
      BY DEF CallbacksTypeOK
    <3>2. at[e] = "clear" /\ at'[e] \in {"again", "loop"}
      BY DEF CallbacksTypeOK
    <3>3. \A f \in Executor : at'[f] \notin {"run", "clear"}
      BY <3>1, <3>2 DEF FlagOwned
    <3>4. \A f \in Executor : callback[f] = NoCallback
      BY <3>2 DEF FlagOwned
    <3> QED BY <3>3, <3>4 DEF FlagOwned
  <2>3. Stages'
    BY SMTT(20) DEF CallbacksTypeOK, Stages, PastJoin, Alone
  <2>4. NothingStranded'
    BY SMTT(20) DEF CallbacksTypeOK, FlagOwned, Stages, NothingStranded, Attended, PastJoin, Alone
  <2> QED BY <2>1, <2>2, <2>3, <2>4
<1>7. ASSUME NEW e \in Executor, NEW c \in Event, CallbackAdds(e, c) PROVE CallbacksIInv'
  <2> USE <1>7 DEF CallbackAdds, AddToProcessQueue
  <2>1. CallbacksTypeOK'
    BY SMTT(20) DEF CallbacksTypeOK, ThreadPlace, MainPlace
  <2>2. FlagOwned'
    BY SMTT(20) DEF CallbacksTypeOK, FlagOwned
  <2>3. Stages'
    BY SMTT(20) DEF CallbacksTypeOK, Stages, PastJoin, Alone
  <2>4. NothingStranded'
    BY SMTT(20) DEF CallbacksTypeOK, FlagOwned, Stages, NothingStranded, Attended, PastJoin, Alone
  <2> QED BY <2>1, <2>2, <2>3, <2>4
<1>8. ASSUME NEW t \in ServiceThread, AwaitTask(t) PROVE CallbacksIInv'
  <2> USE <1>8 DEF AwaitTask
  <2>1. CallbacksTypeOK'
    BY SMTT(20) DEF CallbacksTypeOK, ThreadPlace, MainPlace
  <2>2. FlagOwned'
    BY SMTT(20) DEF CallbacksTypeOK, FlagOwned
  <2>3. Stages'
    BY SMTT(20) DEF CallbacksTypeOK, Stages, PastJoin, Alone
  <2>4. NothingStranded'
    BY SMTT(20) DEF CallbacksTypeOK, FlagOwned, Stages, NothingStranded, Attended, PastJoin, Alone
  <2> QED BY <2>1, <2>2, <2>3, <2>4
<1>9. ASSUME NEW t \in ServiceThread, UnnotifiedWakeup(t) PROVE CallbacksIInv'
  <2> USE <1>9 DEF UnnotifiedWakeup
  <2>1. CallbacksTypeOK'
    BY SMTT(20) DEF CallbacksTypeOK, ThreadPlace, MainPlace
  <2>2. FlagOwned'
    BY SMTT(20) DEF CallbacksTypeOK, FlagOwned
  <2>3. Stages'
    BY SMTT(20) DEF CallbacksTypeOK, Stages, PastJoin, Alone
  <2>4. NothingStranded'
    BY SMTT(20) DEF CallbacksTypeOK, FlagOwned, Stages, NothingStranded, Attended, PastJoin, Alone
  <2> QED BY <2>1, <2>2, <2>3, <2>4
<1>10. ASSUME NEW t \in ServiceThread, Service(t) PROVE CallbacksIInv'
  <2> USE <1>10 DEF Service
  <2>1. CallbacksTypeOK'
    BY SMTT(20) DEF CallbacksTypeOK, ThreadPlace, MainPlace
  <2>2. FlagOwned'
    BY SMTT(20) DEF CallbacksTypeOK, FlagOwned
  <2>3. Stages'
    BY SMTT(20) DEF CallbacksTypeOK, Stages, PastJoin, Alone
  <2>4. NothingStranded'
    BY SMTT(20) DEF CallbacksTypeOK, FlagOwned, Stages, NothingStranded, Attended, PastJoin, Alone
  <2> QED BY <2>1, <2>2, <2>3, <2>4
<1>11. ASSUME NEW t \in ServiceThread, Exit(t) PROVE CallbacksIInv'
  <2> USE <1>11 DEF Exit
  <2>1. CallbacksTypeOK'
    BY SMTT(20) DEF CallbacksTypeOK, ThreadPlace, MainPlace
  <2>2. FlagOwned'
    BY SMTT(20) DEF CallbacksTypeOK, FlagOwned
  <2>3. Stages'
    BY SMTT(20) DEF CallbacksTypeOK, Stages, PastJoin, Alone
  <2>4. NothingStranded'
    BY SMTT(20) DEF CallbacksTypeOK, FlagOwned, Stages, NothingStranded, Attended, PastJoin, Alone
  <2> QED BY <2>1, <2>2, <2>3, <2>4
<1>12. ASSUME NEW p \in Producer, LimitValidationInterfaceQueue(p) PROVE CallbacksIInv'
  <2> USE <1>12 DEF LimitValidationInterfaceQueue
  <2>1. CallbacksTypeOK'
    BY SMTT(20) DEF CallbacksTypeOK, ThreadPlace, MainPlace
  <2>2. FlagOwned'
    BY SMTT(20) DEF CallbacksTypeOK, FlagOwned
  <2>3. Stages'
    BY SMTT(20) DEF CallbacksTypeOK, Stages, PastJoin, Alone
  <2>4. NothingStranded'
    BY SMTT(20) DEF CallbacksTypeOK, FlagOwned, Stages, NothingStranded, Attended, PastJoin, Alone
  <2> QED BY <2>1, <2>2, <2>3, <2>4
<1>13. ASSUME NEW p \in Producer, SyncWithValidationInterfaceQueue(p) PROVE CallbacksIInv'
  <2> USE <1>13 DEF SyncWithValidationInterfaceQueue, AddToProcessQueue
  <2>1. CallbacksTypeOK'
    BY SMTT(20) DEF CallbacksTypeOK, ThreadPlace, MainPlace
  <2>2. FlagOwned'
    BY SMTT(20) DEF CallbacksTypeOK, FlagOwned
  <2>3. Stages'
    BY SMTT(20) DEF CallbacksTypeOK, Stages, PastJoin, Alone
  <2>4. NothingStranded'
    BY SMTT(20) DEF CallbacksTypeOK, FlagOwned, Stages, NothingStranded, Attended, PastJoin, Alone
  <2> QED BY <2>1, <2>2, <2>3, <2>4
<1>14. ASSUME NEW p \in Producer, SyncReturns(p) PROVE CallbacksIInv'
  <2> USE <1>14 DEF SyncReturns
  <2>1. CallbacksTypeOK'
    BY SMTT(20) DEF CallbacksTypeOK, ThreadPlace, MainPlace
  <2>2. FlagOwned'
    BY SMTT(20) DEF CallbacksTypeOK, FlagOwned
  <2>3. Stages'
    BY SMTT(20) DEF CallbacksTypeOK, Stages, PastJoin, Alone
  <2>4. NothingStranded'
    BY SMTT(20) DEF CallbacksTypeOK, FlagOwned, Stages, NothingStranded, Attended, PastJoin, Alone
  <2> QED BY <2>1, <2>2, <2>3, <2>4
<1>15. ASSUME NEW p \in Producer, Leave(p) PROVE CallbacksIInv'
  <2> USE <1>15 DEF Leave
  <2>1. CallbacksTypeOK'
    BY SMTT(20) DEF CallbacksTypeOK, ThreadPlace, MainPlace
  <2>2. FlagOwned'
    BY SMTT(20) DEF CallbacksTypeOK, FlagOwned
  <2>3. Stages'
    BY SMTT(20) DEF CallbacksTypeOK, Stages, PastJoin, Alone
  <2>4. NothingStranded'
    BY SMTT(20) DEF CallbacksTypeOK, FlagOwned, Stages, NothingStranded, Attended, PastJoin, Alone
  <2> QED BY <2>1, <2>2, <2>3, <2>4
<1>16. ASSUME NEW p \in Producer, NEW c \in Event, Notify(p, c) PROVE CallbacksIInv'
  <2> USE <1>16 DEF Notify, AddToProcessQueue
  <2>1. CallbacksTypeOK'
    BY SMTT(20) DEF CallbacksTypeOK, ThreadPlace, MainPlace
  <2>2. FlagOwned'
    BY SMTT(20) DEF CallbacksTypeOK, FlagOwned
  <2>3. Stages'
    BY SMTT(20) DEF CallbacksTypeOK, Stages, PastJoin, Alone
  <2>4. NothingStranded'
    BY SMTT(20) DEF CallbacksTypeOK, FlagOwned, Stages, NothingStranded, Attended, PastJoin, Alone
  <2> QED BY <2>1, <2>2, <2>3, <2>4
<1>17. ASSUME Shutdown PROVE CallbacksIInv'
  <2> USE <1>17 DEF Shutdown, MainGoes
  <2>1. CallbacksTypeOK'
    BY SMTT(20) DEF CallbacksTypeOK, ThreadPlace, MainPlace
  <2>2. FlagOwned'
    BY SMTT(20) DEF CallbacksTypeOK, FlagOwned
  <2>3. Stages'
    BY SMTT(20) DEF CallbacksTypeOK, Stages, PastJoin, Alone
  <2>4. NothingStranded'
    BY SMTT(20) DEF CallbacksTypeOK, FlagOwned, Stages, NothingStranded, Attended, PastJoin, Alone
  <2> QED BY <2>1, <2>2, <2>3, <2>4
<1>18. ASSUME StopScheduler PROVE CallbacksIInv'
  <2> USE <1>18 DEF StopScheduler
  <2>1. CallbacksTypeOK'
    BY SMTT(20) DEF CallbacksTypeOK, ThreadPlace, MainPlace
  <2>2. FlagOwned'
    BY SMTT(20) DEF CallbacksTypeOK, FlagOwned
  <2>3. Stages'
    BY SMTT(20) DEF CallbacksTypeOK, Stages, PastJoin, Alone
  <2>4. NothingStranded'
    BY SMTT(20) DEF CallbacksTypeOK, FlagOwned, Stages, NothingStranded, Attended, PastJoin, Alone
  <2> QED BY <2>1, <2>2, <2>3, <2>4
<1>19. ASSUME JoinScheduler PROVE CallbacksIInv'
  <2> USE <1>19 DEF JoinScheduler, MainGoes
  <2>1. CallbacksTypeOK'
    BY SMTT(20) DEF CallbacksTypeOK, ThreadPlace, MainPlace
  <2>2. FlagOwned'
    BY SMTT(20) DEF CallbacksTypeOK, FlagOwned
  <2>3. Stages'
    BY SMTT(20) DEF CallbacksTypeOK, Stages, PastJoin, Alone
  <2>4. NothingStranded'
    BY SMTT(20) DEF CallbacksTypeOK, FlagOwned, Stages, NothingStranded, Attended, PastJoin, Alone
  <2> QED BY <2>1, <2>2, <2>3, <2>4
<1>20. ASSUME JoinLoader PROVE CallbacksIInv'
  <2> USE <1>20 DEF JoinLoader, MainGoes
  <2>1. CallbacksTypeOK'
    BY SMTT(20) DEF CallbacksTypeOK, ThreadPlace, MainPlace
  <2>2. FlagOwned'
    BY SMTT(20) DEF CallbacksTypeOK, FlagOwned
  <2>3. Stages'
    BY SMTT(20) DEF CallbacksTypeOK, Stages, PastJoin, Alone
  <2>4. NothingStranded'
    BY SMTT(20) DEF CallbacksTypeOK, FlagOwned, Stages, NothingStranded, Attended, PastJoin, Alone
  <2> QED BY <2>1, <2>2, <2>3, <2>4
<1>21. ASSUME NEW c \in Event, FlushState(c) PROVE CallbacksIInv'
  <2> USE <1>21 DEF FlushState, MainGoes, AddToProcessQueue
  <2>1. CallbacksTypeOK'
    BY SMTT(20) DEF CallbacksTypeOK, ThreadPlace, MainPlace
  <2>2. FlagOwned'
    BY SMTT(20) DEF CallbacksTypeOK, FlagOwned
  <2>3. Stages'
    BY SMTT(20) DEF CallbacksTypeOK, Stages, PastJoin, Alone
  <2>4. NothingStranded'
    BY SMTT(20) DEF CallbacksTypeOK, FlagOwned, Stages, NothingStranded, Attended, PastJoin, Alone
  <2> QED BY <2>1, <2>2, <2>3, <2>4
<1>22. ASSUME EmptyQueue PROVE CallbacksIInv'
  <2> USE <1>22 DEF EmptyQueue, MainGoes
  <2>1. CallbacksTypeOK'
    BY SMTT(20) DEF CallbacksTypeOK, ThreadPlace, MainPlace
  <2>2. FlagOwned'
    BY SMTT(20) DEF CallbacksTypeOK, FlagOwned
  <2>3. Stages'
    BY SMTT(20) DEF CallbacksTypeOK, Stages, PastJoin, Alone
  <2>4. NothingStranded'
    BY SMTT(20) DEF CallbacksTypeOK, FlagOwned, Stages, NothingStranded, Attended, PastJoin, Alone
  <2> QED BY <2>1, <2>2, <2>3, <2>4
<1>23. CASE UNCHANGED callbacksVars
  <2> USE <1>23 DEF callbacksVars
  <2>1. CallbacksTypeOK' /\ FlagOwned'
    BY SMTT(20) DEF CallbacksTypeOK, FlagOwned
  <2>2. Stages' /\ NothingStranded'
    BY SMTT(20) DEF Stages, NothingStranded, Attended, PastJoin, Alone
  <2> QED BY <2>1, <2>2
<1> HIDE SetFacts DEF CallbacksIInv, Busy
<1> QED
  BY <1>1, <1>2, <1>3, <1>4, <1>5, <1>6, <1>7, <1>8, <1>9, <1>10, <1>11, <1>12, <1>13, <1>14, <1>15, <1>16, <1>17, <1>18, <1>19, <1>20, <1>21, <1>22, <1>23, Zenon
  DEF CallbacksNext, ProcessQueue, ServiceQueue, Sync, ShutdownStep

\* The inductive invariant holds of every behaviour.
THEOREM QueueConsistent == CallbacksSpec => []CallbacksIInv
BY InitIInv, NextIInv, PTL DEF CallbacksSpec

\* NothingStranded for any number of threads: no callback and no task is left
\* behind, though MaybeScheduleProcessQueue drops the task of every caller that
\* finds a callback running.
THEOREM NothingStrandedCorrect == CallbacksSpec => []NothingStranded
<1>1. CallbacksIInv => NothingStranded
  BY DEF CallbacksIInv
<1> QED BY QueueConsistent, <1>1, PTL
-----------------------------------------------------------------------------
\* The one executor that holds a callback holds the current one.
LEMMA CurrentIsHeld ==
  ASSUME CallbacksIInv, NEW e \in Executor, callback[e] # NoCallback
  PROVE  Current = callback[e]
<1>1. \A f \in Executor : Running(f) => f = e
  BY DEF CallbacksIInv, FlagOwned, Busy, Running
<1>2. (CHOOSE f \in Executor : Running(f)) = e
  BY <1>1 DEF Running
<1> QED BY <1>2 DEF Current, Running

LEMMA NoneHeld ==
  ASSUME \A e \in Executor : callback[e] = NoCallback
  PROVE  Current = NoCallback
BY DEF Current, Running

\* A step that leaves the callbacks held alone leaves the current one.
LEMMA CurrentKept ==
  ASSUME UNCHANGED callback
  PROVE  UNCHANGED Current
BY DEF Current, Running

LEMMA InitRefines == CallbacksInit => Q!Init
BY NoneHeld DEF CallbacksInit, Q!Init

LEMMA NextRefines == CallbacksIInv /\ CallbacksIInv' /\ [CallbacksNext]_callbacksVars => [Q!Next]_(Q!vars)
<1> SUFFICES ASSUME CallbacksIInv, CallbacksIInv', [CallbacksNext]_callbacksVars PROVE [Q!Next]_(Q!vars)
  OBVIOUS
<1> USE SetFacts
<1>1. ASSUME NEW e \in Executor, ProcessFirst(e) PROVE Q!Begin
  <2>1. \A f \in Executor : callback[f] = NoCallback
    BY <1>1 DEF ProcessFirst, IsFree, CallbacksIInv, FlagOwned, Busy
  <2>2. Current = NoCallback
    BY <2>1, NoneHeld
  <2>3. callback'[e] = Head(pending)
    BY <1>1 DEF ProcessFirst, CallbacksIInv, CallbacksTypeOK
  <2>4. at'[e] = "run"
    BY <1>1 DEF ProcessFirst, CallbacksIInv, CallbacksTypeOK
  <2>5. callback'[e] # NoCallback
    BY <2>4 DEF CallbacksIInv, FlagOwned
  <2>6. Current' = callback'[e]
    <3>1. \A f \in Executor : Running(f)' => f = e
      BY <1>1, <2>1 DEF Running, ProcessFirst, CallbacksIInv, CallbacksTypeOK
    <3>2. (CHOOSE f \in Executor : Running(f)') = e
      BY <3>1, <2>5 DEF Running
    <3> QED BY <3>2, <2>5 DEF Current, Running
  <2> QED BY <1>1, <2>2, <2>3, <2>6 DEF ProcessFirst, Q!Begin
<1>2. ASSUME NEW e \in Executor, CallbackReturns(e) PROVE Q!End
  <2>1. callback[e] # NoCallback
    BY <1>2 DEF CallbackReturns, CallbacksIInv, FlagOwned
  <2>2. Current = callback[e]
    BY <2>1, CurrentIsHeld
  <2>3. \A f \in Executor : callback'[f] = NoCallback
    <3>1. at[e] = "run" /\ callback' = [callback EXCEPT ![e] = NoCallback]
      BY <1>2, Zenon DEF CallbackReturns
    <3>2. \A f \in Executor : f # e => callback[f] = NoCallback
      BY <3>1 DEF CallbacksIInv, FlagOwned, Busy
    <3> QED BY <3>1, <3>2 DEF CallbacksIInv, CallbacksTypeOK
  <2>4. Current' = NoCallback
    BY <2>3 DEF Current, Running
  <2> QED BY <1>2, <2>1, <2>2, <2>4 DEF CallbackReturns, Q!End
<1>3. ASSUME NEW a \in Actor, NEW c \in Callback, AddToProcessQueue(a, c), UNCHANGED callback
      PROVE  Q!Next
  <2>1. Q!Add(c)
    BY <1>3, CurrentKept DEF AddToProcessQueue, Q!Add
  <2> QED BY <2>1 DEF Q!Next
<1>4. ASSUME UNCHANGED <<pending, callback>> PROVE UNCHANGED Q!vars
  BY <1>4, CurrentKept DEF Q!vars
<1>5. CASE \E e \in Executor, c \in Event : CallbackAdds(e, c)
  BY <1>5, <1>3 DEF CallbackAdds
<1>6. CASE \E p \in Producer : SyncWithValidationInterfaceQueue(p) \/ \E c \in Event : Notify(p, c)
  BY <1>6, <1>3 DEF SyncWithValidationInterfaceQueue, Notify
<1>7. CASE \E c \in Event : FlushState(c)
  BY <1>7, <1>3 DEF FlushState
<1>8. CASE \E e \in Executor : ProcessNothing(e) \/ ClearRunning(e)
  BY <1>8, <1>4 DEF ProcessNothing, ClearRunning
<1>9. CASE \E a \in Actor : MaybeScheduleProcessQueue(a) \/ Schedule(a)
  BY <1>9, <1>4 DEF MaybeScheduleProcessQueue, Schedule
<1>10. CASE \E t \in ServiceThread : ServiceQueue(t) \/ UnnotifiedWakeup(t)
  BY <1>10, <1>4 DEF ServiceQueue, UnnotifiedWakeup, AwaitTask, Service, Exit
<1>11. CASE \E p \in Producer : LimitValidationInterfaceQueue(p) \/ SyncReturns(p) \/ Leave(p)
  BY <1>11, <1>4 DEF LimitValidationInterfaceQueue, SyncReturns, Leave
<1>12. CASE Shutdown \/ ShutdownStep
  BY <1>12, <1>4 DEF Shutdown, ShutdownStep, StopScheduler, JoinScheduler, JoinLoader, EmptyQueue
<1>13. CASE UNCHANGED callbacksVars
  BY <1>13, <1>4 DEF callbacksVars
<1>14. CASE \E e \in Executor : ProcessFirst(e) \/ CallbackReturns(e)
  BY <1>14, <1>1, <1>2 DEF Q!Next
<1> QED BY <1>5, <1>6, <1>7, <1>8, <1>9, <1>10, <1>11, <1>12, <1>13, <1>14
    DEF CallbacksNext, ProcessQueue, Sync

\* ImplementsQueue for any number of threads: the callbacks run one at a time
\* and in the order they were added, through every stage of Shutdown.
THEOREM QueueRefinement == CallbacksSpec => ImplementsQueue
<1>1. CallbacksInit => Q!Init
  BY InitRefines
<1>2. CallbacksIInv /\ CallbacksIInv' /\ [CallbacksNext]_callbacksVars => [Q!Next]_(Q!vars)
  BY NextRefines
<1> QED BY QueueConsistent, <1>1, <1>2, PTL DEF CallbacksSpec, ImplementsQueue, Q!Spec

-----------------------------------------------------------------------------
(* CheckQueue.                                                             *)

Outstanding == queue \cup UNION {held[t] : t \in Thread}
Waiting == {t \in Thread : pc[t] \in {"wait", "woken"}}
Looping == {t \in Thread : InLoop(t)}

Apart ==
  /\ \A t \in Thread : queue \cap held[t] = {}
  /\ \A t, u \in Thread : t # u => held[t] \cap held[u] = {}

HeldOK ==
  \A t \in Thread : /\ held[t] \subseteq added
                    /\ held[t] # {} => pc[t] \in {"work", "lock"}
                    /\ pc[t] = "work" => held[t] # {}

\* nIdle is exact at all times, nTotal while the pool is running.
Counted ==
  /\ nIdle = Cardinality(Waiting)
  /\ pool = "running" => nTotal = Cardinality(Looping)

SomeFailed == added \cap Fails # {}

Verdict ==
  /\ ~fAllOk => SomeFailed
  /\ fAllOk /\ pc[Master] # "returned" => added \cap Fails \subseteq Outstanding
  /\ \A t \in Thread : held[t] # {} /\ ~ok[t] => SomeFailed
  /\ \A t \in Thread : pc[t] = "lock" /\ ok[t] => held[t] \cap Fails = {}

MasterOK ==
  /\ pc[Master] = "idle" => added = {}
  /\ pc[Master] = "returned" =>
       Outstanding = {} /\ fAllOk /\ (result <=> ~SomeFailed)
  /\ pool # "running" => pc[Master] = "idle"
  /\ requestStop => pool \in {"stop", "join"}

IInv == TypeOK /\ Apart /\ HeldOK /\ TodoExact /\ Counted /\ Verdict /\ MasterOK
-----------------------------------------------------------------------------
\* The outstanding checks are finitely many checks of the round.
LEMMA OutstandingLemma ==
  ASSUME IInv
  PROVE  /\ Outstanding \subseteq added
         /\ IsFiniteSet(Outstanding)
         /\ nTodo = Cardinality(Outstanding)
         /\ \A t \in Thread : held[t] \subseteq Outstanding
         /\ Outstanding = {} <=> queue = {} /\ \A t \in Thread : held[t] = {}
<1>1. Outstanding \subseteq added /\ added \subseteq Check
  BY DEF IInv, TypeOK, HeldOK, Outstanding
<1>2. IsFiniteSet(Outstanding)
  BY <1>1, FS_Subset, CheckQueueAssumption
<1>3. nTodo = Cardinality(Outstanding)
  BY DEF IInv, TodoExact, Outstanding
<1>4. /\ \A t \in Thread : held[t] \subseteq Outstanding
      /\ Outstanding = {} <=> queue = {} /\ \A t \in Thread : held[t] = {}
  BY DEF Outstanding
<1> QED BY <1>1, <1>2, <1>3, <1>4

\* What a thread that takes the lock makes of the counters and of the status.
LEMMA AccountLemma ==
  ASSUME IInv, NEW t \in Thread, Enters(t)
  PROVE  /\ Todo(t) = Cardinality(Outstanding \ held[t])
         /\ IsFiniteSet(Outstanding \ held[t])
         /\ ~AllOk(t) => SomeFailed
         /\ AllOk(t) /\ pc[Master] # "returned" =>
              added \cap Fails \subseteq Outstanding \ held[t]
<1>1. /\ Todo(t) = Cardinality(Outstanding \ held[t])
      /\ IsFiniteSet(Outstanding \ held[t])
  <2>1. Outstanding \cap held[t] = held[t]
    BY OutstandingLemma
  <2>2. /\ IsFiniteSet(Outstanding \ held[t])
        /\ Cardinality(Outstanding \ held[t]) = Cardinality(Outstanding) - Cardinality(held[t])
    <3>1. /\ IsFiniteSet(Outstanding \ held[t])
          /\ Cardinality(Outstanding \ held[t]) =
               Cardinality(Outstanding) - Cardinality(Outstanding \cap held[t])
      BY OutstandingLemma, FS_Difference
    <3> QED BY <3>1, <2>1
  <2> QED BY <2>2, OutstandingLemma DEF Todo
<1>2. ~AllOk(t) => SomeFailed
  BY DEF IInv, Verdict, AllOk
<1>3. ASSUME AllOk(t), pc[Master] # "returned"
      PROVE  added \cap Fails \subseteq Outstanding \ held[t]
  <2>1. added \cap Fails \subseteq Outstanding
    BY <1>3 DEF IInv, Verdict, AllOk
  <2>2. held[t] \cap Fails = {}
    BY <1>3 DEF IInv, Verdict, AllOk, HeldOK, Enters
  <2> QED BY <2>1, <2>2
<1> QED BY <1>1, <1>2, <1>3

\* The thread's batch is done and another, maybe empty, is taken.
LEMMA BatchLemma ==
  ASSUME IInv, NEW t \in Thread, Enters(t), NEW S \in SUBSET queue,
         queue' = queue \ S, held' = [held EXCEPT ![t] = S], nTodo' = Todo(t)
  PROVE  /\ Outstanding' = Outstanding \ held[t]
         /\ Apart'
         /\ TodoExact'
         /\ nTodo' \in Nat
<1>1. held \in [Thread -> SUBSET Check]
  BY DEF IInv, TypeOK
<1>2. /\ held'[t] = S
      /\ \A u \in Thread : u # t => held'[u] = held[u]
  BY <1>1
<1>3. Apart'
  BY <1>2 DEF IInv, Apart
<1>4. Outstanding' = Outstanding \ held[t]
  <2>1. ASSUME NEW c \in Outstanding' PROVE c \in Outstanding \ held[t]
    BY <2>1, <1>2 DEF Outstanding, IInv, Apart
  <2>2. ASSUME NEW c \in Outstanding, c \notin held[t] PROVE c \in Outstanding'
    BY <2>2, <1>2 DEF Outstanding
  <2> QED BY <2>1, <2>2
<1>5. TodoExact' /\ nTodo' \in Nat
  BY <1>4, AccountLemma, FS_CardinalityType DEF TodoExact, Outstanding
<1> QED BY <1>3, <1>4, <1>5

\* The sets of threads that nIdle and nTotal count are finite.
LEMMA ThreadsLemma ==
  /\ IsFiniteSet(Thread)
  /\ IsFiniteSet(Waiting) /\ IsFiniteSet(Looping)
<1>1. IsFiniteSet(Thread)
  BY CheckQueueAssumption, FS_AddElement DEF Thread
<1> QED BY <1>1, FS_Subset DEF Waiting, Looping

\* nIdle and nTotal as the thread finds them, itself taken out and in.
LEMMA CountLemma ==
  ASSUME IInv, NEW t \in Thread, Enters(t)
  PROVE  /\ Idle(t) = Cardinality(Waiting \ {t})
         /\ pool = "running" => Total(t) = Cardinality(Looping \cup {t})
         /\ Idle(t) \in Nat /\ Total(t) \in Nat
<1>1. t \in Waiting <=> pc[t] = "woken"
  BY DEF Waiting, Enters
<1>2. t \in Looping <=> ~(pc[t] = "lock" /\ held[t] = {})
  BY DEF Looping, InLoop, Enters
<1>3. Idle(t) = Cardinality(Waiting \ {t})
  BY <1>1, FS_RemoveElement, ThreadsLemma DEF Idle, IInv, Counted
<1>4. pool = "running" => Total(t) = Cardinality(Looping \cup {t})
  BY <1>2, FS_AddElement, ThreadsLemma DEF Total, IInv, Counted
<1>5. Idle(t) \in Nat
  BY <1>3, FS_RemoveElement, FS_CardinalityType, ThreadsLemma
<1>6. Total(t) \in Nat
  BY DEF Total, IInv, TypeOK
<1> QED BY <1>3, <1>4, <1>5, <1>6

\* Waking the master moves it from its wait and nobody else.
LEMMA NotifiedLemma ==
  ASSUME IInv, NEW t \in Thread, Enters(t)
  PROVE  /\ DOMAIN Notified(t) = Thread
         /\ \A u \in Thread : Notified(t)[u] = pc[u]
                              \/ (u = Master /\ pc[u] = "wait" /\ Notified(t)[u] = "woken")
<1>1. DOMAIN pc = Thread /\ Master \in Thread
  BY DEF IInv, TypeOK, Thread
<1> QED BY <1>1 DEF Notified

\* What taking the lock does to the verdict, for each of the ways out of it.
LEMMA VerdictLemma ==
  ASSUME IInv, NEW t \in Thread, Enters(t), NEW S \in SUBSET queue,
         queue' = queue \ S, held' = [held EXCEPT ![t] = S], nTodo' = Todo(t),
         added' = added, fAllOk' = AllOk(t),
         S # {} => ok' = [ok EXCEPT ![t] = AllOk(t)],
         S = {} => ok' = ok,
         \A u \in Thread : u # t /\ pc'[u] = "lock" => pc[u] = "lock",
         pc'[t] # "lock",
         pc'[Master] # "returned" => pc[Master] # "returned"
  PROVE  Verdict'
<1>1. /\ held \in [Thread -> SUBSET Check]
      /\ ok \in [Thread -> BOOLEAN]
  BY DEF IInv, TypeOK
<1>2. /\ held'[t] = S
      /\ \A u \in Thread : u # t => held'[u] = held[u] /\ ok'[u] = ok[u]
  BY <1>1
<1>3. SomeFailed' <=> SomeFailed
  BY DEF SomeFailed
<1>4. ~fAllOk' => SomeFailed'
  BY <1>3, AccountLemma
<1>5. fAllOk' /\ pc'[Master] # "returned" => added' \cap Fails \subseteq Outstanding'
  BY AccountLemma, BatchLemma
<1>6. ASSUME NEW u \in Thread, held'[u] # {}, ~ok'[u] PROVE SomeFailed'
  <2>1. CASE u = t
    <3>1. S # {} /\ ok'[t] = AllOk(t)
      BY <2>1, <1>1, <1>2, <1>6
    <3> QED BY <3>1, <2>1, <1>6, <1>3, AccountLemma
  <2>2. CASE u # t
    BY <2>2, <1>2, <1>3, <1>6 DEF IInv, Verdict
  <2> QED BY <2>1, <2>2
<1>7. ASSUME NEW u \in Thread, pc'[u] = "lock", ok'[u] PROVE held'[u] \cap Fails = {}
  BY <1>2, <1>7 DEF IInv, Verdict
<1> QED BY <1>4, <1>5, <1>6, <1>7 DEF Verdict

\* A thread leaves the lock to wait, to stop or to work on a batch.
LEMMA EnterLemma ==
  ASSUME IInv, NEW t \in Thread, Enters(t), NEW S \in SUBSET queue,
         NEW p \in {"wait", "stopped", "work"}, p = "work" <=> S # {},
         queue' = queue \ S, held' = [held EXCEPT ![t] = S], nTodo' = Todo(t),
         added' = added, fAllOk' = AllOk(t),
         S # {} => ok' = [ok EXCEPT ![t] = AllOk(t)],
         S = {} => ok' = ok,
         pc' = [Notified(t) EXCEPT ![t] = p],
         nIdle' \in Nat, nTotal' \in Nat, Counted',
         UNCHANGED <<requestStop, used, result, pool>>
  PROVE  IInv'
<1>1. /\ Outstanding' = Outstanding \ held[t] /\ Apart' /\ TodoExact' /\ nTodo' \in Nat
  BY BatchLemma, Zenon
<1>2. /\ DOMAIN pc' = Thread /\ pc'[t] = p
      /\ \A u \in Thread : u # t => pc'[u] = pc[u]
                              \/ (u = Master /\ pc[u] = "wait" /\ pc'[u] = "woken")
  BY NotifiedLemma
<1>3. Master \in Thread
  BY DEF Thread
<1>4. Verdict'
  <2>1. pc'[Master] # "returned" => pc[Master] # "returned"
    BY <1>2, <1>3 DEF Enters
  <2>2. \A u \in Thread : u # t /\ pc'[u] = "lock" => pc[u] = "lock"
    BY <1>2
  <2>3. pc'[t] # "lock"
    BY <1>2
  <2> QED BY <2>1, <2>2, <2>3, VerdictLemma, Zenon
<1>5. held \in [Thread -> SUBSET Check] /\ held'[t] = S
      /\ \A u \in Thread : u # t => held'[u] = held[u]
  BY DEF IInv, TypeOK
<1>6. HeldOK'
  <2> SUFFICES ASSUME NEW u \in Thread
               PROVE  /\ held'[u] \subseteq added'
                      /\ held'[u] # {} => pc'[u] \in {"work", "lock"}
                      /\ pc'[u] = "work" => held'[u] # {}
    BY DEF HeldOK
  <2>1. CASE u = t
    <3>1. queue \subseteq added
      BY Zenon DEF IInv, TypeOK
    <3>2. held'[u] = S /\ S \subseteq added'
      BY <2>1, <3>1, <1>5
    <3>3. pc'[u] = p
      BY <2>1, <1>2, Zenon
    <3> QED BY <3>2, <3>3
  <2>2. CASE u # t
    <3>1. held'[u] = held[u] /\ (pc'[u] = pc[u] \/ (pc[u] = "wait" /\ pc'[u] = "woken"))
      BY <2>2, <1>2, <1>5, Zenon
    <3>2. /\ held[u] \subseteq added
          /\ held[u] # {} => pc[u] \in {"work", "lock"}
          /\ pc[u] = "work" => held[u] # {}
      BY Zenon DEF IInv, HeldOK
    <3> QED BY <3>1, <3>2
  <2> QED BY <2>1, <2>2
<1>7. TypeOK'
  <2>1. AllOk(t) \in BOOLEAN
    BY DEF AllOk
  <2>2. ok' \in [Thread -> BOOLEAN]
    BY <2>1 DEF IInv, TypeOK
  <2>3. pc' \in [Thread -> Place]
    <3>1. \A u \in Thread : pc'[u] \in Place
      BY <1>2 DEF IInv, TypeOK, Place
    <3>2. pc' = [u \in Thread |-> pc'[u]]
      BY NotifiedLemma
    <3> QED BY <3>1, <3>2
  <2>4. held' \in [Thread -> SUBSET Check] /\ queue' \subseteq added'
    BY <1>5 DEF IInv, TypeOK
  <2> QED BY <2>1, <2>2, <2>3, <2>4, <1>1 DEF IInv, TypeOK
<1>8. MasterOK'
  <2>1. ASSUME pc'[Master] = "returned"
        PROVE  Outstanding' = {} /\ fAllOk' /\ (result' <=> ~SomeFailed')
    <3>1. t # Master /\ pc[Master] = "returned"
      BY <2>1, <1>2, <1>3
    <3>2. Outstanding = {} /\ fAllOk /\ (result <=> ~SomeFailed)
      BY <3>1 DEF IInv, MasterOK
    <3>3. held[t] = {}
      BY <3>2, OutstandingLemma
    <3> QED BY <3>2, <3>3, <1>1 DEF AllOk, SomeFailed
  <2>2. pc'[Master] = "idle" <=> pc[Master] = "idle"
    BY <1>2, <1>3 DEF Enters
  <2> QED BY <2>1, <2>2 DEF IInv, MasterOK
<1> QED BY <1>1, <1>4, <1>6, <1>7, <1>8 DEF IInv

\* The threads counted by nIdle and nTotal when t goes to p and the master may
\* be woken.
LEMMA MovedLemma ==
  ASSUME IInv, NEW t \in Thread, Enters(t), NEW p \in {"wait", "stopped", "work"},
         pc' = [Notified(t) EXCEPT ![t] = p],
         \A u \in Thread : u # t => held'[u] = held[u]
  PROVE  /\ Waiting' = IF p = "wait" THEN Waiting \cup {t} ELSE Waiting \ {t}
         /\ Looping' = IF p = "stopped" THEN Looping \ {t} ELSE Looping \cup {t}
<1>1. /\ pc'[t] = p
      /\ \A u \in Thread : u # t => pc'[u] = pc[u]
                              \/ (u = Master /\ pc[u] = "wait" /\ pc'[u] = "woken")
  BY NotifiedLemma
<1> QED BY <1>1 DEF Waiting, Looping, InLoop

LEMMA WaitForWorkLemma ==
  ASSUME IInv, NEW t \in Thread, WaitForWork(t)
  PROVE  IInv'
<1>1. /\ Enters(t)
      /\ queue' = queue \ {} /\ held' = [held EXCEPT ![t] = {}] /\ nTodo' = Todo(t)
      /\ added' = added /\ fAllOk' = AllOk(t) /\ ok' = ok
      /\ pc' = [Notified(t) EXCEPT ![t] = "wait"]
      /\ nTotal' = Total(t) /\ nIdle' = Idle(t) + 1
      /\ UNCHANGED <<requestStop, used, result, pool>>
  BY DEF WaitForWork
<1>2. \A u \in Thread : u # t => held'[u] = held[u]
  BY <1>1 DEF IInv, TypeOK
<1>3. Waiting' = (Waiting \ {t}) \cup {t} /\ Looping' = Looping \cup {t}
  <2>1. Waiting' = Waiting \cup {t} /\ Looping' = Looping \cup {t}
    BY <1>1, <1>2, MovedLemma
  <2> QED BY <2>1
<1>4. Counted'
  <2>1. Cardinality((Waiting \ {t}) \cup {t}) = Cardinality(Waiting \ {t}) + 1
    BY ThreadsLemma, FS_RemoveElement, FS_AddElement
  <2> QED BY <1>1, <1>3, <2>1, CountLemma DEF Counted
<1>5. nIdle' \in Nat /\ nTotal' \in Nat
  <2>1. Idle(t) \in Nat /\ Total(t) \in Nat
    BY <1>1, CountLemma
  <2> QED BY <2>1, <1>1
<1> QED BY <1>1, <1>4, <1>5, EnterLemma

LEMMA LeaveLoopLemma ==
  ASSUME IInv, NEW t \in Thread, LeaveLoop(t)
  PROVE  IInv'
<1>1. /\ Enters(t)
      /\ queue' = queue \ {} /\ held' = [held EXCEPT ![t] = {}] /\ nTodo' = Todo(t)
      /\ added' = added /\ fAllOk' = AllOk(t) /\ ok' = ok
      /\ pc' = [Notified(t) EXCEPT ![t] = "stopped"]
      /\ nTotal' = Total(t) /\ nIdle' = Idle(t)
      /\ requestStop
      /\ UNCHANGED <<requestStop, used, result, pool>>
  BY DEF LeaveLoop
<1>2. \A u \in Thread : u # t => held'[u] = held[u]
  BY <1>1 DEF IInv, TypeOK
<1>3. Waiting' = Waiting \ {t}
  BY <1>1, <1>2, MovedLemma
<1>4. Counted'
  BY <1>1, <1>3, CountLemma DEF Counted, IInv, MasterOK
<1>5. nIdle' \in Nat /\ nTotal' \in Nat
  BY <1>1, CountLemma
<1> QED BY <1>1, <1>4, <1>5, EnterLemma

LEMMA TakeLemma ==
  ASSUME IInv, NEW t \in Thread, Take(t)
  PROVE  IInv'
<1>1. PICK S \in SUBSET queue :
        /\ Cardinality(S) = Now(Total(t), Idle(t))
        /\ queue' = queue \ S
        /\ held' = [held EXCEPT ![t] = S]
  BY DEF Take
<1>2. S # {}
  BY <1>1, FS_EmptySet DEF Now
<1>3. /\ Enters(t) /\ nTodo' = Todo(t)
      /\ added' = added /\ fAllOk' = AllOk(t) /\ ok' = [ok EXCEPT ![t] = AllOk(t)]
      /\ pc' = [Notified(t) EXCEPT ![t] = "work"]
      /\ nTotal' = Total(t) /\ nIdle' = Idle(t)
      /\ UNCHANGED <<requestStop, used, result, pool>>
  BY DEF Take
<1>4. \A u \in Thread : u # t => held'[u] = held[u]
  BY <1>1 DEF IInv, TypeOK
<1>5. Waiting' = Waiting \ {t} /\ Looping' = Looping \cup {t}
  BY <1>3, <1>4, MovedLemma
<1>6. Counted'
  BY <1>3, <1>5, CountLemma DEF Counted
<1>7. nIdle' \in Nat /\ nTotal' \in Nat
  BY <1>3, CountLemma
<1> QED BY <1>1, <1>2, <1>3, <1>6, <1>7, EnterLemma

\* Wait returns with the exact verdict and nothing outstanding.
LEMMA ReturnLemma ==
  ASSUME IInv, NEW t \in Thread, Return(t)
  PROVE  IInv'
<1>1. /\ Enters(t) /\ t = Master /\ Todo(t) = 0
      /\ queue' = queue \ {} /\ held' = [held EXCEPT ![t] = {}] /\ nTodo' = Todo(t)
      /\ added' = added /\ result' = AllOk(t) /\ fAllOk' = TRUE /\ ok' = ok
      /\ pc' = [pc EXCEPT ![t] = "returned"]
      /\ nTotal' = Total(t) - 1 /\ nIdle' = Idle(t)
      /\ UNCHANGED <<requestStop, used, pool>>
  BY DEF Return, MasterDone, StatusAfter
<1>2. /\ Outstanding' = Outstanding \ held[t] /\ Apart' /\ TodoExact' /\ nTodo' \in Nat
  BY <1>1, BatchLemma
<1>3. Outstanding' = {}
  BY <1>1, <1>2, AccountLemma, FS_EmptySet
<1>4. /\ held \in [Thread -> SUBSET Check] /\ pc \in [Thread -> Place]
      /\ held'[t] = {} /\ pc'[t] = "returned"
      /\ \A u \in Thread : u # t => held'[u] = held[u] /\ pc'[u] = pc[u]
  BY <1>1 DEF IInv, TypeOK
<1>5. pool = "running"
  BY <1>1 DEF IInv, MasterOK, Enters
<1>6. result' <=> ~SomeFailed'
  <2>1. pc[Master] # "returned"
    BY <1>1 DEF Enters
  <2>2. ~AllOk(t) => SomeFailed
    BY <1>1, AccountLemma
  <2>3. AllOk(t) => added \cap Fails \subseteq Outstanding'
    BY <1>1, <1>2, <2>1, AccountLemma
  <2> QED BY <1>1, <1>3, <2>2, <2>3 DEF SomeFailed
<1>7. Verdict'
  <2>1. \A u \in Thread : held'[u] = {}
    BY <1>3 DEF Outstanding
  <2> QED BY <1>1, <1>4, <2>1 DEF Verdict
<1>8. HeldOK'
  BY <1>1, <1>4 DEF IInv, HeldOK
<1>9. Waiting' = Waiting \ {t} /\ Looping' = (Looping \cup {t}) \ {t}
  BY <1>4 DEF Waiting, Looping, InLoop
<1>10. Counted' /\ nIdle' \in Nat /\ nTotal' \in Nat
  <2>1. /\ Cardinality((Looping \cup {t}) \ {t}) = Cardinality(Looping \cup {t}) - 1
        /\ Cardinality((Looping \cup {t}) \ {t}) \in Nat
    <3>1. IsFiniteSet(Looping \cup {t})
      BY ThreadsLemma, FS_AddElement
    <3>2. IsFiniteSet((Looping \cup {t}) \ {t})
      BY <3>1, FS_RemoveElement
    <3> QED BY <3>1, <3>2, FS_RemoveElement, FS_CardinalityType
  <2>2. /\ Idle(t) = Cardinality(Waiting \ {t}) /\ Idle(t) \in Nat
        /\ Total(t) = Cardinality(Looping \cup {t})
    BY <1>1, <1>5, CountLemma
  <2> QED BY <1>1, <1>9, <2>1, <2>2 DEF Counted
<1>11. TypeOK'
  <2>1. AllOk(t) \in BOOLEAN
    BY DEF AllOk
  <2>2. held' \in [Thread -> SUBSET Check] /\ pc' \in [Thread -> Place]
    BY <1>1, <1>4 DEF Place
  <2> QED BY <1>1, <1>2, <1>10, <2>1, <2>2 DEF IInv, TypeOK
<1>12. MasterOK'
  BY <1>1, <1>3, <1>4, <1>5, <1>6 DEF MasterOK, IInv
<1> QED BY <1>2, <1>7, <1>8, <1>10, <1>11, <1>12 DEF IInv

\* The checks of a batch are evaluated.
LEMMA WorkLemma ==
  ASSUME IInv, NEW t \in Thread, Work(t)
  PROVE  IInv'
<1>1. /\ pc[t] = "work"
      /\ ok' = [ok EXCEPT ![t] = ok[t] /\ held[t] \cap Fails = {}]
      /\ pc' = [pc EXCEPT ![t] = "lock"]
      /\ UNCHANGED <<queue, held, nIdle, nTotal, nTodo, fAllOk, requestStop, added, used,
                     result, pool>>
  BY DEF Work
<1>2. /\ held \in [Thread -> SUBSET Check] /\ pc \in [Thread -> Place]
      /\ ok \in [Thread -> BOOLEAN] /\ Master \in Thread
  BY DEF IInv, TypeOK, Thread
<1>3. /\ pc'[t] = "lock" /\ ok'[t] = (ok[t] /\ held[t] \cap Fails = {})
      /\ \A u \in Thread : u # t => pc'[u] = pc[u] /\ ok'[u] = ok[u]
  BY <1>1, <1>2
<1>4. held[t] # {} /\ held[t] \subseteq added
  BY <1>1 DEF IInv, HeldOK
<1>5. TypeOK'
  BY <1>1, <1>2 DEF IInv, TypeOK, Place
<1>6. Apart' /\ TodoExact' /\ Outstanding' = Outstanding
  BY <1>1 DEF IInv, Apart, TodoExact, Outstanding
<1>7. HeldOK'
  BY <1>1, <1>3, <1>4 DEF IInv, HeldOK
<1>8. Counted'
  <2>1. Waiting' = Waiting /\ Looping' = Looping
    BY <1>1, <1>3, <1>4 DEF Waiting, Looping, InLoop
  <2> QED BY <2>1, <1>1 DEF IInv, Counted
<1>9. Verdict'
  <2>1. SomeFailed' <=> SomeFailed
    BY <1>1 DEF SomeFailed
  <2>2. pc'[Master] = "returned" <=> pc[Master] = "returned"
    BY <1>1, <1>2, <1>3
  <2>3. ASSUME NEW u \in Thread, held'[u] # {}, ~ok'[u] PROVE SomeFailed'
    BY <1>1, <1>3, <1>4, <2>1, <2>3 DEF IInv, Verdict, SomeFailed
  <2>4. ASSUME NEW u \in Thread, pc'[u] = "lock", ok'[u] PROVE held'[u] \cap Fails = {}
    BY <1>1, <1>3, <2>4 DEF IInv, Verdict
  <2> QED BY <1>1, <1>6, <2>1, <2>2, <2>3, <2>4 DEF IInv, Verdict
<1>10. MasterOK'
  <2>1. /\ pc'[Master] = "returned" <=> pc[Master] = "returned"
        /\ pc'[Master] = "idle" <=> pc[Master] = "idle"
    BY <1>1, <1>2, <1>3
  <2> QED BY <1>1, <1>6, <2>1 DEF IInv, MasterOK, SomeFailed
<1> QED BY <1>5, <1>6, <1>7, <1>8, <1>9, <1>10 DEF IInv

\* A thread moves between places that differ neither for its batch nor for the
\* counters.
Moves(u) ==
  \/ pc'[u] = pc[u]
  \/ {pc[u], pc'[u]} \subseteq {"wait", "woken"}
  \/ /\ held[u] = {}
     /\ pc[u] \notin {"wait", "woken", "work"} /\ pc'[u] \notin {"wait", "woken", "work"}

LEMMA PcLemma ==
  ASSUME IInv,
         UNCHANGED <<queue, held, ok, nIdle, nTotal, nTodo, fAllOk, added, used, result>>,
         pc' \in [Thread -> Place], \A u \in Thread : Moves(u),
         pc'[Master] = "returned" <=> pc[Master] = "returned",
         pc'[Master] = "idle" => pc[Master] = "idle",
         requestStop' \in BOOLEAN, pool' \in {"off", "running", "stop", "join"},
         pool' = "running" => pool = "running",
         pool' # "running" => pc'[Master] = "idle",
         requestStop' => pool' \in {"stop", "join"}
  PROVE  IInv'
<1>1. TypeOK'
  BY DEF IInv, TypeOK
<1>2. Apart' /\ TodoExact' /\ Outstanding' = Outstanding /\ (SomeFailed' <=> SomeFailed)
  BY DEF IInv, Apart, TodoExact, Outstanding, SomeFailed
<1>3. HeldOK'
  BY DEF IInv, HeldOK, Moves
<1>4. Counted'
  <2>1. Waiting' = Waiting
    BY DEF Waiting, Moves
  <2>2. Looping' = Looping
    BY DEF Looping, InLoop, Moves
  <2> QED BY <2>1, <2>2 DEF IInv, Counted
<1>5. Verdict'
  <2>1. ASSUME NEW u \in Thread, pc'[u] = "lock", ok'[u] PROVE held'[u] \cap Fails = {}
    BY <2>1 DEF IInv, Verdict, Moves
  <2> QED BY <1>2, <2>1 DEF IInv, Verdict
<1>6. MasterOK'
  BY <1>2 DEF IInv, MasterOK
<1> QED BY <1>1, <1>2, <1>3, <1>4, <1>5, <1>6 DEF IInv

\* The steps that only move threads and the stages of the pool.
LEMMA MoveLemma ==
  ASSUME IInv,
         \/ \E t \in Thread : SpuriousWakeup(t)
         \/ Control \/ NotifyOne \/ NotifyAll \/ Wait
         \/ StopWorkerThreads \/ StopNotify \/ Join
  PROVE  IInv'
<1>1. /\ pc \in [Thread -> Place] /\ Master \in Thread /\ Worker \subseteq Thread
      /\ Master \notin Worker
      /\ requestStop \in BOOLEAN /\ pool \in {"off", "running", "stop", "join"}
      /\ pool # "running" => pc[Master] = "idle"
      /\ requestStop => pool \in {"stop", "join"}
  BY CheckQueueAssumption DEF IInv, TypeOK, Thread, MasterOK
<1>2. \A u \in Thread : pc[u] \notin {"work", "lock"} => held[u] = {}
  BY DEF IInv, HeldOK
<1>3. ASSUME NEW t \in Thread, SpuriousWakeup(t) PROVE IInv'
  <2>1. pc' \in [Thread -> Place] /\ \A u \in Thread : Moves(u)
    BY <1>1, <1>3 DEF SpuriousWakeup, Moves, Place
  <2>2. /\ pc'[Master] = "returned" <=> pc[Master] = "returned"
        /\ pc'[Master] = "idle" <=> pc[Master] = "idle"
    BY <1>1, <1>3 DEF SpuriousWakeup
  <2> QED BY <1>1, <1>3, <2>1, <2>2, PcLemma DEF SpuriousWakeup
<1>4. CASE Control
  <2>1. pc' \in [Thread -> Place] /\ \A u \in Thread : Moves(u)
    BY <1>1, <1>2, <1>4 DEF Control, Moves, Place
  <2>2. pc'[Master] = "control"
    BY <1>1, <1>4 DEF Control
  <2> QED BY <1>1, <1>4, <2>1, <2>2, PcLemma DEF Control
<1>5. CASE NotifyOne
  <2>1. /\ pc' \in [Thread -> Place] /\ \A u \in Thread : Moves(u)
        /\ pc'[Master] = "control"
    <3>1. CASE pc' = [pc EXCEPT ![Master] = "control"]
      BY <1>1, <1>2, <1>5, <3>1 DEF NotifyOne, Moves, Place
    <3>2. ASSUME NEW w \in Worker, pc[w] = "wait",
                 pc' = [pc EXCEPT ![w] = "woken", ![Master] = "control"]
          PROVE  /\ pc' \in [Thread -> Place] /\ \A u \in Thread : Moves(u)
                 /\ pc'[Master] = "control"
      BY <1>1, <1>2, <1>5, <3>2 DEF NotifyOne, Moves, Place
    <3> QED BY <1>5, <3>1, <3>2 DEF NotifyOne
  <2> QED BY <1>1, <1>5, <2>1, PcLemma DEF NotifyOne
<1>6. CASE NotifyAll
  <2>1. /\ pc' \in [Thread -> Place] /\ \A u \in Thread : Moves(u)
        /\ pc'[Master] = "control"
    BY <1>1, <1>2, <1>6 DEF NotifyAll, WakeWorkers, Moves, Place
  <2> QED BY <1>1, <1>6, <2>1, PcLemma DEF NotifyAll
<1>7. CASE Wait
  <2>1. /\ pc' \in [Thread -> Place] /\ \A u \in Thread : Moves(u)
        /\ pc'[Master] = "lock"
    BY <1>1, <1>2, <1>7 DEF Wait, Moves, Place
  <2> QED BY <1>1, <1>7, <2>1, PcLemma DEF Wait
<1>8. CASE StopWorkerThreads
  <2>1. \A u \in Thread : Moves(u)
    BY <1>8 DEF StopWorkerThreads, Moves
  <2> QED BY <1>1, <1>8, <2>1, PcLemma DEF StopWorkerThreads
<1>9. CASE StopNotify
  <2>1. /\ pc' \in [Thread -> Place] /\ \A u \in Thread : Moves(u)
        /\ pc'[Master] = pc[Master]
    BY <1>1, <1>9 DEF StopNotify, WakeWorkers, Moves, Place
  <2> QED BY <1>1, <1>9, <2>1, PcLemma DEF StopNotify
<1>10. CASE Join
  <2>1. /\ pc' \in [Thread -> Place] /\ \A u \in Thread : Moves(u)
        /\ pc'[Master] = pc[Master]
    BY <1>1, <1>2, <1>10 DEF Join, Moves, Place
  <2> QED BY <1>1, <1>10, <2>1, PcLemma DEF Join
<1> QED BY <1>3, <1>4, <1>5, <1>6, <1>7, <1>8, <1>9, <1>10

\* New checks join the outstanding ones.
LEMMA AddLemma ==
  ASSUME IInv, NEW S \in SUBSET (Check \ used), Add(S)
  PROVE  IInv'
<1>1. /\ pc \in [Thread -> Place] /\ Master \in Thread
      /\ queue \subseteq added /\ added \subseteq used /\ used \subseteq Check
      /\ \A t \in Thread : held[t] \subseteq added
  BY DEF IInv, TypeOK, HeldOK, Thread
<1>2. /\ queue' = queue \cup S /\ nTodo' = nTodo + Cardinality(S)
      /\ added' = added \cup S /\ used' = used \cup S
      /\ pc[Master] = "control" /\ pc'[Master] \in {"notifyOne", "notifyAll"}
      /\ pc' \in [Thread -> Place]
      /\ \A u \in Thread : u # Master => pc'[u] = pc[u]
      /\ UNCHANGED <<held, ok, nIdle, nTotal, fAllOk, requestStop, result, pool>>
  BY <1>1 DEF Add, Place
<1>3. Outstanding' = Outstanding \cup S
  BY <1>2 DEF Outstanding
<1>4. TodoExact' /\ nTodo' \in Nat
  <2>1. IsFiniteSet(S)
    BY FS_Subset, CheckQueueAssumption
  <2>2. Outstanding \cap S = {}
    BY <1>1, OutstandingLemma
  <2>3. /\ IsFiniteSet(Outstanding \cup S)
        /\ Cardinality(Outstanding \cup S) =
             Cardinality(Outstanding) + Cardinality(S) - Cardinality(Outstanding \cap S)
    BY <2>1, OutstandingLemma, FS_Union
  <2>4. /\ Cardinality(Outstanding) \in Nat /\ Cardinality(S) \in Nat
        /\ Cardinality(Outstanding \cap S) = 0
    <3>1. IsFiniteSet(Outstanding)
      BY OutstandingLemma, Zenon
    <3>2. Cardinality(Outstanding) \in Nat /\ Cardinality(S) \in Nat
      BY <2>1, <3>1, FS_CardinalityType, Zenon
    <3> QED BY <2>2, <3>2, FS_EmptySet, Zenon
  <2>5. nTodo = Cardinality(Outstanding)
    BY OutstandingLemma, Zenon
  <2>6. nTodo' = nTodo + Cardinality(S) /\ Outstanding' = Outstanding \cup S
    BY <1>2, <1>3, Zenon
  <2>7. nTodo' = Cardinality(Outstanding') /\ nTodo' \in Nat
    BY <2>3, <2>4, <2>5, <2>6
  <2> QED BY <2>7 DEF TodoExact, Outstanding
<1>5. TypeOK'
  BY <1>1, <1>2, <1>4 DEF IInv, TypeOK
<1>6. Apart'
  BY <1>1, <1>2 DEF IInv, Apart
<1>7. HeldOK'
  BY <1>1, <1>2 DEF IInv, HeldOK
<1>8. Counted'
  <2>1. Waiting' = Waiting /\ Looping' = Looping
    BY <1>2 DEF Waiting, Looping, InLoop
  <2> QED BY <2>1, <1>2 DEF IInv, Counted
<1>9. Verdict'
  <2>1. SomeFailed => SomeFailed'
    BY <1>2 DEF SomeFailed
  <2>2. fAllOk => added' \cap Fails \subseteq Outstanding'
    BY <1>2, <1>3 DEF IInv, Verdict
  <2>3. ASSUME NEW u \in Thread, pc'[u] = "lock", ok'[u] PROVE held'[u] \cap Fails = {}
    BY <1>2, <2>3 DEF IInv, Verdict
  <2> QED BY <1>2, <2>1, <2>2, <2>3 DEF IInv, Verdict
<1>10. MasterOK'
  BY <1>2 DEF IInv, MasterOK
<1> QED BY <1>4, <1>5, <1>6, <1>7, <1>8, <1>9, <1>10 DEF IInv

\* The round is over.
LEMMA EndControlLemma ==
  ASSUME IInv, EndControl
  PROVE  IInv'
<1>1. /\ pc \in [Thread -> Place] /\ Master \in Thread
      /\ Outstanding = {} /\ queue = {} /\ \A t \in Thread : held[t] = {}
      /\ fAllOk /\ pool = "running"
  BY OutstandingLemma DEF EndControl, IInv, TypeOK, MasterOK, Thread
<1>2. /\ added' = {} /\ pc'[Master] = "idle" /\ pc' \in [Thread -> Place]
      /\ pc[Master] = "returned"
      /\ \A u \in Thread : u # Master => pc'[u] = pc[u]
      /\ UNCHANGED <<queue, held, ok, nIdle, nTotal, nTodo, fAllOk, requestStop, used,
                     result, pool>>
  BY <1>1 DEF EndControl, Place
<1>3. TypeOK'
  BY <1>1, <1>2 DEF IInv, TypeOK
<1>4. Apart' /\ TodoExact' /\ HeldOK'
  <2>1. Apart' /\ TodoExact'
    BY <1>2, Zenon DEF IInv, Apart, TodoExact
  <2>2. HeldOK'
    BY <1>1, <1>2 DEF IInv, HeldOK
  <2> QED BY <2>1, <2>2
<1>5. Counted'
  <2>1. Waiting' = Waiting /\ Looping' = Looping
    BY <1>2 DEF Waiting, Looping, InLoop
  <2> QED BY <2>1, <1>2 DEF IInv, Counted
<1>6. Verdict'
  BY <1>1, <1>2 DEF Verdict
<1>7. MasterOK'
  BY <1>1, <1>2 DEF IInv, MasterOK
<1> QED BY <1>3, <1>4, <1>5, <1>6, <1>7 DEF IInv

\* The pool is started, between rounds.
LEMMA StartLemma ==
  ASSUME IInv, StartWorkerThreads
  PROVE  IInv'
<1>1. /\ pc \in [Thread -> Place] /\ Master \in Thread /\ Master \notin Worker
      /\ Thread = Worker \cup {Master}
      /\ pc[Master] = "idle" /\ added = {} /\ \A t \in Thread : held[t] = {}
  BY CheckQueueAssumption DEF StartWorkerThreads, IInv, TypeOK, MasterOK, HeldOK, Thread
<1>2. /\ nIdle' = 0 /\ nTotal' = 0 /\ fAllOk' = TRUE /\ pool = "off" /\ pool' = "running"
      /\ pc' \in [Thread -> Place] /\ pc'[Master] = "idle"
      /\ \A w \in Worker : pc'[w] = "lock"
      /\ UNCHANGED <<queue, held, ok, nTodo, requestStop, added, used, result>>
  BY <1>1 DEF StartWorkerThreads, Place
<1>3. TypeOK'
  BY <1>1, <1>2 DEF IInv, TypeOK
<1>4. Apart' /\ TodoExact' /\ HeldOK'
  <2>1. Apart' /\ TodoExact'
    BY <1>2, Zenon DEF IInv, Apart, TodoExact
  <2>2. HeldOK'
    BY <1>1, <1>2 DEF IInv, HeldOK
  <2> QED BY <2>1, <2>2
<1>5. Counted'
  <2>1. Waiting' = {} /\ Looping' = {}
    BY <1>1, <1>2 DEF Waiting, Looping, InLoop
  <2> QED BY <2>1, <1>2, FS_EmptySet DEF Counted
<1>6. Verdict'
  BY <1>1, <1>2 DEF Verdict
<1>7. MasterOK'
  BY <1>1, <1>2 DEF IInv, MasterOK
<1> QED BY <1>3, <1>4, <1>5, <1>6, <1>7 DEF IInv
-----------------------------------------------------------------------------
LEMMA InitLemma ==
  Init => IInv
<1> SUFFICES ASSUME Init PROVE IInv
  OBVIOUS
<1>1. Master \in Thread
  BY DEF Thread
<1>2. Outstanding = {} /\ Waiting = {} /\ Looping = {}
  BY DEF Init, Outstanding, Waiting, Looping, InLoop
<1>3. TypeOK /\ Apart /\ HeldOK
  <2>1. queue = {} /\ \A t \in Thread : held[t] = {}
    BY Zenon DEF Init
  <2>2. TypeOK
    <3>1. held \in [Thread -> SUBSET Check] /\ ok \in [Thread -> BOOLEAN]
      BY Zenon DEF Init
    <3>2. pc \in [Thread -> Place]
      BY DEF Init, Place
    <3>3. nIdle \in Nat /\ nTotal \in Nat /\ nTodo \in Nat
      BY DEF Init
    <3> QED BY <3>1, <3>2, <3>3, Zenon DEF Init, TypeOK
  <2>3. Apart
    BY <2>1 DEF Apart
  <2>4. HeldOK
    BY <2>1, Zenon DEF Init, HeldOK
  <2> QED BY <2>2, <2>3, <2>4
<1>4. TodoExact /\ Counted
  BY <1>2, FS_EmptySet DEF Init, TodoExact, Counted, Outstanding
<1>5. Verdict /\ MasterOK
  BY <1>1, <1>2 DEF Init, Verdict, MasterOK, SomeFailed
<1> QED BY <1>3, <1>4, <1>5 DEF IInv

LEMMA NextLemma ==
  IInv /\ [Next]_vars => IInv'
<1> SUFFICES ASSUME IInv, [Next]_vars PROVE IInv'
  OBVIOUS
<1>1. ASSUME NEW t \in Thread, Loop(t) PROVE IInv'
  BY <1>1, ReturnLemma, WaitForWorkLemma, LeaveLoopLemma, TakeLemma, WorkLemma DEF Loop
<1>2. ASSUME NEW t \in Thread, SpuriousWakeup(t) PROVE IInv'
  BY <1>2, MoveLemma
<1>3. CASE Control \/ NotifyOne \/ NotifyAll \/ Wait \/ StopWorkerThreads \/ StopNotify \/ Join
  BY <1>3, MoveLemma
<1>4. ASSUME NEW S \in SUBSET (Check \ used), Add(S) PROVE IInv'
  BY <1>4, AddLemma
<1>5. CASE EndControl
  BY <1>5, EndControlLemma
<1>6. CASE StartWorkerThreads
  BY <1>6, StartLemma
<1>7. CASE UNCHANGED vars
  <2>1. TypeOK' /\ Apart' /\ HeldOK'
    BY <1>7 DEF vars, IInv, TypeOK, Apart, HeldOK
  <2>2. TodoExact' /\ Counted'
    BY <1>7 DEF vars, IInv, TodoExact, Counted, Waiting, Looping, InLoop
  <2>3. Verdict' /\ MasterOK'
    BY <1>7 DEF vars, IInv, Verdict, MasterOK, SomeFailed, Outstanding
  <2> QED BY <2>1, <2>2, <2>3 DEF IInv
<1> QED BY <1>1, <1>2, <1>3, <1>4, <1>5, <1>6, <1>7 DEF Next

\* CCheckQueue: the inductive invariant holds of every behaviour.
THEOREM Invariance == Spec => []IInv
BY InitLemma, NextLemma, PTL DEF Spec

\* CCheckQueue::Loop: the counters and the batches keep their types; nIdle and
\* nTodo never go below zero.
THEOREM TypeCorrect == Spec => []TypeOK
<1>1. IInv => TypeOK
  BY DEF IInv
<1> QED BY <1>1, Invariance, PTL

\* CCheckQueue::Loop: nTodo counts the checks in the queue and in all batches.
THEOREM TodoCorrect == Spec => []TodoExact
<1>1. IInv => TodoExact
  BY DEF IInv
<1> QED BY <1>1, Invariance, PTL

\* CCheckQueue::Wait: the result is exact for any number of workers and checks.
THEOREM ResultCorrect == Spec => []ResultExact
<1>1. IInv => ResultExact
  BY DEF IInv, MasterOK, ResultExact, SomeFailed
<1> QED BY <1>1, Invariance, PTL

\* CCheckQueue::Wait: no thread is left with a check when it returns.
THEOREM NoneOutlives == Spec => []NoCheckOutlivesWait
<1>1. IInv => NoCheckOutlivesWait
  <2> SUFFICES ASSUME IInv, pc[Master] = "returned"
               PROVE  queue = {} /\ nTodo = 0 /\ \A t \in Thread : held[t] = {}
    BY DEF NoCheckOutlivesWait
  <2>1. Outstanding = {}
    BY DEF IInv, MasterOK
  <2> QED BY <2>1, OutstandingLemma, FS_EmptySet
<1> QED BY <1>1, Invariance, PTL

\* CCheckQueue::Loop: nTotal and nIdle count the threads they are meant to.
THEOREM CountsCorrect == Spec => []CountsExact
<1>1. IInv => CountsExact
  BY DEF IInv, Counted, CountsExact, Waiting, Looping
<1> QED BY <1>1, Invariance, PTL
=============================================================================
