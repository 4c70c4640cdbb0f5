------------------------- MODULE PipeEventLoopProofs -------------------------
(***************************************************************************)
(* Proofs about PipeEventLoop: its inductive invariant, the safety         *)
(* properties that follow from it, and that the worker implements          *)
(* TaskExecutor, for any tasks, any number of callers and any capacity of  *)
(* the pipe.                                                               *)
(***************************************************************************)
EXTENDS PipeEventLoop, SequenceLemmas, TLAPS

-----------------------------------------------------------------------------
(* Types *)

\* A null pointer or a forgotten argument never reaches work_queue: the type
\* invariant needs that a caller inside submitWork carries a task.
TypeInv == TypeOK /\ CallersCarryTasks

\* The types are kept by every step.
LEMMA TypeStep == TypeInv /\ [Next]_vars => TypeInv'
<1> SUFFICES ASSUME TypeInv, [Next]_vars
             PROVE  TypeInv'
  OBVIOUS
<1> USE PipeCapacityAssumption, NoTaskAssumption
<1>0. TypeInv /\ [Next]_vars
  OBVIOUS
<1>1. ASSUME NEW c \in Callers, NEW t \in Tasks, SubmitWork(c, t)
      PROVE  TypeInv'
  BY <1>1, <1>0 DEF TypeInv, TypeOK, CallersCarryTasks, LoopStates, CallStates, SubmitWork, loopVars, callVars
<1>2. ASSUME NEW c \in Callers, SubmitLock(c)
      PROVE  TypeInv'
  BY <1>2, <1>0 DEF TypeInv, TypeOK, CallersCarryTasks, LoopStates, CallStates, SubmitLock, loopVars, callVars
<1>3. ASSUME NEW c \in Callers, SubmitPush(c)
      PROVE  TypeInv'
  BY <1>3, <1>0, AppendProperties DEF TypeInv, TypeOK, CallersCarryTasks, LoopStates, CallStates, SubmitPush, loopVars, callVars
<1>4. ASSUME NEW c \in Callers, SubmitNotify(c)
      PROVE  TypeInv'
  BY <1>4, <1>0 DEF TypeInv, TypeOK, CallersCarryTasks, LoopStates, CallStates, SubmitNotify, PipeAfterWrite, loopVars, callVars
<1>5. ASSUME RunStart
      PROVE  TypeInv'
  BY <1>5, <1>0 DEF TypeInv, TypeOK, CallersCarryTasks, LoopStates, CallStates, RunStart, LoopOnly, loopVars, callVars
<1>6. ASSUME LoopCheck
      PROVE  TypeInv'
  BY <1>6, <1>0 DEF TypeInv, TypeOK, CallersCarryTasks, LoopStates, CallStates, LoopCheck, LoopOnly, loopVars, callVars
<1>7. ASSUME LoopWake
      PROVE  TypeInv'
  BY <1>7, <1>0 DEF TypeInv, TypeOK, CallersCarryTasks, LoopStates, CallStates, LoopWake, LoopOnly, loopVars, callVars
<1>8. ASSUME DrainByte
      PROVE  TypeInv'
  BY <1>8, <1>0 DEF TypeInv, TypeOK, CallersCarryTasks, LoopStates, CallStates, DrainByte, LoopOnly, loopVars, callVars
<1>9. ASSUME DrainEmpty
      PROVE  TypeInv'
  BY <1>9, <1>0 DEF TypeInv, TypeOK, CallersCarryTasks, LoopStates, CallStates, DrainEmpty, LoopOnly, loopVars, callVars
<1>10. ASSUME LockQueue
      PROVE  TypeInv'
  BY <1>10, <1>0 DEF TypeInv, TypeOK, CallersCarryTasks, LoopStates, CallStates, Callers, LockQueue, LoopOnly, loopVars, callVars
<1>11. ASSUME TakeItem
      PROVE  TypeInv'
  BY <1>11, <1>0, AppendProperties, HeadTailProperties DEF TypeInv, TypeOK, CallersCarryTasks, LoopStates, CallStates, TakeItem, LoopOnly, loopVars, callVars
<1>12. ASSUME UnlockQueue
      PROVE  TypeInv'
  BY <1>12, <1>0 DEF TypeInv, TypeOK, CallersCarryTasks, LoopStates, CallStates, UnlockQueue, LoopOnly, loopVars, callVars
<1>13. ASSUME RunItem
      PROVE  TypeInv'
  BY <1>13, <1>0, AppendProperties, HeadTailProperties DEF TypeInv, TypeOK, CallersCarryTasks, LoopStates, CallStates, RunItem, LoopOnly, loopVars, callVars
<1>14. ASSUME CallbackReturns
      PROVE  TypeInv'
  BY <1>14, <1>0 DEF TypeInv, TypeOK, CallersCarryTasks, LoopStates, CallStates, CallbackReturns, LoopOnly, loopVars, callVars
<1>15. ASSUME Stop
      PROVE  TypeInv'
  BY <1>15, <1>0 DEF TypeInv, TypeOK, CallersCarryTasks, LoopStates, CallStates, Stop, loopVars, callVars
<1>16. ASSUME Destroy
      PROVE  TypeInv'
  BY <1>16, <1>0 DEF TypeInv, TypeOK, CallersCarryTasks, LoopStates, CallStates, Destroy, loopVars, callVars
<1>17. ASSUME UNCHANGED vars
      PROVE  TypeInv'
  BY <1>0, <1>17 DEF TypeInv, TypeOK, CallersCarryTasks, LoopStates, CallStates, vars, loopVars, callVars
<1> QED
  BY <1>0, <1>1, <1>2, <1>3, <1>4, <1>5, <1>6, <1>7, <1>8, <1>9, <1>10, <1>11, <1>12, <1>13, <1>14, <1>15, <1>16, <1>17
  DEF Next, Submit, Loop

-----------------------------------------------------------------------------
(* One step of each part of the invariant *)

\* The loop thread enters submitWork from a task and leaves it before the task
\* returns.
LEMMA InTaskStep ==
  TypeInv /\ LoopThreadInTask /\ [Next]_vars => LoopThreadInTask'
<1> SUFFICES ASSUME TypeInv, LoopThreadInTask, [Next]_vars
             PROVE  LoopThreadInTask'
  OBVIOUS
<1> USE LoopThreadAssumption
<1>0. TypeInv /\ LoopThreadInTask /\ [Next]_vars
  OBVIOUS
<1>1. ASSUME NEW c \in Callers, NEW t \in Tasks, SubmitWork(c, t)
      PROVE  LoopThreadInTask'
  BY <1>1, <1>0 DEF TypeInv, TypeOK, CallStates, LoopStates, Callers, LoopThreadInTask, SubmitWork, MayCall, loopVars, callVars
<1>2. ASSUME NEW c \in Callers, SubmitLock(c)
      PROVE  LoopThreadInTask'
  BY <1>2, <1>0 DEF TypeInv, TypeOK, CallStates, LoopStates, Callers, LoopThreadInTask, SubmitLock, loopVars, callVars
<1>3. ASSUME NEW c \in Callers, SubmitPush(c)
      PROVE  LoopThreadInTask'
  BY <1>3, <1>0 DEF TypeInv, TypeOK, CallStates, LoopStates, Callers, LoopThreadInTask, SubmitPush, loopVars, callVars
<1>4. ASSUME NEW c \in Callers, SubmitNotify(c)
      PROVE  LoopThreadInTask'
  BY <1>4, <1>0 DEF TypeInv, TypeOK, CallStates, LoopStates, Callers, LoopThreadInTask, SubmitNotify, loopVars, callVars
<1>5. ASSUME RunStart
      PROVE  LoopThreadInTask'
  BY <1>5, <1>0 DEF TypeInv, TypeOK, CallStates, LoopStates, Callers, LoopThreadInTask, RunStart, LoopOnly, loopVars, callVars
<1>6. ASSUME LoopCheck
      PROVE  LoopThreadInTask'
  BY <1>6, <1>0 DEF TypeInv, TypeOK, CallStates, LoopStates, Callers, LoopThreadInTask, LoopCheck, LoopOnly, loopVars, callVars
<1>7. ASSUME LoopWake
      PROVE  LoopThreadInTask'
  BY <1>7, <1>0 DEF TypeInv, TypeOK, CallStates, LoopStates, Callers, LoopThreadInTask, LoopWake, LoopOnly, loopVars, callVars
<1>8. ASSUME DrainByte
      PROVE  LoopThreadInTask'
  BY <1>8, <1>0 DEF TypeInv, TypeOK, CallStates, LoopStates, Callers, LoopThreadInTask, DrainByte, LoopOnly, loopVars, callVars
<1>9. ASSUME DrainEmpty
      PROVE  LoopThreadInTask'
  BY <1>9, <1>0 DEF TypeInv, TypeOK, CallStates, LoopStates, Callers, LoopThreadInTask, DrainEmpty, LoopOnly, loopVars, callVars
<1>10. ASSUME LockQueue
      PROVE  LoopThreadInTask'
  BY <1>10, <1>0 DEF TypeInv, TypeOK, CallStates, LoopStates, Callers, LoopThreadInTask, LockQueue, LoopOnly, loopVars, callVars
<1>11. ASSUME TakeItem
      PROVE  LoopThreadInTask'
  BY <1>11, <1>0, AppendProperties, HeadTailProperties DEF TypeInv, TypeOK, CallStates, LoopStates, Callers, LoopThreadInTask, TakeItem, LoopOnly, loopVars, callVars
<1>12. ASSUME UnlockQueue
      PROVE  LoopThreadInTask'
  BY <1>12, <1>0 DEF TypeInv, TypeOK, CallStates, LoopStates, Callers, LoopThreadInTask, UnlockQueue, LoopOnly, loopVars, callVars
<1>13. ASSUME RunItem
      PROVE  LoopThreadInTask'
  BY <1>13, <1>0 DEF TypeInv, TypeOK, CallStates, LoopStates, Callers, LoopThreadInTask, RunItem, LoopOnly, loopVars, callVars
<1>14. ASSUME CallbackReturns
      PROVE  LoopThreadInTask'
  BY <1>14, <1>0 DEF TypeInv, TypeOK, CallStates, LoopStates, Callers, LoopThreadInTask, CallbackReturns, LoopOnly, loopVars, callVars
<1>15. ASSUME Stop
      PROVE  LoopThreadInTask'
  BY <1>15, <1>0 DEF TypeInv, TypeOK, CallStates, LoopStates, Callers, LoopThreadInTask, Stop, loopVars, callVars
<1>16. ASSUME Destroy
      PROVE  LoopThreadInTask'
  BY <1>16, <1>0 DEF TypeInv, TypeOK, CallStates, LoopStates, Callers, LoopThreadInTask, Destroy, loopVars, callVars
<1>17. ASSUME UNCHANGED vars
      PROVE  LoopThreadInTask'
  BY <1>0, <1>17 DEF TypeInv, TypeOK, CallStates, LoopStates, Callers, LoopThreadInTask, vars, loopVars, callVars
<1> QED
  BY <1>0, <1>1, <1>2, <1>3, <1>4, <1>5, <1>6, <1>7, <1>8, <1>9, <1>10, <1>11, <1>12, <1>13, <1>14, <1>15, <1>16, <1>17
  DEF Next, Submit, Loop

\* stop() records itself with the flag.
LEMMA BreakStep ==
  TypeInv /\ BreakMeansStopped /\ [Next]_vars => BreakMeansStopped'
<1> SUFFICES ASSUME TypeInv, BreakMeansStopped, [Next]_vars
             PROVE  BreakMeansStopped'
  OBVIOUS
<1>0. TypeInv /\ BreakMeansStopped /\ [Next]_vars
  OBVIOUS
<1>1. ASSUME NEW c \in Callers, NEW t \in Tasks, SubmitWork(c, t)
      PROVE  BreakMeansStopped'
  BY <1>1, <1>0 DEF TypeInv, TypeOK, CallStates, LoopStates, Callers, BreakMeansStopped, SubmitWork, loopVars, callVars
<1>2. ASSUME NEW c \in Callers, SubmitLock(c)
      PROVE  BreakMeansStopped'
  BY <1>2, <1>0 DEF TypeInv, TypeOK, CallStates, LoopStates, Callers, BreakMeansStopped, SubmitLock, loopVars, callVars
<1>3. ASSUME NEW c \in Callers, SubmitPush(c)
      PROVE  BreakMeansStopped'
  BY <1>3, <1>0 DEF TypeInv, TypeOK, CallStates, LoopStates, Callers, BreakMeansStopped, SubmitPush, loopVars, callVars
<1>4. ASSUME NEW c \in Callers, SubmitNotify(c)
      PROVE  BreakMeansStopped'
  BY <1>4, <1>0 DEF TypeInv, TypeOK, CallStates, LoopStates, Callers, BreakMeansStopped, SubmitNotify, loopVars, callVars
<1>5. ASSUME RunStart
      PROVE  BreakMeansStopped'
  BY <1>5, <1>0 DEF TypeInv, TypeOK, CallStates, LoopStates, Callers, BreakMeansStopped, RunStart, LoopOnly, loopVars, callVars
<1>6. ASSUME LoopCheck
      PROVE  BreakMeansStopped'
  BY <1>6, <1>0 DEF TypeInv, TypeOK, CallStates, LoopStates, Callers, BreakMeansStopped, LoopCheck, LoopOnly, loopVars, callVars
<1>7. ASSUME LoopWake
      PROVE  BreakMeansStopped'
  BY <1>7, <1>0 DEF TypeInv, TypeOK, CallStates, LoopStates, Callers, BreakMeansStopped, LoopWake, LoopOnly, loopVars, callVars
<1>8. ASSUME DrainByte
      PROVE  BreakMeansStopped'
  BY <1>8, <1>0 DEF TypeInv, TypeOK, CallStates, LoopStates, Callers, BreakMeansStopped, DrainByte, LoopOnly, loopVars, callVars
<1>9. ASSUME DrainEmpty
      PROVE  BreakMeansStopped'
  BY <1>9, <1>0 DEF TypeInv, TypeOK, CallStates, LoopStates, Callers, BreakMeansStopped, DrainEmpty, LoopOnly, loopVars, callVars
<1>10. ASSUME LockQueue
      PROVE  BreakMeansStopped'
  BY <1>10, <1>0 DEF TypeInv, TypeOK, CallStates, LoopStates, Callers, BreakMeansStopped, LockQueue, LoopOnly, loopVars, callVars
<1>11. ASSUME TakeItem
      PROVE  BreakMeansStopped'
  BY <1>11, <1>0 DEF TypeInv, TypeOK, CallStates, LoopStates, Callers, BreakMeansStopped, TakeItem, LoopOnly, loopVars, callVars
<1>12. ASSUME UnlockQueue
      PROVE  BreakMeansStopped'
  BY <1>12, <1>0 DEF TypeInv, TypeOK, CallStates, LoopStates, Callers, BreakMeansStopped, UnlockQueue, LoopOnly, loopVars, callVars
<1>13. ASSUME RunItem
      PROVE  BreakMeansStopped'
  BY <1>13, <1>0 DEF TypeInv, TypeOK, CallStates, LoopStates, Callers, BreakMeansStopped, RunItem, LoopOnly, loopVars, callVars
<1>14. ASSUME CallbackReturns
      PROVE  BreakMeansStopped'
  BY <1>14, <1>0 DEF TypeInv, TypeOK, CallStates, LoopStates, Callers, BreakMeansStopped, CallbackReturns, LoopOnly, loopVars, callVars
<1>15. ASSUME Stop
      PROVE  BreakMeansStopped'
  BY <1>15, <1>0 DEF TypeInv, TypeOK, CallStates, LoopStates, Callers, BreakMeansStopped, Stop, loopVars, callVars
<1>16. ASSUME Destroy
      PROVE  BreakMeansStopped'
  BY <1>16, <1>0 DEF TypeInv, TypeOK, CallStates, LoopStates, Callers, BreakMeansStopped, Destroy, loopVars, callVars
<1>17. ASSUME UNCHANGED vars
      PROVE  BreakMeansStopped'
  BY <1>0, <1>17 DEF TypeInv, TypeOK, CallStates, LoopStates, Callers, BreakMeansStopped, vars, loopVars, callVars
<1> QED
  BY <1>0, <1>1, <1>2, <1>3, <1>4, <1>5, <1>6, <1>7, <1>8, <1>9, <1>10, <1>11, <1>12, <1>13, <1>14, <1>15, <1>16, <1>17
  DEF Next, Submit, Loop

\* The destructor finds and leaves every thread outside the worker.
LEMMA QuietStep ==
  TypeInv /\ DestroyedIsQuiet /\ [Next]_vars => DestroyedIsQuiet'
<1> SUFFICES ASSUME TypeInv, DestroyedIsQuiet, [Next]_vars
             PROVE  DestroyedIsQuiet'
  OBVIOUS
<1>0. TypeInv /\ DestroyedIsQuiet /\ [Next]_vars
  OBVIOUS
<1>1. ASSUME NEW c \in Callers, NEW t \in Tasks, SubmitWork(c, t)
      PROVE  DestroyedIsQuiet'
  BY <1>1, <1>0 DEF TypeInv, TypeOK, CallStates, LoopStates, Callers, DestroyedIsQuiet, SubmitWork, loopVars, callVars
<1>2. ASSUME NEW c \in Callers, SubmitLock(c)
      PROVE  DestroyedIsQuiet'
  BY <1>2, <1>0 DEF TypeInv, TypeOK, CallStates, LoopStates, Callers, DestroyedIsQuiet, SubmitLock, loopVars, callVars
<1>3. ASSUME NEW c \in Callers, SubmitPush(c)
      PROVE  DestroyedIsQuiet'
  BY <1>3, <1>0 DEF TypeInv, TypeOK, CallStates, LoopStates, Callers, DestroyedIsQuiet, SubmitPush, loopVars, callVars
<1>4. ASSUME NEW c \in Callers, SubmitNotify(c)
      PROVE  DestroyedIsQuiet'
  BY <1>4, <1>0 DEF TypeInv, TypeOK, CallStates, LoopStates, Callers, DestroyedIsQuiet, SubmitNotify, PipeAfterWrite, loopVars, callVars
<1>5. ASSUME RunStart
      PROVE  DestroyedIsQuiet'
  BY <1>5, <1>0 DEF TypeInv, TypeOK, CallStates, LoopStates, Callers, DestroyedIsQuiet, RunStart, LoopOnly, loopVars, callVars
<1>6. ASSUME LoopCheck
      PROVE  DestroyedIsQuiet'
  BY <1>6, <1>0 DEF TypeInv, TypeOK, CallStates, LoopStates, Callers, DestroyedIsQuiet, LoopCheck, LoopOnly, loopVars, callVars
<1>7. ASSUME LoopWake
      PROVE  DestroyedIsQuiet'
  BY <1>7, <1>0 DEF TypeInv, TypeOK, CallStates, LoopStates, Callers, DestroyedIsQuiet, LoopWake, LoopOnly, loopVars, callVars
<1>8. ASSUME DrainByte
      PROVE  DestroyedIsQuiet'
  BY <1>8, <1>0 DEF TypeInv, TypeOK, CallStates, LoopStates, Callers, DestroyedIsQuiet, DrainByte, LoopOnly, loopVars, callVars
<1>9. ASSUME DrainEmpty
      PROVE  DestroyedIsQuiet'
  BY <1>9, <1>0 DEF TypeInv, TypeOK, CallStates, LoopStates, Callers, DestroyedIsQuiet, DrainEmpty, LoopOnly, loopVars, callVars
<1>10. ASSUME LockQueue
      PROVE  DestroyedIsQuiet'
  BY <1>10, <1>0 DEF TypeInv, TypeOK, CallStates, LoopStates, Callers, DestroyedIsQuiet, LockQueue, LoopOnly, loopVars, callVars
<1>11. ASSUME TakeItem
      PROVE  DestroyedIsQuiet'
  BY <1>11, <1>0 DEF TypeInv, TypeOK, CallStates, LoopStates, Callers, DestroyedIsQuiet, TakeItem, LoopOnly, loopVars, callVars
<1>12. ASSUME UnlockQueue
      PROVE  DestroyedIsQuiet'
  BY <1>12, <1>0 DEF TypeInv, TypeOK, CallStates, LoopStates, Callers, DestroyedIsQuiet, UnlockQueue, LoopOnly, loopVars, callVars
<1>13. ASSUME RunItem
      PROVE  DestroyedIsQuiet'
  BY <1>13, <1>0 DEF TypeInv, TypeOK, CallStates, LoopStates, Callers, DestroyedIsQuiet, RunItem, LoopOnly, loopVars, callVars
<1>14. ASSUME CallbackReturns
      PROVE  DestroyedIsQuiet'
  BY <1>14, <1>0 DEF TypeInv, TypeOK, CallStates, LoopStates, Callers, DestroyedIsQuiet, CallbackReturns, LoopOnly, loopVars, callVars
<1>15. ASSUME Stop
      PROVE  DestroyedIsQuiet'
  BY <1>15, <1>0 DEF TypeInv, TypeOK, CallStates, LoopStates, Callers, DestroyedIsQuiet, Stop, loopVars, callVars
<1>16. ASSUME Destroy
      PROVE  DestroyedIsQuiet'
  BY <1>16, <1>0 DEF TypeInv, TypeOK, CallStates, LoopStates, Callers, DestroyedIsQuiet, Destroy, loopVars, callVars
<1>17. ASSUME UNCHANGED vars
      PROVE  DestroyedIsQuiet'
  BY <1>0, <1>17 DEF TypeInv, TypeOK, CallStates, LoopStates, Callers, DestroyedIsQuiet, vars, loopVars, callVars
<1> QED
  BY <1>0, <1>1, <1>2, <1>3, <1>4, <1>5, <1>6, <1>7, <1>8, <1>9, <1>10, <1>11, <1>12, <1>13, <1>14, <1>15, <1>16, <1>17
  DEF Next, Submit, Loop

\* A push leaves its caller in front of the write, and the pipe is emptied
\* before the queue is.
LEMMA WakeupStep ==
  TypeInv /\ DestroyedIsQuiet /\ NoLostWakeup /\ [Next]_vars => NoLostWakeup'
<1> SUFFICES ASSUME TypeInv, DestroyedIsQuiet, NoLostWakeup, [Next]_vars
             PROVE  NoLostWakeup'
  OBVIOUS
<1> USE PipeCapacityAssumption
<1>0. TypeInv /\ DestroyedIsQuiet /\ NoLostWakeup /\ [Next]_vars
  OBVIOUS
<1>1. ASSUME NEW c \in Callers, NEW t \in Tasks, SubmitWork(c, t)
      PROVE  NoLostWakeup'
  BY <1>1, <1>0 DEF TypeInv, TypeOK, CallStates, LoopStates, Callers, DestroyedIsQuiet, NoLostWakeup, SubmitWork, loopVars, callVars
<1>2. ASSUME NEW c \in Callers, SubmitLock(c)
      PROVE  NoLostWakeup'
  BY <1>2, <1>0 DEF TypeInv, TypeOK, CallStates, LoopStates, Callers, DestroyedIsQuiet, NoLostWakeup, SubmitLock, loopVars, callVars
<1>3. ASSUME NEW c \in Callers, SubmitPush(c)
      PROVE  NoLostWakeup'
  BY <1>3, <1>0 DEF TypeInv, TypeOK, CallStates, LoopStates, Callers, DestroyedIsQuiet, NoLostWakeup, SubmitPush, loopVars, callVars
<1>4. ASSUME NEW c \in Callers, SubmitNotify(c)
      PROVE  NoLostWakeup'
  BY <1>4, <1>0 DEF TypeInv, TypeOK, CallStates, LoopStates, Callers, DestroyedIsQuiet, NoLostWakeup, SubmitNotify, PipeAfterWrite, loopVars, callVars
<1>5. ASSUME RunStart
      PROVE  NoLostWakeup'
  BY <1>5, <1>0 DEF TypeInv, TypeOK, CallStates, LoopStates, Callers, DestroyedIsQuiet, NoLostWakeup, RunStart, LoopOnly, loopVars, callVars
<1>6. ASSUME LoopCheck
      PROVE  NoLostWakeup'
  BY <1>6, <1>0 DEF TypeInv, TypeOK, CallStates, LoopStates, Callers, DestroyedIsQuiet, NoLostWakeup, LoopCheck, LoopOnly, loopVars, callVars
<1>7. ASSUME LoopWake
      PROVE  NoLostWakeup'
  BY <1>7, <1>0 DEF TypeInv, TypeOK, CallStates, LoopStates, Callers, DestroyedIsQuiet, NoLostWakeup, LoopWake, LoopOnly, loopVars, callVars
<1>8. ASSUME DrainByte
      PROVE  NoLostWakeup'
  BY <1>8, <1>0 DEF TypeInv, TypeOK, CallStates, LoopStates, Callers, DestroyedIsQuiet, NoLostWakeup, DrainByte, LoopOnly, loopVars, callVars
<1>9. ASSUME DrainEmpty
      PROVE  NoLostWakeup'
  BY <1>9, <1>0 DEF TypeInv, TypeOK, CallStates, LoopStates, Callers, DestroyedIsQuiet, NoLostWakeup, DrainEmpty, LoopOnly, loopVars, callVars
<1>10. ASSUME LockQueue
      PROVE  NoLostWakeup'
  BY <1>10, <1>0 DEF TypeInv, TypeOK, CallStates, LoopStates, Callers, DestroyedIsQuiet, NoLostWakeup, LockQueue, LoopOnly, loopVars, callVars
<1>11. ASSUME TakeItem
      PROVE  NoLostWakeup'
  BY <1>11, <1>0 DEF TypeInv, TypeOK, CallStates, LoopStates, Callers, DestroyedIsQuiet, NoLostWakeup, TakeItem, LoopOnly, loopVars, callVars
<1>12. ASSUME UnlockQueue
      PROVE  NoLostWakeup'
  BY <1>12, <1>0 DEF TypeInv, TypeOK, CallStates, LoopStates, Callers, DestroyedIsQuiet, NoLostWakeup, UnlockQueue, LoopOnly, loopVars, callVars
<1>13. ASSUME RunItem
      PROVE  NoLostWakeup'
  BY <1>13, <1>0 DEF TypeInv, TypeOK, CallStates, LoopStates, Callers, DestroyedIsQuiet, NoLostWakeup, RunItem, LoopOnly, loopVars, callVars
<1>14. ASSUME CallbackReturns
      PROVE  NoLostWakeup'
  BY <1>14, <1>0 DEF TypeInv, TypeOK, CallStates, LoopStates, Callers, DestroyedIsQuiet, NoLostWakeup, CallbackReturns, LoopOnly, loopVars, callVars
<1>15. ASSUME Stop
      PROVE  NoLostWakeup'
  BY <1>15, <1>0 DEF TypeInv, TypeOK, CallStates, LoopStates, Callers, DestroyedIsQuiet, NoLostWakeup, Stop, loopVars, callVars
<1>16. ASSUME Destroy
      PROVE  NoLostWakeup'
  BY <1>16, <1>0 DEF TypeInv, TypeOK, CallStates, LoopStates, Callers, DestroyedIsQuiet, NoLostWakeup, Destroy, loopVars, callVars
<1>17. ASSUME UNCHANGED vars
      PROVE  NoLostWakeup'
  BY <1>0, <1>17 DEF TypeInv, TypeOK, CallStates, LoopStates, Callers, DestroyedIsQuiet, NoLostWakeup, vars, loopVars, callVars
<1> QED
  BY <1>0, <1>1, <1>2, <1>3, <1>4, <1>5, <1>6, <1>7, <1>8, <1>9, <1>10, <1>11, <1>12, <1>13, <1>14, <1>15, <1>16, <1>17
  DEF Next, Submit, Loop

\* The mutex has one owner, which is where it may be.
LEMMA MutexStep ==
  TypeInv /\ LoopThreadInTask /\ MutexDiscipline /\ [Next]_vars => MutexDiscipline'
<1> SUFFICES ASSUME TypeInv, LoopThreadInTask, MutexDiscipline, [Next]_vars
             PROVE  MutexDiscipline'
  OBVIOUS
<1> USE LoopThreadAssumption, NoThreadAssumption
<1>0. TypeInv /\ LoopThreadInTask /\ MutexDiscipline /\ [Next]_vars
  OBVIOUS
<1>1. ASSUME NEW c \in Callers, NEW t \in Tasks, SubmitWork(c, t)
      PROVE  MutexDiscipline'
  BY <1>1, <1>0 DEF TypeInv, TypeOK, CallStates, LoopStates, Callers, LoopThreadInTask, MutexDiscipline, SubmitWork, loopVars, callVars
<1>2. ASSUME NEW c \in Callers, SubmitLock(c)
      PROVE  MutexDiscipline'
  BY <1>2, <1>0 DEF TypeInv, TypeOK, CallStates, LoopStates, Callers, LoopThreadInTask, MutexDiscipline, SubmitLock, loopVars, callVars
<1>3. ASSUME NEW c \in Callers, SubmitPush(c)
      PROVE  MutexDiscipline'
  BY <1>3, <1>0 DEF TypeInv, TypeOK, CallStates, LoopStates, Callers, LoopThreadInTask, MutexDiscipline, SubmitPush, loopVars, callVars
<1>4. ASSUME NEW c \in Callers, SubmitNotify(c)
      PROVE  MutexDiscipline'
  BY <1>4, <1>0 DEF TypeInv, TypeOK, CallStates, LoopStates, Callers, LoopThreadInTask, MutexDiscipline, SubmitNotify, loopVars, callVars
<1>5. ASSUME RunStart
      PROVE  MutexDiscipline'
  BY <1>5, <1>0 DEF TypeInv, TypeOK, CallStates, LoopStates, Callers, LoopThreadInTask, MutexDiscipline, RunStart, LoopOnly, loopVars, callVars
<1>6. ASSUME LoopCheck
      PROVE  MutexDiscipline'
  BY <1>6, <1>0 DEF TypeInv, TypeOK, CallStates, LoopStates, Callers, LoopThreadInTask, MutexDiscipline, LoopCheck, LoopOnly, loopVars, callVars
<1>7. ASSUME LoopWake
      PROVE  MutexDiscipline'
  BY <1>7, <1>0 DEF TypeInv, TypeOK, CallStates, LoopStates, Callers, LoopThreadInTask, MutexDiscipline, LoopWake, LoopOnly, loopVars, callVars
<1>8. ASSUME DrainByte
      PROVE  MutexDiscipline'
  BY <1>8, <1>0 DEF TypeInv, TypeOK, CallStates, LoopStates, Callers, LoopThreadInTask, MutexDiscipline, DrainByte, LoopOnly, loopVars, callVars
<1>9. ASSUME DrainEmpty
      PROVE  MutexDiscipline'
  BY <1>9, <1>0 DEF TypeInv, TypeOK, CallStates, LoopStates, Callers, LoopThreadInTask, MutexDiscipline, DrainEmpty, LoopOnly, loopVars, callVars
<1>10. ASSUME LockQueue
      PROVE  MutexDiscipline'
  BY <1>10, <1>0 DEF TypeInv, TypeOK, CallStates, LoopStates, Callers, LoopThreadInTask, MutexDiscipline, LockQueue, LoopOnly, loopVars, callVars
<1>11. ASSUME TakeItem
      PROVE  MutexDiscipline'
  BY <1>11, <1>0 DEF TypeInv, TypeOK, CallStates, LoopStates, Callers, LoopThreadInTask, MutexDiscipline, TakeItem, LoopOnly, loopVars, callVars
<1>12. ASSUME UnlockQueue
      PROVE  MutexDiscipline'
  BY <1>12, <1>0 DEF TypeInv, TypeOK, CallStates, LoopStates, Callers, LoopThreadInTask, MutexDiscipline, UnlockQueue, LoopOnly, loopVars, callVars
<1>13. ASSUME RunItem
      PROVE  MutexDiscipline'
  BY <1>13, <1>0 DEF TypeInv, TypeOK, CallStates, LoopStates, Callers, LoopThreadInTask, MutexDiscipline, RunItem, LoopOnly, loopVars, callVars
<1>14. ASSUME CallbackReturns
      PROVE  MutexDiscipline'
  BY <1>14, <1>0 DEF TypeInv, TypeOK, CallStates, LoopStates, Callers, LoopThreadInTask, MutexDiscipline, CallbackReturns, LoopOnly, loopVars, callVars
<1>15. ASSUME Stop
      PROVE  MutexDiscipline'
  BY <1>15, <1>0 DEF TypeInv, TypeOK, CallStates, LoopStates, Callers, LoopThreadInTask, MutexDiscipline, Stop, loopVars, callVars
<1>16. ASSUME Destroy
      PROVE  MutexDiscipline'
  BY <1>16, <1>0 DEF TypeInv, TypeOK, CallStates, LoopStates, Callers, LoopThreadInTask, MutexDiscipline, Destroy, loopVars, callVars
<1>17. ASSUME UNCHANGED vars
      PROVE  MutexDiscipline'
  BY <1>0, <1>17 DEF TypeInv, TypeOK, CallStates, LoopStates, Callers, LoopThreadInTask, MutexDiscipline, vars, loopVars, callVars
<1> QED
  BY <1>0, <1>1, <1>2, <1>3, <1>4, <1>5, <1>6, <1>7, <1>8, <1>9, <1>10, <1>11, <1>12, <1>13, <1>14, <1>15, <1>16, <1>17
  DEF Next, Submit, Loop

\* The local vector is filled in take and emptied in run.
LEMMA BatchStep ==
  TypeInv /\ BatchCompleted /\ [Next]_vars => BatchCompleted'
<1> SUFFICES ASSUME TypeInv, BatchCompleted, [Next]_vars
             PROVE  BatchCompleted'
  OBVIOUS
<1>0. TypeInv /\ BatchCompleted /\ [Next]_vars
  OBVIOUS
<1>1. ASSUME NEW c \in Callers, NEW t \in Tasks, SubmitWork(c, t)
      PROVE  BatchCompleted'
  BY <1>1, <1>0 DEF TypeInv, TypeOK, CallStates, LoopStates, Callers, BatchCompleted, SubmitWork, loopVars, callVars
<1>2. ASSUME NEW c \in Callers, SubmitLock(c)
      PROVE  BatchCompleted'
  BY <1>2, <1>0 DEF TypeInv, TypeOK, CallStates, LoopStates, Callers, BatchCompleted, SubmitLock, loopVars, callVars
<1>3. ASSUME NEW c \in Callers, SubmitPush(c)
      PROVE  BatchCompleted'
  BY <1>3, <1>0 DEF TypeInv, TypeOK, CallStates, LoopStates, Callers, BatchCompleted, SubmitPush, loopVars, callVars
<1>4. ASSUME NEW c \in Callers, SubmitNotify(c)
      PROVE  BatchCompleted'
  BY <1>4, <1>0 DEF TypeInv, TypeOK, CallStates, LoopStates, Callers, BatchCompleted, SubmitNotify, loopVars, callVars
<1>5. ASSUME RunStart
      PROVE  BatchCompleted'
  BY <1>5, <1>0 DEF TypeInv, TypeOK, CallStates, LoopStates, Callers, BatchCompleted, RunStart, LoopOnly, loopVars, callVars
<1>6. ASSUME LoopCheck
      PROVE  BatchCompleted'
  BY <1>6, <1>0 DEF TypeInv, TypeOK, CallStates, LoopStates, Callers, BatchCompleted, LoopCheck, LoopOnly, loopVars, callVars
<1>7. ASSUME LoopWake
      PROVE  BatchCompleted'
  BY <1>7, <1>0 DEF TypeInv, TypeOK, CallStates, LoopStates, Callers, BatchCompleted, LoopWake, LoopOnly, loopVars, callVars
<1>8. ASSUME DrainByte
      PROVE  BatchCompleted'
  BY <1>8, <1>0 DEF TypeInv, TypeOK, CallStates, LoopStates, Callers, BatchCompleted, DrainByte, LoopOnly, loopVars, callVars
<1>9. ASSUME DrainEmpty
      PROVE  BatchCompleted'
  BY <1>9, <1>0 DEF TypeInv, TypeOK, CallStates, LoopStates, Callers, BatchCompleted, DrainEmpty, LoopOnly, loopVars, callVars
<1>10. ASSUME LockQueue
      PROVE  BatchCompleted'
  BY <1>10, <1>0 DEF TypeInv, TypeOK, CallStates, LoopStates, Callers, BatchCompleted, LockQueue, LoopOnly, loopVars, callVars
<1>11. ASSUME TakeItem
      PROVE  BatchCompleted'
  BY <1>11, <1>0 DEF TypeInv, TypeOK, CallStates, LoopStates, Callers, BatchCompleted, TakeItem, LoopOnly, loopVars, callVars
<1>12. ASSUME UnlockQueue
      PROVE  BatchCompleted'
  BY <1>12, <1>0 DEF TypeInv, TypeOK, CallStates, LoopStates, Callers, BatchCompleted, UnlockQueue, LoopOnly, loopVars, callVars
<1>13. ASSUME RunItem
      PROVE  BatchCompleted'
  BY <1>13, <1>0 DEF TypeInv, TypeOK, CallStates, LoopStates, Callers, BatchCompleted, RunItem, LoopOnly, loopVars, callVars
<1>14. ASSUME CallbackReturns
      PROVE  BatchCompleted'
  BY <1>14, <1>0 DEF TypeInv, TypeOK, CallStates, LoopStates, Callers, BatchCompleted, CallbackReturns, LoopOnly, loopVars, callVars
<1>15. ASSUME Stop
      PROVE  BatchCompleted'
  BY <1>15, <1>0 DEF TypeInv, TypeOK, CallStates, LoopStates, Callers, BatchCompleted, Stop, loopVars, callVars
<1>16. ASSUME Destroy
      PROVE  BatchCompleted'
  BY <1>16, <1>0 DEF TypeInv, TypeOK, CallStates, LoopStates, Callers, BatchCompleted, Destroy, loopVars, callVars
<1>17. ASSUME UNCHANGED vars
      PROVE  BatchCompleted'
  BY <1>0, <1>17 DEF TypeInv, TypeOK, CallStates, LoopStates, Callers, BatchCompleted, vars, loopVars, callVars
<1> QED
  BY <1>0, <1>1, <1>2, <1>3, <1>4, <1>5, <1>6, <1>7, <1>8, <1>9, <1>10, <1>11, <1>12, <1>13, <1>14, <1>15, <1>16, <1>17
  DEF Next, Submit, Loop

\* The loop ends by the flag, and the flag is stop().
LEMMA ReturnStep ==
  TypeInv /\ BreakMeansStopped /\ ReturnsOnlyAfterStop /\ [Next]_vars => ReturnsOnlyAfterStop'
<1> SUFFICES ASSUME TypeInv, BreakMeansStopped, ReturnsOnlyAfterStop, [Next]_vars
             PROVE  ReturnsOnlyAfterStop'
  OBVIOUS
<1>0. TypeInv /\ BreakMeansStopped /\ ReturnsOnlyAfterStop /\ [Next]_vars
  OBVIOUS
<1>1. ASSUME NEW c \in Callers, NEW t \in Tasks, SubmitWork(c, t)
      PROVE  ReturnsOnlyAfterStop'
  BY <1>1, <1>0 DEF TypeInv, TypeOK, CallStates, LoopStates, Callers, BreakMeansStopped, ReturnsOnlyAfterStop, SubmitWork, loopVars, callVars
<1>2. ASSUME NEW c \in Callers, SubmitLock(c)
      PROVE  ReturnsOnlyAfterStop'
  BY <1>2, <1>0 DEF TypeInv, TypeOK, CallStates, LoopStates, Callers, BreakMeansStopped, ReturnsOnlyAfterStop, SubmitLock, loopVars, callVars
<1>3. ASSUME NEW c \in Callers, SubmitPush(c)
      PROVE  ReturnsOnlyAfterStop'
  BY <1>3, <1>0 DEF TypeInv, TypeOK, CallStates, LoopStates, Callers, BreakMeansStopped, ReturnsOnlyAfterStop, SubmitPush, loopVars, callVars
<1>4. ASSUME NEW c \in Callers, SubmitNotify(c)
      PROVE  ReturnsOnlyAfterStop'
  BY <1>4, <1>0 DEF TypeInv, TypeOK, CallStates, LoopStates, Callers, BreakMeansStopped, ReturnsOnlyAfterStop, SubmitNotify, loopVars, callVars
<1>5. ASSUME RunStart
      PROVE  ReturnsOnlyAfterStop'
  BY <1>5, <1>0 DEF TypeInv, TypeOK, CallStates, LoopStates, Callers, BreakMeansStopped, ReturnsOnlyAfterStop, RunStart, LoopOnly, loopVars, callVars
<1>6. ASSUME LoopCheck
      PROVE  ReturnsOnlyAfterStop'
  BY <1>6, <1>0 DEF TypeInv, TypeOK, CallStates, LoopStates, Callers, BreakMeansStopped, ReturnsOnlyAfterStop, LoopCheck, LoopOnly, loopVars, callVars
<1>7. ASSUME LoopWake
      PROVE  ReturnsOnlyAfterStop'
  BY <1>7, <1>0 DEF TypeInv, TypeOK, CallStates, LoopStates, Callers, BreakMeansStopped, ReturnsOnlyAfterStop, LoopWake, LoopOnly, loopVars, callVars
<1>8. ASSUME DrainByte
      PROVE  ReturnsOnlyAfterStop'
  BY <1>8, <1>0 DEF TypeInv, TypeOK, CallStates, LoopStates, Callers, BreakMeansStopped, ReturnsOnlyAfterStop, DrainByte, LoopOnly, loopVars, callVars
<1>9. ASSUME DrainEmpty
      PROVE  ReturnsOnlyAfterStop'
  BY <1>9, <1>0 DEF TypeInv, TypeOK, CallStates, LoopStates, Callers, BreakMeansStopped, ReturnsOnlyAfterStop, DrainEmpty, LoopOnly, loopVars, callVars
<1>10. ASSUME LockQueue
      PROVE  ReturnsOnlyAfterStop'
  BY <1>10, <1>0 DEF TypeInv, TypeOK, CallStates, LoopStates, Callers, BreakMeansStopped, ReturnsOnlyAfterStop, LockQueue, LoopOnly, loopVars, callVars
<1>11. ASSUME TakeItem
      PROVE  ReturnsOnlyAfterStop'
  BY <1>11, <1>0 DEF TypeInv, TypeOK, CallStates, LoopStates, Callers, BreakMeansStopped, ReturnsOnlyAfterStop, TakeItem, LoopOnly, loopVars, callVars
<1>12. ASSUME UnlockQueue
      PROVE  ReturnsOnlyAfterStop'
  BY <1>12, <1>0 DEF TypeInv, TypeOK, CallStates, LoopStates, Callers, BreakMeansStopped, ReturnsOnlyAfterStop, UnlockQueue, LoopOnly, loopVars, callVars
<1>13. ASSUME RunItem
      PROVE  ReturnsOnlyAfterStop'
  BY <1>13, <1>0 DEF TypeInv, TypeOK, CallStates, LoopStates, Callers, BreakMeansStopped, ReturnsOnlyAfterStop, RunItem, LoopOnly, loopVars, callVars
<1>14. ASSUME CallbackReturns
      PROVE  ReturnsOnlyAfterStop'
  BY <1>14, <1>0 DEF TypeInv, TypeOK, CallStates, LoopStates, Callers, BreakMeansStopped, ReturnsOnlyAfterStop, CallbackReturns, LoopOnly, loopVars, callVars
<1>15. ASSUME Stop
      PROVE  ReturnsOnlyAfterStop'
  BY <1>15, <1>0 DEF TypeInv, TypeOK, CallStates, LoopStates, Callers, BreakMeansStopped, ReturnsOnlyAfterStop, Stop, loopVars, callVars
<1>16. ASSUME Destroy
      PROVE  ReturnsOnlyAfterStop'
  BY <1>16, <1>0 DEF TypeInv, TypeOK, CallStates, LoopStates, Callers, BreakMeansStopped, ReturnsOnlyAfterStop, Destroy, loopVars, callVars
<1>17. ASSUME UNCHANGED vars
      PROVE  ReturnsOnlyAfterStop'
  BY <1>0, <1>17 DEF TypeInv, TypeOK, CallStates, LoopStates, Callers, BreakMeansStopped, ReturnsOnlyAfterStop, vars, loopVars, callVars
<1> QED
  BY <1>0, <1>1, <1>2, <1>3, <1>4, <1>5, <1>6, <1>7, <1>8, <1>9, <1>10, <1>11, <1>12, <1>13, <1>14, <1>15, <1>16, <1>17
  DEF Next, Submit, Loop

\* The three places are one sequence: a push appends to its end, the callback
\* moves the heads of its parts forward.
LEMMA FifoStep ==
  TypeInv /\ FifoExactlyOnce /\ [Next]_vars => FifoExactlyOnce'
<1> SUFFICES ASSUME TypeInv, FifoExactlyOnce, [Next]_vars
             PROVE  FifoExactlyOnce'
  OBVIOUS
<1>0. TypeInv /\ FifoExactlyOnce /\ [Next]_vars
  OBVIOUS
<1>1. ASSUME NEW c \in Callers, NEW t \in Tasks, SubmitWork(c, t)
      PROVE  FifoExactlyOnce'
  BY <1>1, <1>0 DEF TypeInv, TypeOK, CallersCarryTasks, FifoExactlyOnce, Pending, SubmitWork, loopVars, callVars
<1>2. ASSUME NEW c \in Callers, SubmitLock(c)
      PROVE  FifoExactlyOnce'
  BY <1>2, <1>0 DEF TypeInv, TypeOK, CallersCarryTasks, FifoExactlyOnce, Pending, SubmitLock, loopVars, callVars
<1>3. ASSUME NEW c \in Callers, SubmitPush(c)
      PROVE  FifoExactlyOnce'
  <2>1. /\ Pending \in Seq(Tasks) /\ executed \in Seq(Tasks)
        /\ arg[c] \in Tasks
    BY <1>0, <1>3, ConcatProperties
    DEF TypeInv, TypeOK, CallersCarryTasks, CallStates, SubmitPush, Pending
  <2>2. Pending' = Append(Pending, arg[c])
    BY <1>0, <1>3, <2>1, AppendBehind
    DEF TypeInv, TypeOK, SubmitPush, Pending, loopVars
  <2>3. executed' \o Pending' = Append(executed \o Pending, arg[c])
    BY <1>3, <2>1, <2>2, AppendBehind DEF SubmitPush
  <2> QED
    BY <1>0, <1>3, <2>3 DEF FifoExactlyOnce, SubmitPush
<1>4. ASSUME NEW c \in Callers, SubmitNotify(c)
      PROVE  FifoExactlyOnce'
  BY <1>4, <1>0 DEF TypeInv, TypeOK, CallersCarryTasks, FifoExactlyOnce, Pending, SubmitNotify, loopVars, callVars
<1>5. ASSUME RunStart
      PROVE  FifoExactlyOnce'
  BY <1>5, <1>0 DEF TypeInv, TypeOK, CallersCarryTasks, FifoExactlyOnce, Pending, RunStart, LoopOnly, loopVars, callVars
<1>6. ASSUME LoopCheck
      PROVE  FifoExactlyOnce'
  BY <1>6, <1>0 DEF TypeInv, TypeOK, CallersCarryTasks, FifoExactlyOnce, Pending, LoopCheck, LoopOnly, loopVars, callVars
<1>7. ASSUME LoopWake
      PROVE  FifoExactlyOnce'
  BY <1>7, <1>0 DEF TypeInv, TypeOK, CallersCarryTasks, FifoExactlyOnce, Pending, LoopWake, LoopOnly, loopVars, callVars
<1>8. ASSUME DrainByte
      PROVE  FifoExactlyOnce'
  BY <1>8, <1>0 DEF TypeInv, TypeOK, CallersCarryTasks, FifoExactlyOnce, Pending, DrainByte, LoopOnly, loopVars, callVars
<1>9. ASSUME DrainEmpty
      PROVE  FifoExactlyOnce'
  BY <1>9, <1>0 DEF TypeInv, TypeOK, CallersCarryTasks, FifoExactlyOnce, Pending, DrainEmpty, LoopOnly, loopVars, callVars
<1>10. ASSUME LockQueue
      PROVE  FifoExactlyOnce'
  BY <1>10, <1>0 DEF TypeInv, TypeOK, CallersCarryTasks, FifoExactlyOnce, Pending, LockQueue, LoopOnly, loopVars, callVars
<1>11. ASSUME TakeItem
      PROVE  FifoExactlyOnce'
  <2>1. Pending' = Pending
    BY SMTT(30), <1>0, <1>11, MoveHead DEF TypeInv, TypeOK, TakeItem, Pending
  <2> QED
    BY <1>0, <1>11, <2>1 DEF FifoExactlyOnce, TakeItem, LoopOnly
<1>12. ASSUME UnlockQueue
      PROVE  FifoExactlyOnce'
  BY <1>12, <1>0 DEF TypeInv, TypeOK, CallersCarryTasks, FifoExactlyOnce, Pending, UnlockQueue, LoopOnly, loopVars, callVars
<1>13. ASSUME RunItem
      PROVE  FifoExactlyOnce'
  <2>1. Pending \in Seq(Tasks) /\ executed \in Seq(Tasks)
    BY <1>0, ConcatProperties DEF TypeInv, TypeOK, Pending
  <2>2. /\ Pending # <<>>
        /\ Pending' = Tail(Pending)
        /\ executed' = Append(executed, Head(Pending))
    BY <1>0, <1>13, HeadOfWhole DEF TypeInv, TypeOK, RunItem, Pending
  <2>3. executed' \o Pending' = executed \o Pending
    BY <2>1, <2>2, MoveHead
  <2> QED
    BY <1>0, <1>13, <2>3 DEF FifoExactlyOnce, RunItem, LoopOnly
<1>14. ASSUME CallbackReturns
      PROVE  FifoExactlyOnce'
  BY <1>14, <1>0 DEF TypeInv, TypeOK, CallersCarryTasks, FifoExactlyOnce, Pending, CallbackReturns, LoopOnly, loopVars, callVars
<1>15. ASSUME Stop
      PROVE  FifoExactlyOnce'
  BY <1>15, <1>0 DEF TypeInv, TypeOK, CallersCarryTasks, FifoExactlyOnce, Pending, Stop, loopVars, callVars
<1>16. ASSUME Destroy
      PROVE  FifoExactlyOnce'
  BY <1>16, <1>0 DEF TypeInv, TypeOK, CallersCarryTasks, FifoExactlyOnce, Pending, Destroy, loopVars, callVars
<1>17. ASSUME UNCHANGED vars
      PROVE  FifoExactlyOnce'
  BY <1>0, <1>17 DEF TypeInv, TypeOK, CallersCarryTasks, FifoExactlyOnce, Pending, vars, loopVars, callVars
<1> QED
  BY <1>0, <1>1, <1>2, <1>3, <1>4, <1>5, <1>6, <1>7, <1>8, <1>9, <1>10, <1>11, <1>12, <1>13, <1>14, <1>15, <1>16, <1>17
  DEF Next, Submit, Loop

-----------------------------------------------------------------------------
(* The invariant *)

\* The invariant holds when the constructor has run.
LEMMA InitIInv == Init => IInv
<1> SUFFICES ASSUME Init PROVE IInv
  OBVIOUS
<1>1. TypeOK
  <2>1. <<>> \in Seq(Tasks) /\ 0 \in 0 .. PipeCapacity
    BY PipeCapacityAssumption, EmptySeq
  <2>2. pc \in [Callers -> CallStates]
    BY DEF Init, CallStates
  <2>3. arg \in [Callers -> Tasks \cup {NoTask}]
    BY DEF Init
  <2> QED
    BY <2>1, <2>2, <2>3 DEF Init, TypeOK, LoopStates
<1>2. FifoExactlyOnce
  BY ConcatEmptySeq, EmptySeq DEF Init, FifoExactlyOnce, Pending
<1>3. /\ CallersCarryTasks /\ LoopThreadInTask /\ BreakMeansStopped
      /\ DestroyedIsQuiet /\ NoLostWakeup /\ BatchCompleted
      /\ ReturnsOnlyAfterStop
  BY DEF Init, CallersCarryTasks, LoopThreadInTask, BreakMeansStopped,
         DestroyedIsQuiet, NoLostWakeup, BatchCompleted,
         ReturnsOnlyAfterStop, Callers
<1>4. MutexDiscipline
  BY NoThreadAssumption DEF Init, MutexDiscipline, Callers
<1> QED
  BY <1>1, <1>2, <1>3, <1>4 DEF IInv

\* Every step of every thread preserves it.
LEMMA NextIInv == IInv /\ [Next]_vars => IInv'
  BY TypeStep, InTaskStep, BreakStep, QuietStep, WakeupStep, FifoStep,
     MutexStep, BatchStep, ReturnStep
  DEF IInv, TypeInv

\* Type correctness and all the safety properties, in one inductive
\* invariant of EventLoopWorker, whatever the tasks, the callers and the
\* capacity of the pipe.
THEOREM SpecIInv == Spec => []IInv
  BY InitIInv, NextIInv, PTL DEF Spec

\* The types of the worker's fields, for every value of the constants.
THEOREM SpecTypeOK == Spec => []TypeOK
<1>1. IInv => TypeOK
  BY DEF IInv
<1> QED
  BY <1>1, SpecIInv, PTL

\* No wake-up of the loop is ever lost between submitWork and notify_cb,
\* even when the pipe is full and whatever the interleaving.
THEOREM SpecNoLostWakeup == Spec => []NoLostWakeup
<1>1. IInv => NoLostWakeup
  BY DEF IInv
<1> QED
  BY <1>1, SpecIInv, PTL

\* Tasks are run in the order of the pushes, none twice and none skipped.
THEOREM SpecFifoExactlyOnce == Spec => []FifoExactlyOnce
<1>1. IInv => FifoExactlyOnce
  BY DEF IInv
<1> QED
  BY <1>1, SpecIInv, PTL

\* work_queue is touched by the owner of queue_mutex only, and tasks run with
\* the mutex released.
THEOREM SpecMutexDiscipline == Spec => []MutexDiscipline
<1>1. IInv => MutexDiscipline
  BY DEF IInv
<1> QED
  BY <1>1, SpecIInv, PTL

\* A loop that is still blocked when the worker is destroyed stays blocked.
THEOREM SpecNoCallbackAfterDestroy == Spec => NoCallbackAfterDestroy
<1>1. IInv /\ [Next]_vars =>
        [destroyed => loop' \notin {"drain", "lock", "take", "run"}]_vars
  <2> SUFFICES ASSUME IInv, Next, destroyed
               PROVE  loop' \notin {"drain", "lock", "take", "run"}
    BY DEF IInv
  <2>1. loop \in {"wait", "returned"} /\ notify_pipe = 0
    BY DEF IInv, DestroyedIsQuiet
  <2>2. ASSUME NEW c \in Callers, Submit(c) PROVE loop' = loop
    BY <2>2 DEF Submit, SubmitWork, SubmitLock, SubmitPush, SubmitNotify,
                loopVars
  <2>3. ASSUME Loop PROVE loop' \in {"wait", "returned"}
    BY <2>1, <2>3
    DEF Loop, RunStart, LoopCheck, LoopWake, DrainByte, DrainEmpty, LockQueue,
        TakeItem, UnlockQueue, RunItem, CallbackReturns
  <2>4. ASSUME Stop \/ Destroy PROVE loop' = loop
    BY <2>4 DEF Stop, Destroy, loopVars
  <2> QED
    BY <2>1, <2>2, <2>3, <2>4 DEF Next
<1> QED
  BY <1>1, SpecIInv, PTL DEF Spec, NoCallbackAfterDestroy

-----------------------------------------------------------------------------
(* Refinement of TaskExecutor *)

\* A fresh worker is a fresh executor.
LEMMA RefineInit == Init => Executor!Init
  BY ConcatEmptySeq, EmptySeq DEF Init, Executor!Init, Pending

\* The push is the moment a task is accepted, the end of its call the moment
\* it is executed; everything else is invisible to the executor.
LEMMA RefineNext == IInv /\ [Next]_vars => [Executor!Next]_(Executor!vars)
<1> SUFFICES ASSUME IInv, [Next]_vars
             PROVE  [Executor!Next]_(Executor!vars)
  OBVIOUS
<1>0. TypeOK /\ CallersCarryTasks /\ DestroyedIsQuiet /\ BatchCompleted
  BY DEF IInv
<1>1. ASSUME NEW c \in Callers, SubmitPush(c)
      PROVE  Executor!Accept(arg[c]) /\ arg[c] \in Tasks
  <2>1. arg[c] \in Tasks /\ ~destroyed
    BY <1>0, <1>1
    DEF SubmitPush, CallersCarryTasks, DestroyedIsQuiet
  <2>2. Pending' = Append(Pending, arg[c])
    BY <1>0, <1>1, <2>1, AppendBehind DEF SubmitPush, TypeOK, loopVars, Pending
  <2> QED
    BY <1>1, <2>1, <2>2 DEF SubmitPush, Executor!Accept
<1>2. ASSUME RunItem
      PROVE  Executor!Execute
  <2>1. ~destroyed
    BY <1>0, <1>2 DEF RunItem, DestroyedIsQuiet
  <2>2. Pending # <<>> /\ Head(Pending) = Head(items)
        /\ Tail(Pending) = Tail(items) \o work_queue
    BY <1>0, <1>2, HeadOfWhole DEF RunItem, TypeOK, Pending
  <2> QED
    BY <1>2, <2>1, <2>2 DEF RunItem, LoopOnly, Executor!Execute, Pending
<1>3. ASSUME Destroy
      PROVE  Executor!ShutDown
  <2>1. items = <<>> /\ items' = <<>> /\ work_queue' = <<>>
    BY <1>0, <1>3 DEF Destroy, BatchCompleted, loopVars
  <2>2. Pending' = <<>>
    BY <2>1, ConcatEmptySeq, EmptySeq DEF Pending
  <2> QED
    BY <1>3, <2>2 DEF Destroy, Executor!ShutDown
<1>4. ASSUME TakeItem
      PROVE  UNCHANGED Executor!vars
  <2>1. Pending' = Pending
    BY <1>0, <1>4, MoveHead DEF TakeItem, TypeOK, Pending
  <2> QED
    BY <1>4, <2>1 DEF TakeItem, LoopOnly, Executor!vars, Pending
<1>5. ASSUME NEW c \in Callers, NEW t \in Tasks,
             SubmitWork(c, t) \/ SubmitLock(c) \/ SubmitNotify(c)
      PROVE  UNCHANGED Executor!vars
  BY <1>5 DEF SubmitWork, SubmitLock, SubmitNotify, loopVars, Executor!vars, Pending
<1>6. ASSUME NEW c \in Callers, SubmitLock(c) \/ SubmitNotify(c)
      PROVE  UNCHANGED Executor!vars
  BY <1>6 DEF SubmitLock, SubmitNotify, loopVars, Executor!vars, Pending
<1>7. ASSUME \/ RunStart \/ LoopCheck \/ LoopWake \/ DrainByte \/ DrainEmpty
             \/ LockQueue \/ UnlockQueue \/ CallbackReturns
      PROVE  UNCHANGED Executor!vars
  BY <1>7
  DEF RunStart, LoopCheck, LoopWake, DrainByte, DrainEmpty, LockQueue,
      UnlockQueue, CallbackReturns, LoopOnly, loopVars, Executor!vars, Pending
<1>8. ASSUME Stop \/ UNCHANGED vars
      PROVE  UNCHANGED Executor!vars
  BY <1>8 DEF Stop, vars, loopVars, Executor!vars, Pending
<1> QED
  BY <1>1, <1>2, <1>3, <1>4, <1>5, <1>6, <1>7, <1>8
  DEF Next, Submit, Loop, Executor!Next

\* EventLoopWorker implements the abstract executor: it runs what it accepts
\* in order, at most once, until it is destroyed.
THEOREM ImplementsExecutor == Spec => ExecutorSpec
<1>1. IInv /\ [Next]_vars => [Executor!Next]_(Executor!vars)
  BY RefineNext
<1> QED
  BY <1>1, RefineInit, SpecIInv, PTL DEF Spec, ExecutorSpec, Executor!Spec

=============================================================================
