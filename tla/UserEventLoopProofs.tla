------------------------- MODULE UserEventLoopProofs -------------------------
(***************************************************************************)
(* Proofs about UserEventLoop: its inductive invariant, the safety         *)
(* properties that follow from it, and that the worker implements          *)
(* TaskExecutor even where its activations race, for any tasks and any     *)
(* number of callers.                                                      *)
(***************************************************************************)
EXTENDS UserEventLoop, SequenceLemmas, TLAPS

-----------------------------------------------------------------------------
(* Types *)

\* What every step lemma starts from: the types, and that a caller inside
\* submitWork carries a task, without which a moved closure would be queued.
TypeInv == TypeOK /\ CallersCarryTasks

\* A pass without an active event ends the loop or, behind a race, keeps it.
LEMMA EmptyPassOutcomes ==
  ASSUME damage \in Damages
  PROVE  EmptyPass \in {"check", "waiting", "returned"}
<1>1. CASE "event_count_active" \in damage
  BY <1>1 DEF EmptyPass, Damages
<1>2. CASE "event_count_active" \notin damage /\ "event_count" \in damage
  BY <1>2 DEF EmptyPass, Damages
<1>3. CASE "event_count_active" \notin damage /\ "event_count" \notin damage
  <2>1. damage \subseteq {"uncounted"}
    BY <1>3 DEF Damages
  <2> QED
    BY <1>3, <2>1 DEF EmptyPass
<1> QED
  BY <1>1, <1>2, <1>3

\* The types are preserved: the loop thread calls submitWork from a task only
\* and the task does not end before the call does.
LEMMA TypeStep ==
  TypeInv /\ [Next]_vars => TypeInv'
<1> SUFFICES ASSUME TypeInv, [Next]_vars
             PROVE  TypeInv'
  OBVIOUS
<1> USE NoTaskAssumption DEF TypeInv, TypeOK, CallersCarryTasks, queueVars, callVars, historyVars
<1>1. ASSUME NEW c \in Callers, NEW t \in Tasks, SubmitWork(c, t) PROVE TypeInv'
  BY <1>1 DEF SubmitWork, MayCall
<1>2. ASSUME NEW c \in Callers, SubmitLock(c) PROVE TypeInv'
  BY <1>2 DEF SubmitLock
<1>3. ASSUME NEW c \in Callers, SubmitPush(c) PROVE TypeInv'
  BY <1>3, AppendProperties DEF SubmitPush
<1>4. ASSUME NEW c \in Callers, SubmitTrigger(c) PROVE TypeInv'
  <2>1. active' \in BOOLEAN /\ damage' \in Damages /\ loop' \in {loop, "crashed"}
    BY <1>4 DEF SubmitTrigger, ActiveAfterTrigger, LoopAfterTrigger,
         DamageAfterTrigger, Races
  <2> QED
    BY <1>4, <2>1 DEF SubmitTrigger
<1>5. ASSUME RunStart PROVE TypeInv'
  BY <1>5 DEF RunStart, LoopOnly
<1>6. ASSUME LoopCheck PROVE TypeInv'
  <2>1. loop' \in {"check", "waiting", "returned", "fire"}
    BY <1>6, EmptyPassOutcomes DEF LoopCheck
  <2> QED
    BY <1>6, <2>1 DEF LoopCheck, LoopOnly
<1>7. ASSUME Fire PROVE TypeInv'
  BY <1>7 DEF Fire, LoopOnly
<1>8. ASSUME LockQueue PROVE TypeInv'
  BY <1>8 DEF LockQueue, LoopOnly, Callers
<1>9. ASSUME TakeItem PROVE TypeInv'
  BY <1>9, AppendProperties, HeadTailProperties DEF TakeItem, LoopOnly
<1>10. ASSUME UnlockQueue PROVE TypeInv'
  BY <1>10 DEF UnlockQueue, LoopOnly
<1>11. ASSUME RunItem PROVE TypeInv'
  BY <1>11, AppendProperties, HeadTailProperties DEF RunItem, LoopOnly
<1>12. ASSUME CallbackReturns PROVE TypeInv'
  BY <1>12 DEF CallbackReturns, LoopOnly
<1>13. ASSUME Stop PROVE TypeInv'
  BY <1>13 DEF Stop
<1>14. ASSUME Destroy PROVE TypeInv'
  BY <1>14, EmptySeq DEF Destroy, MayDestroy
<1>15. ASSUME UNCHANGED vars PROVE TypeInv'
  BY <1>15 DEF vars
<1> QED
  BY <1>1, <1>2, <1>3, <1>4, <1>5, <1>6, <1>7, <1>8, <1>9, <1>10, <1>11,
     <1>12, <1>13, <1>14, <1>15
  DEF Next, Submit, Loop

-----------------------------------------------------------------------------
(* One step of each part of the invariant *)

\* Nothing gets a base that the constructor did not make.
LEMMA BaselessStep ==
  TypeInv /\ BaselessIsInert /\ [Next]_vars => BaselessIsInert'
<1> SUFFICES ASSUME TypeInv, BaselessIsInert, [Next]_vars
             PROVE  BaselessIsInert'
  OBVIOUS
<1> USE DEF TypeInv, TypeOK, BaselessIsInert, queueVars, callVars, historyVars
<1>1. ASSUME NEW c \in Callers, NEW t \in Tasks, SubmitWork(c, t) PROVE BaselessIsInert'
  BY <1>1 DEF SubmitWork, MayCall
<1>2. ASSUME NEW c \in Callers, SubmitLock(c) PROVE BaselessIsInert'
  BY <1>2 DEF SubmitLock
<1>3. ASSUME NEW c \in Callers, SubmitPush(c) PROVE BaselessIsInert'
  BY <1>3 DEF SubmitPush
<1>4. ASSUME NEW c \in Callers, SubmitTrigger(c) PROVE BaselessIsInert'
  BY <1>4 DEF SubmitTrigger, ActiveAfterTrigger, LoopAfterTrigger,
         DamageAfterTrigger, Races
<1>5. ASSUME RunStart PROVE BaselessIsInert'
  BY <1>5 DEF RunStart, LoopOnly
<1>6. ASSUME LoopCheck PROVE BaselessIsInert'
  BY <1>6 DEF LoopCheck, EmptyPass, LoopOnly
<1>7. ASSUME Fire PROVE BaselessIsInert'
  BY <1>7 DEF Fire, LoopOnly
<1>8. ASSUME LockQueue PROVE BaselessIsInert'
  BY <1>8 DEF LockQueue, LoopOnly
<1>9. ASSUME TakeItem PROVE BaselessIsInert'
  BY <1>9 DEF TakeItem, LoopOnly
<1>10. ASSUME UnlockQueue PROVE BaselessIsInert'
  BY <1>10 DEF UnlockQueue, LoopOnly
<1>11. ASSUME RunItem PROVE BaselessIsInert'
  BY <1>11 DEF RunItem, LoopOnly
<1>12. ASSUME CallbackReturns PROVE BaselessIsInert'
  BY <1>12 DEF CallbackReturns, LoopOnly
<1>13. ASSUME Stop PROVE BaselessIsInert'
  BY <1>13 DEF Stop
<1>14. ASSUME Destroy PROVE BaselessIsInert'
  BY <1>14 DEF Destroy, MayDestroy
<1>15. ASSUME UNCHANGED vars PROVE BaselessIsInert'
  BY <1>15 DEF vars
<1> QED
  BY <1>1, <1>2, <1>3, <1>4, <1>5, <1>6, <1>7, <1>8, <1>9, <1>10, <1>11,
     <1>12, <1>13, <1>14, <1>15
  DEF Next, Submit, Loop

\* The break flag stems from stop(), a batch from processWork, and the end of
\* the process from a race or a missing base.
LEMMA LoopStep ==
  TypeInv /\ LoopDisciplined /\ [Next]_vars => LoopDisciplined'
<1> SUFFICES ASSUME TypeInv, LoopDisciplined, [Next]_vars
             PROVE  LoopDisciplined'
  OBVIOUS
<1> USE DEF TypeInv, TypeOK, CallersCarryTasks, LoopDisciplined, queueVars, callVars, historyVars
<1>1. ASSUME NEW c \in Callers, NEW t \in Tasks, SubmitWork(c, t) PROVE LoopDisciplined'
  BY <1>1 DEF SubmitWork, MayCall
<1>2. ASSUME NEW c \in Callers, SubmitLock(c) PROVE LoopDisciplined'
  BY <1>2 DEF SubmitLock
<1>3. ASSUME NEW c \in Callers, SubmitPush(c) PROVE LoopDisciplined'
  BY <1>3 DEF SubmitPush
<1>4. ASSUME NEW c \in Callers, SubmitTrigger(c) PROVE LoopDisciplined'
  BY <1>4 DEF SubmitTrigger, ActiveAfterTrigger, LoopAfterTrigger,
         DamageAfterTrigger, Races
<1>5. ASSUME RunStart PROVE LoopDisciplined'
  BY <1>5 DEF RunStart, LoopOnly
<1>6. ASSUME LoopCheck PROVE LoopDisciplined'
  BY <1>6 DEF LoopCheck, EmptyPass, LoopOnly
<1>7. ASSUME Fire PROVE LoopDisciplined'
  BY <1>7 DEF Fire, LoopOnly
<1>8. ASSUME LockQueue PROVE LoopDisciplined'
  BY <1>8 DEF LockQueue, LoopOnly
<1>9. ASSUME TakeItem PROVE LoopDisciplined'
  BY <1>9 DEF TakeItem, LoopOnly
<1>10. ASSUME UnlockQueue PROVE LoopDisciplined'
  BY <1>10 DEF UnlockQueue, LoopOnly
<1>11. ASSUME RunItem PROVE LoopDisciplined'
  BY <1>11 DEF RunItem, LoopOnly
<1>12. ASSUME CallbackReturns PROVE LoopDisciplined'
  BY <1>12 DEF CallbackReturns, LoopOnly
<1>13. ASSUME Stop PROVE LoopDisciplined'
  BY <1>13 DEF Stop
<1>14. ASSUME Destroy PROVE LoopDisciplined'
  BY <1>14 DEF Destroy, MayDestroy
<1>15. ASSUME UNCHANGED vars PROVE LoopDisciplined'
  BY <1>15 DEF vars
<1> QED
  BY <1>1, <1>2, <1>3, <1>4, <1>5, <1>6, <1>7, <1>8, <1>9, <1>10, <1>11,
     <1>12, <1>13, <1>14, <1>15
  DEF Next, Submit, Loop

\* A worker is destroyed behind its loop and its callers, and nothing wakes it.
LEMMA QuietStep ==
  TypeInv /\ LoopDisciplined /\ DestroyedIsQuiet /\ DestroyedAfterLoop /\ [Next]_vars => (DestroyedIsQuiet /\ DestroyedAfterLoop)'
<1> SUFFICES ASSUME TypeInv, LoopDisciplined, DestroyedIsQuiet, DestroyedAfterLoop, [Next]_vars
             PROVE  (DestroyedIsQuiet /\ DestroyedAfterLoop)'
  OBVIOUS
<1> USE DEF TypeInv, TypeOK, CallersCarryTasks, LoopDisciplined,
        DestroyedIsQuiet, DestroyedAfterLoop, Callers, queueVars, callVars, historyVars
<1>1. ASSUME NEW c \in Callers, NEW t \in Tasks, SubmitWork(c, t) PROVE (DestroyedIsQuiet /\ DestroyedAfterLoop)'
  BY <1>1 DEF SubmitWork, MayCall
<1>2. ASSUME NEW c \in Callers, SubmitLock(c) PROVE (DestroyedIsQuiet /\ DestroyedAfterLoop)'
  BY <1>2 DEF SubmitLock
<1>3. ASSUME NEW c \in Callers, SubmitPush(c) PROVE (DestroyedIsQuiet /\ DestroyedAfterLoop)'
  BY <1>3 DEF SubmitPush
<1>4. ASSUME NEW c \in Callers, SubmitTrigger(c) PROVE (DestroyedIsQuiet /\ DestroyedAfterLoop)'
  BY <1>4 DEF SubmitTrigger, ActiveAfterTrigger, LoopAfterTrigger,
         DamageAfterTrigger, Races
<1>5. ASSUME RunStart PROVE (DestroyedIsQuiet /\ DestroyedAfterLoop)'
  BY <1>5 DEF RunStart, LoopOnly
<1>6. ASSUME LoopCheck PROVE (DestroyedIsQuiet /\ DestroyedAfterLoop)'
  BY <1>6 DEF LoopCheck, EmptyPass, LoopOnly
<1>7. ASSUME Fire PROVE (DestroyedIsQuiet /\ DestroyedAfterLoop)'
  BY <1>7 DEF Fire, LoopOnly
<1>8. ASSUME LockQueue PROVE (DestroyedIsQuiet /\ DestroyedAfterLoop)'
  BY <1>8 DEF LockQueue, LoopOnly
<1>9. ASSUME TakeItem PROVE (DestroyedIsQuiet /\ DestroyedAfterLoop)'
  BY <1>9 DEF TakeItem, LoopOnly
<1>10. ASSUME UnlockQueue PROVE (DestroyedIsQuiet /\ DestroyedAfterLoop)'
  BY <1>10 DEF UnlockQueue, LoopOnly
<1>11. ASSUME RunItem PROVE (DestroyedIsQuiet /\ DestroyedAfterLoop)'
  BY <1>11 DEF RunItem, LoopOnly
<1>12. ASSUME CallbackReturns PROVE (DestroyedIsQuiet /\ DestroyedAfterLoop)'
  BY <1>12 DEF CallbackReturns, LoopOnly
<1>13. ASSUME Stop PROVE (DestroyedIsQuiet /\ DestroyedAfterLoop)'
  BY <1>13 DEF Stop
<1>14. ASSUME Destroy PROVE (DestroyedIsQuiet /\ DestroyedAfterLoop)'
  BY <1>14 DEF Destroy, MayDestroy
<1>15. ASSUME UNCHANGED vars PROVE (DestroyedIsQuiet /\ DestroyedAfterLoop)'
  BY <1>15 DEF vars
<1> QED
  BY <1>1, <1>2, <1>3, <1>4, <1>5, <1>6, <1>7, <1>8, <1>9, <1>10, <1>11,
     <1>12, <1>13, <1>14, <1>15
  DEF Next, Submit, Loop

\* A queued task stays announced: the pusher goes on to activate the event, and
\* the callback that resets it goes on to take the queue.
LEMMA ActivationStep ==
  TypeInv /\ LoopDisciplined /\ NoLostActivation /\ [Next]_vars => NoLostActivation'
<1> SUFFICES ASSUME TypeInv, LoopDisciplined, NoLostActivation, [Next]_vars
             PROVE  NoLostActivation'
  OBVIOUS
<1> USE DEF TypeInv, TypeOK, NoLostActivation, queueVars, callVars, historyVars
<1>1. ASSUME NEW c \in Callers, NEW t \in Tasks, SubmitWork(c, t) PROVE NoLostActivation'
  BY <1>1 DEF SubmitWork, MayCall
<1>2. ASSUME NEW c \in Callers, SubmitLock(c) PROVE NoLostActivation'
  BY <1>2 DEF SubmitLock
<1>3. ASSUME NEW c \in Callers, SubmitPush(c) PROVE NoLostActivation'
  BY <1>3 DEF SubmitPush
<1>4. ASSUME NEW c \in Callers, SubmitTrigger(c) PROVE NoLostActivation'
  <2>1. CASE has_base /\ ~raced'
    <3>1. ~raced /\ ~Races(c) /\ damage = {}
      BY <1>4, <2>1 DEF SubmitTrigger, LoopDisciplined
    <3>2. active'
      BY <1>4, <2>1, <3>1 DEF SubmitTrigger, ActiveAfterTrigger
    <3> QED
      BY <3>2
  <2>2. CASE ~(has_base /\ ~raced')
    BY <1>4, <2>2 DEF SubmitTrigger
  <2> QED
    BY <2>1, <2>2
<1>5. ASSUME RunStart PROVE NoLostActivation'
  BY <1>5 DEF RunStart, LoopOnly
<1>6. ASSUME LoopCheck PROVE NoLostActivation'
  BY <1>6 DEF LoopCheck, EmptyPass, LoopOnly
<1>7. ASSUME Fire PROVE NoLostActivation'
  BY <1>7 DEF Fire, LoopOnly
<1>8. ASSUME LockQueue PROVE NoLostActivation'
  BY <1>8 DEF LockQueue, LoopOnly
<1>9. ASSUME TakeItem PROVE NoLostActivation'
  BY <1>9 DEF TakeItem, LoopOnly
<1>10. ASSUME UnlockQueue PROVE NoLostActivation'
  BY <1>10 DEF UnlockQueue, LoopOnly
<1>11. ASSUME RunItem PROVE NoLostActivation'
  BY <1>11 DEF RunItem, LoopOnly
<1>12. ASSUME CallbackReturns PROVE NoLostActivation'
  BY <1>12 DEF CallbackReturns, LoopOnly
<1>13. ASSUME Stop PROVE NoLostActivation'
  BY <1>13 DEF Stop
<1>14. ASSUME Destroy PROVE NoLostActivation'
  BY <1>14 DEF Destroy, MayDestroy
<1>15. ASSUME UNCHANGED vars PROVE NoLostActivation'
  BY <1>15 DEF vars
<1> QED
  BY <1>1, <1>2, <1>3, <1>4, <1>5, <1>6, <1>7, <1>8, <1>9, <1>10, <1>11,
     <1>12, <1>13, <1>14, <1>15
  DEF Next, Submit, Loop

\* The mutex passes from owner to owner through its release.
LEMMA MutexStep ==
  TypeInv /\ MutexDiscipline /\ [Next]_vars => MutexDiscipline'
<1> SUFFICES ASSUME TypeInv, MutexDiscipline, [Next]_vars
             PROVE  MutexDiscipline'
  OBVIOUS
<1> USE NoThreadAssumption, LoopThreadAssumption
        DEF TypeInv, TypeOK, CallersCarryTasks, MutexDiscipline, ProcessAlive,
        Callers, queueVars, callVars, historyVars
<1>1. ASSUME NEW c \in Callers, NEW t \in Tasks, SubmitWork(c, t) PROVE MutexDiscipline'
  BY <1>1 DEF SubmitWork, MayCall
<1>2. ASSUME NEW c \in Callers, SubmitLock(c) PROVE MutexDiscipline'
  BY <1>2 DEF SubmitLock
<1>3. ASSUME NEW c \in Callers, SubmitPush(c) PROVE MutexDiscipline'
  BY <1>3 DEF SubmitPush
<1>4. ASSUME NEW c \in Callers, SubmitTrigger(c) PROVE MutexDiscipline'
  BY <1>4 DEF SubmitTrigger, ActiveAfterTrigger, LoopAfterTrigger,
         DamageAfterTrigger, Races
<1>5. ASSUME RunStart PROVE MutexDiscipline'
  BY <1>5 DEF RunStart, LoopOnly
<1>6. ASSUME LoopCheck PROVE MutexDiscipline'
  <2>1. loop' \in {"check", "waiting", "returned", "fire"}
    BY <1>6, EmptyPassOutcomes DEF LoopCheck
  <2> QED
    BY <1>6, <2>1 DEF LoopCheck, LoopOnly
<1>7. ASSUME Fire PROVE MutexDiscipline'
  BY <1>7 DEF Fire, LoopOnly
<1>8. ASSUME LockQueue PROVE MutexDiscipline'
  BY <1>8 DEF LockQueue, LoopOnly
<1>9. ASSUME TakeItem PROVE MutexDiscipline'
  BY <1>9 DEF TakeItem, LoopOnly
<1>10. ASSUME UnlockQueue PROVE MutexDiscipline'
  BY <1>10 DEF UnlockQueue, LoopOnly
<1>11. ASSUME RunItem PROVE MutexDiscipline'
  BY <1>11 DEF RunItem, LoopOnly
<1>12. ASSUME CallbackReturns PROVE MutexDiscipline'
  BY <1>12 DEF CallbackReturns, LoopOnly
<1>13. ASSUME Stop PROVE MutexDiscipline'
  BY <1>13 DEF Stop
<1>14. ASSUME Destroy PROVE MutexDiscipline'
  BY <1>14 DEF Destroy, MayDestroy
<1>15. ASSUME UNCHANGED vars PROVE MutexDiscipline'
  BY <1>15 DEF vars
<1> QED
  BY <1>1, <1>2, <1>3, <1>4, <1>5, <1>6, <1>7, <1>8, <1>9, <1>10, <1>11,
     <1>12, <1>13, <1>14, <1>15
  DEF Next, Submit, Loop

\* Run, taken and queued tasks are one sequence: a push appends to its end, the
\* callback moves the heads of its parts forward.
LEMMA FifoStep ==
  TypeInv /\ FifoExactlyOnce /\ [Next]_vars => FifoExactlyOnce'
<1> SUFFICES ASSUME TypeInv, FifoExactlyOnce, [Next]_vars
             PROVE  FifoExactlyOnce'
  OBVIOUS
<1> USE DEF TypeInv, TypeOK, CallersCarryTasks, FifoExactlyOnce, queueVars, callVars, historyVars
<1>1. ASSUME NEW c \in Callers, NEW t \in Tasks, SubmitWork(c, t) PROVE FifoExactlyOnce'
  BY <1>1 DEF SubmitWork, MayCall, Pending
<1>2. ASSUME NEW c \in Callers, SubmitLock(c) PROVE FifoExactlyOnce'
  BY <1>2 DEF SubmitLock, Pending
<1>3. ASSUME NEW c \in Callers, SubmitPush(c) PROVE FifoExactlyOnce'
  <2>1. /\ Pending \in Seq(Tasks) /\ executed \in Seq(Tasks)
        /\ arg[c] \in Tasks
    BY <1>3, ConcatProperties DEF SubmitPush, Pending
  <2>2. Pending' = Append(Pending, arg[c])
    <3>1. items \o Append(work_queue, arg[c]) = Append(Pending, arg[c])
      BY <2>1, AppendBehind DEF Pending
    <3> QED
      BY <1>3, <3>1 DEF SubmitPush, Pending
  <2>3. executed' \o Pending' = Append(executed \o Pending, arg[c])
    BY <1>3, <2>1, <2>2, AppendBehind DEF SubmitPush
  <2> QED
    BY <1>3, <2>3 DEF SubmitPush
<1>4. ASSUME NEW c \in Callers, SubmitTrigger(c) PROVE FifoExactlyOnce'
  BY <1>4 DEF SubmitTrigger, ActiveAfterTrigger, LoopAfterTrigger,
         DamageAfterTrigger, Races, Pending
<1>5. ASSUME RunStart PROVE FifoExactlyOnce'
  BY <1>5 DEF RunStart, LoopOnly, Pending
<1>6. ASSUME LoopCheck PROVE FifoExactlyOnce'
  BY <1>6 DEF LoopCheck, EmptyPass, LoopOnly, Pending
<1>7. ASSUME Fire PROVE FifoExactlyOnce'
  BY <1>7 DEF Fire, LoopOnly, Pending
<1>8. ASSUME LockQueue PROVE FifoExactlyOnce'
  BY <1>8 DEF LockQueue, LoopOnly, Pending
<1>9. ASSUME TakeItem PROVE FifoExactlyOnce'
  <2>1. Pending' = Pending
    BY <1>9, MoveHead DEF TakeItem, Pending
  <2> QED
    BY <1>9, <2>1 DEF TakeItem, LoopOnly
<1>10. ASSUME UnlockQueue PROVE FifoExactlyOnce'
  BY <1>10 DEF UnlockQueue, LoopOnly, Pending
<1>11. ASSUME RunItem PROVE FifoExactlyOnce'
  <2>1. Pending \in Seq(Tasks) /\ executed \in Seq(Tasks)
    BY ConcatProperties DEF Pending
  <2>2. /\ Pending # <<>>
        /\ Pending' = Tail(Pending)
        /\ executed' = Append(executed, Head(Pending))
    BY <1>11, HeadOfWhole DEF RunItem, Pending
  <2>3. executed' \o Pending' = executed \o Pending
    BY <2>1, <2>2, MoveHead
  <2> QED
    BY <1>11, <2>3 DEF RunItem, LoopOnly
<1>12. ASSUME CallbackReturns PROVE FifoExactlyOnce'
  BY <1>12 DEF CallbackReturns, LoopOnly, Pending
<1>13. ASSUME Stop PROVE FifoExactlyOnce'
  BY <1>13 DEF Stop, Pending
<1>14. ASSUME Destroy PROVE FifoExactlyOnce'
  BY <1>14 DEF Destroy, MayDestroy, Pending
<1>15. ASSUME UNCHANGED vars PROVE FifoExactlyOnce'
  BY <1>15 DEF vars, Pending
<1> QED
  BY <1>1, <1>2, <1>3, <1>4, <1>5, <1>6, <1>7, <1>8, <1>9, <1>10, <1>11,
     <1>12, <1>13, <1>14, <1>15
  DEF Next, Submit, Loop

-----------------------------------------------------------------------------
(* The invariant *)

\* The invariant holds when the constructor has run, with a base or without.
LEMMA InitIInv == Init => IInv
<1> SUFFICES ASSUME Init PROVE IInv
  OBVIOUS
<1>1. TypeOK
  <2>1. <<>> \in Seq(Tasks)
    BY EmptySeq
  <2>2. /\ pc \in [Callers -> {"idle", "lock", "push", "trigger"}]
        /\ arg \in [Callers -> Tasks \cup {NoTask}]
    BY DEF Init
  <2> QED
    BY <2>1, <2>2 DEF Init, TypeOK, Damages
<1>2. FifoExactlyOnce
  BY ConcatEmptySeq, EmptySeq DEF Init, FifoExactlyOnce, Pending
<1>3. /\ CallersCarryTasks /\ BaselessIsInert /\ LoopDisciplined
      /\ DestroyedIsQuiet /\ DestroyedAfterLoop /\ NoLostActivation
  BY DEF Init, CallersCarryTasks, BaselessIsInert, LoopDisciplined,
         DestroyedIsQuiet, DestroyedAfterLoop, NoLostActivation, Callers
<1>4. MutexDiscipline
  BY NoThreadAssumption DEF Init, MutexDiscipline, Callers
<1> QED
  BY <1>1, <1>2, <1>3, <1>4 DEF IInv

\* Every step of every thread preserves it.
LEMMA NextIInv == IInv /\ [Next]_vars => IInv'
  BY TypeStep, BaselessStep, LoopStep, QuietStep, ActivationStep, FifoStep,
     MutexStep
  DEF IInv, TypeInv

\* The inductive invariant of the worker woken through a user event, whatever
\* the tasks, the callers and the races on the base: it is what submitWork,
\* processWork, stop and the join of main keep together.
THEOREM SpecIInv == Spec => []IInv
  BY InitIInv, NextIInv, PTL DEF Spec

\* Without a race no activation is lost between submitWork and the callback.
THEOREM SpecNoLostActivation == Spec => []NoLostActivation
<1>1. IInv => NoLostActivation
  BY DEF IInv
<1> QED
  BY <1>1, SpecIInv, PTL

\* Tasks are run in the order of the pushes, none twice and none skipped, even
\* when activations race.
THEOREM SpecFifoExactlyOnce == Spec => []FifoExactlyOnce
<1>1. IInv => FifoExactlyOnce
  BY DEF IInv
<1> QED
  BY <1>1, SpecIInv, PTL

-----------------------------------------------------------------------------
(* Refinement of TaskExecutor *)

\* A fresh worker is a fresh executor.
LEMMA RefineInit == Init => Executor!Init
  BY ConcatEmptySeq, EmptySeq DEF Init, Executor!Init, Pending

\* The push is the moment a task is accepted, the end of its call the moment
\* it is executed, the destructor the shut-down; the executor sees nothing of
\* the event, of its races, or of the loop that returns too early.
LEMMA RefineNext == IInv /\ [Next]_vars => [Executor!Next]_(Executor!vars)
<1> SUFFICES ASSUME IInv, [Next]_vars
             PROVE  [Executor!Next]_(Executor!vars)
  OBVIOUS
<1>0. /\ TypeOK /\ CallersCarryTasks /\ DestroyedIsQuiet
      /\ DestroyedAfterLoop /\ LoopDisciplined
  BY DEF IInv
<1>1. ASSUME NEW c \in Callers, SubmitPush(c)
      PROVE  Executor!Accept(arg[c]) /\ arg[c] \in Tasks
  <2>1. arg[c] \in Tasks /\ ~destroyed
    BY <1>0, <1>1 DEF SubmitPush, CallersCarryTasks, DestroyedIsQuiet
  <2>2. Pending' = Append(Pending, arg[c])
    BY <1>0, <1>1, <2>1, AppendBehind DEF SubmitPush, TypeOK, Pending
  <2> QED
    BY <1>1, <2>1, <2>2 DEF SubmitPush, Executor!Accept
<1>2. ASSUME RunItem
      PROVE  Executor!Execute
  <2>1. ~destroyed
    BY <1>0, <1>2 DEF RunItem, DestroyedAfterLoop
  <2>2. Pending # <<>> /\ Head(Pending) = Head(items)
        /\ Tail(Pending) = Tail(items) \o work_queue
    BY <1>0, <1>2, HeadOfWhole DEF RunItem, TypeOK, Pending
  <2> QED
    BY <1>2, <2>1, <2>2 DEF RunItem, LoopOnly, Executor!Execute, Pending
<1>3. ASSUME Destroy
      PROVE  Executor!ShutDown
  <2>1. items = <<>> /\ items' = <<>> /\ work_queue' = <<>>
    BY <1>0, <1>3 DEF Destroy, MayDestroy, LoopDisciplined
  <2>2. Pending' = <<>>
    BY <2>1, ConcatEmptySeq, EmptySeq DEF Pending
  <2> QED
    BY <1>3, <2>2 DEF Destroy, MayDestroy, historyVars, Executor!ShutDown
<1>4. ASSUME TakeItem
      PROVE  UNCHANGED Executor!vars
  <2>1. Pending' = Pending
    BY <1>0, <1>4, MoveHead DEF TakeItem, TypeOK, Pending
  <2> QED
    BY <1>4, <2>1 DEF TakeItem, LoopOnly, Executor!vars, Pending
<1>5. ASSUME NEW c \in Callers, NEW t \in Tasks, SubmitWork(c, t)
      PROVE  UNCHANGED Executor!vars
  BY <1>5 DEF SubmitWork, queueVars, historyVars, Executor!vars, Pending
<1>6. ASSUME NEW c \in Callers, SubmitLock(c) \/ SubmitTrigger(c)
      PROVE  UNCHANGED Executor!vars
  BY <1>6
  DEF SubmitLock, SubmitTrigger, queueVars, historyVars, Executor!vars, Pending
<1>7. ASSUME \/ RunStart \/ LoopCheck \/ Fire \/ LockQueue \/ UnlockQueue
             \/ CallbackReturns
      PROVE  UNCHANGED Executor!vars
  BY <1>7
  DEF RunStart, LoopCheck, Fire, LockQueue, UnlockQueue, CallbackReturns,
      LoopOnly, queueVars, Executor!vars, Pending
<1>8. ASSUME Stop \/ UNCHANGED vars
      PROVE  UNCHANGED Executor!vars
  BY <1>8 DEF Stop, vars, queueVars, historyVars, Executor!vars, Pending
<1> QED
  BY <1>1, <1>2, <1>3, <1>4, <1>5, <1>6, <1>7, <1>8
  DEF Next, Submit, Loop, Executor!Next

\* The worker woken through a user event implements the abstract executor as
\* well: what it may fail to do is to run a task, never to run it in order,
\* once, and while the worker exists.
THEOREM ImplementsExecutor == Spec => ExecutorSpec
<1>1. IInv /\ [Next]_vars => [Executor!Next]_(Executor!vars)
  BY RefineNext
<1> QED
  BY <1>1, RefineInit, SpecIInv, PTL DEF Spec, ExecutorSpec, Executor!Spec

=============================================================================
