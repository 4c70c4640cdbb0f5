------------------------------- MODULE SyncBase -------------------------------
(***************************************************************************)
(* use_latch and use_barrier of src/src/sync/sync_base.cpp, which main     *)
(* runs in two detached threads.  Each function makes a latch or a barrier *)
(* on its stack, starts workers that refer to it, joins them, and returns, *)
(* which destroys it.                                                      *)
(*                                                                         *)
(* The library is external: count_down first decrements and then, at zero, *)
(* wakes the waiters, and uses the latch for both; arrive_and_wait counts  *)
(* an arrival and then waits for the phase to end, and the last arrival    *)
(* ends it and sets the count up for the next one.                         *)
(*                                                                         *)
(* The definitions commented "Slip" are mutated forms of the definition    *)
(* that follows them; they belong to no behaviour of the specification.    *)
(***************************************************************************)
EXTENDS Naturals, FiniteSets

CONSTANTS
  LatchWorkers,     \* the turns of the loop of use_latch, three
  LatchCount,       \* what the latch is made with, another three
  BarrierWorkers    \* workder_number, four in use_barrier

ASSUME WorkersAssumption ==
  /\ IsFiniteSet(LatchWorkers) /\ LatchWorkers # {}
  /\ IsFiniteSet(BarrierWorkers) /\ BarrierWorkers # {}
  /\ LatchWorkers \cap BarrierWorkers = {}
\* The two literals of use_latch agree; the barrier has one number for both.
ASSUME LatchCountAssumption == LatchCount = Cardinality(LatchWorkers)

Workers == LatchWorkers \cup BarrierWorkers

VARIABLES
  latch_at,       \* where use_latch is
  barrier_at,     \* where use_barrier is
  worker,         \* where each worker is
  done_signal,    \* the counter of the latch
  sync_point,     \* arrivals the barrier still expects in this phase
  phase,          \* phases of the barrier that have ended
  arrived_in      \* the phase in which each worker arrived

creatorVars == <<latch_at, barrier_at>>
latchVars == <<done_signal>>
barrierVars == <<sync_point, phase, arrived_in>>
syncVars == <<creatorVars, worker, latchVars, barrierVars>>

SyncTypeOK ==
  /\ latch_at \in {"make", "start", "join", "wait", "returned"}
  /\ barrier_at \in {"make", "start", "join", "returned"}
  /\ worker \in [Workers -> {"none", "running", "notify", "wait", "finished"}]
  /\ done_signal \in 0 .. LatchCount
  /\ sync_point \in 0 .. Cardinality(BarrierWorkers)
  /\ phase \in 0 .. 1
  /\ arrived_in \in [BarrierWorkers -> 0 .. 1]

SyncInit ==
  /\ latch_at = "make"
  /\ barrier_at = "make"
  /\ worker = [w \in Workers |-> "none"]
  /\ done_signal = 0
  /\ sync_point = 0
  /\ phase = 0
  /\ arrived_in = [w \in BarrierWorkers |-> 0]

WorkerStep(w, here, next) ==
  /\ worker[w] = here
  /\ worker' = [worker EXCEPT ![w] = next]

AllOf(workers, where) == \A w \in workers : worker[w] \in where

-----------------------------------------------------------------------------
(* use_latch *)

\* Slip: one worker was taken out of the loop, the latch still expects it.
MakeLatchForMore ==
  /\ latch_at = "make"
  /\ latch_at' = "start"
  /\ done_signal' = LatchCount + 1
  /\ UNCHANGED <<barrier_at, worker, barrierVars>>

MakeLatch ==
  /\ latch_at = "make"
  /\ latch_at' = "start"
  /\ done_signal' = LatchCount
  /\ UNCHANGED <<barrier_at, worker, barrierVars>>

\* One turn of the first loop; the workers of earlier turns are running.
StartLatchWorker(w) ==
  /\ latch_at = "start"
  /\ WorkerStep(w, "none", "running")
  /\ UNCHANGED <<creatorVars, latchVars, barrierVars>>

LatchWorkersStarted ==
  /\ latch_at = "start"
  /\ ~ \E w \in LatchWorkers : worker[w] = "none"
  /\ latch_at' = "join"
  /\ UNCHANGED <<barrier_at, worker, latchVars, barrierVars>>

\* The decrement of count_down; the worker that reaches zero goes on to wake
\* the waiters of the latch.
CountDown(w) ==
  /\ \E next \in {IF done_signal = 1 THEN "notify" ELSE "finished"} :
       WorkerStep(w, "running", next)
  /\ done_signal' = done_signal - 1
  /\ UNCHANGED <<creatorVars, barrierVars>>

NotifyLatch(w) ==
  /\ WorkerStep(w, "notify", "finished")
  /\ UNCHANGED <<creatorVars, latchVars, barrierVars>>

\* Slip: the workers are left to the latch, nobody joins them.
LatchNotJoined ==
  /\ latch_at = "join"
  /\ latch_at' = "wait"
  /\ UNCHANGED <<barrier_at, worker, latchVars, barrierVars>>

\* The loop of joins.
JoinLatchWorkers ==
  /\ latch_at = "join"
  /\ AllOf(LatchWorkers, {"finished"})
  /\ latch_at' = "wait"
  /\ UNCHANGED <<barrier_at, worker, latchVars, barrierVars>>

\* wait, behind which the latch goes out of scope.
WaitForLatch ==
  /\ latch_at = "wait"
  /\ done_signal = 0
  /\ latch_at' = "returned"
  /\ UNCHANGED <<barrier_at, worker, latchVars, barrierVars>>

UseLatch ==
  \/ MakeLatch
  \/ \E w \in LatchWorkers : StartLatchWorker(w)
  \/ LatchWorkersStarted
  \/ JoinLatchWorkers
  \/ WaitForLatch

WorkerLatch(w) == CountDown(w) \/ NotifyLatch(w)

-----------------------------------------------------------------------------
(* use_barrier *)

MakeBarrier ==
  /\ barrier_at = "make"
  /\ barrier_at' = "start"
  /\ sync_point' = Cardinality(BarrierWorkers)
  /\ UNCHANGED <<latch_at, worker, latchVars, phase, arrived_in>>

StartBarrierWorker(w) ==
  /\ barrier_at = "start"
  /\ WorkerStep(w, "none", "running")
  /\ UNCHANGED <<creatorVars, latchVars, barrierVars>>

BarrierWorkersStarted ==
  /\ barrier_at = "start"
  /\ ~ \E w \in BarrierWorkers : worker[w] = "none"
  /\ barrier_at' = "join"
  /\ UNCHANGED <<latch_at, worker, latchVars, barrierVars>>

\* The arrival of arrive_and_wait; the last one ends the phase.
Arrive(w) ==
  /\ WorkerStep(w, "running", "wait")
  /\ arrived_in' = [arrived_in EXCEPT ![w] = phase]
  /\ \/ sync_point > 1 /\ sync_point' = sync_point - 1 /\ UNCHANGED phase
     \/ /\ sync_point = 1
        /\ phase' = phase + 1
        /\ sync_point' = Cardinality(BarrierWorkers)
  /\ UNCHANGED <<creatorVars, latchVars>>

\* The wait of arrive_and_wait, which reads the phase until it has changed.
PassBarrier(w) ==
  /\ phase # arrived_in[w]
  /\ WorkerStep(w, "wait", "finished")
  /\ UNCHANGED <<creatorVars, latchVars, barrierVars>>

\* The loop of joins, behind which the barrier goes out of scope.
JoinBarrierWorkers ==
  /\ barrier_at = "join"
  /\ AllOf(BarrierWorkers, {"finished"})
  /\ barrier_at' = "returned"
  /\ UNCHANGED <<latch_at, worker, latchVars, barrierVars>>

UseBarrier ==
  \/ MakeBarrier
  \/ \E w \in BarrierWorkers : StartBarrierWorker(w)
  \/ BarrierWorkersStarted
  \/ JoinBarrierWorkers

WorkerBarrier(w) == Arrive(w) \/ PassBarrier(w)

-----------------------------------------------------------------------------
SyncNext ==
  \/ UseLatch
  \/ UseBarrier
  \/ \E w \in LatchWorkers : WorkerLatch(w)
  \/ \E w \in BarrierWorkers : WorkerBarrier(w)

SyncSpec == SyncInit /\ [][SyncNext]_syncVars

-----------------------------------------------------------------------------
(* Properties *)

\* No worker is inside a call on the latch or on the barrier when the function
\* that owns it on its stack has returned; and nobody has passed the barrier
\* before all have reached it.
AliveWhileUsed ==
  /\ latch_at = "returned" => AllOf(LatchWorkers, {"finished"})
  /\ barrier_at = "returned" => AllOf(BarrierWorkers, {"finished"})
  /\ AllOf(BarrierWorkers, {"wait", "finished"})
       \/ AllOf(BarrierWorkers, {"none", "running", "wait"})

\* Both functions come back from their joins and waits: the counts agree with
\* the workers that were started, and nobody waits for somebody who waits.
FunctionsReturn ==
  /\ latch_at = "start" ~> latch_at = "returned"
  /\ barrier_at = "start" ~> barrier_at = "returned"
=============================================================================
