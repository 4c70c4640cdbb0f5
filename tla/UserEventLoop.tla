---------------------------- MODULE UserEventLoop ----------------------------
(***************************************************************************)
(* The EventLoopWorker of src/src/event/event_loop.cpp.  submitWork pushes *)
(* a task on work_queue under queue_mutex and activates a user event with  *)
(* evuser_trigger; work_callback moves the queue to a local vector under   *)
(* the mutex and runs the tasks.                                           *)
(*                                                                         *)
(* A user event has no descriptor and no timeout: event_add registers      *)
(* nothing, and the loop has a reason to go on only while the event is     *)
(* active.  The program never calls evthread_use_pthreads, so libevent     *)
(* takes no lock: an activation that overlaps another use of the base is a *)
(* data race.  The model lets it succeed, get lost, leave the base with    *)
(* wrong counts of its events, or bring the process down.                  *)
(*                                                                         *)
(* The definitions commented "Slip" are mutated forms of the definition    *)
(* that follows them; they belong to no behaviour of the specification.    *)
(***************************************************************************)
EXTENDS Naturals, Sequences

CONSTANTS
  Tasks,         \* the closures handed to submitWork, each at most once
  Submitters,    \* the threads other than the loop that call submitWork
  LoopThread,    \* the thread that calls run()
  NoThread,      \* owner of a free mutex
  NoTask         \* argument of a caller that is outside submitWork

ASSUME LoopThreadAssumption == LoopThread \notin Submitters
ASSUME NoThreadAssumption == NoThread \notin Submitters \cup {LoopThread}
ASSUME NoTaskAssumption == NoTask \notin Tasks

Callers == Submitters \cup {LoopThread}

VARIABLES
  has_base,      \* event_base_new succeeded
  work_queue,    \* std::queue of accepted tasks
  queue_mutex,   \* its owner, or NoThread
  active,        \* work_event is in the base's queue of active events
  damage,        \* what a race has left wrong in the base
  event_break,   \* libevent's flag behind event_base_loopbreak
  loop,          \* where the loop thread is
  items,         \* local vector of processWork, the running task first
  pc,            \* where each caller is inside submitWork
  arg,           \* the task each caller is submitting
  todo,          \* tasks nobody has handed in yet
  submitted,     \* history: tasks in the order they entered work_queue
  executed,      \* history: tasks in the order they were run
  raced,         \* history: an activation overlapped another use of the base
  stopped,       \* history: stop() was called
  destroyed      \* the destructor ran

queueVars == <<work_queue, queue_mutex, items>>
callVars == <<pc, arg, todo>>
historyVars == <<submitted, executed>>
vars == <<has_base, queueVars, active, damage, event_break, loop, callVars,
          historyVars, raced, stopped, destroyed>>

\* The updates that a race can lose or double: event_count stays above zero
\* without an event, event_count_active without an active one (which leaves
\* the other count without effect), or work_event is marked active and counted
\* nowhere.
Damages ==
  {d \in SUBSET {"event_count", "event_count_active", "uncounted"} :
     ~({"event_count", "event_count_active"} \subseteq d)}

TypeOK ==
  /\ has_base \in BOOLEAN
  /\ work_queue \in Seq(Tasks)
  /\ queue_mutex \in Callers \cup {NoThread}
  /\ active \in BOOLEAN
  /\ damage \in Damages
  /\ event_break \in BOOLEAN
  /\ loop \in {"start", "check", "fire", "lock", "take", "run", "waiting",
               "returned", "crashed"}
  /\ items \in Seq(Tasks)
  /\ pc \in [Callers -> {"idle", "lock", "push", "trigger"}]
  /\ arg \in [Callers -> Tasks \cup {NoTask}]
  /\ todo \subseteq Tasks
  /\ submitted \in Seq(Tasks)
  /\ executed \in Seq(Tasks)
  /\ raced \in BOOLEAN
  /\ stopped \in BOOLEAN
  /\ destroyed \in BOOLEAN

\* The constructor looks at no result: without a base the event is made and
\* not added, and the first user of the base is run().
Init ==
  /\ has_base \in BOOLEAN
  /\ work_queue = <<>>
  /\ queue_mutex = NoThread
  /\ active = FALSE
  /\ damage = {}
  /\ event_break = FALSE
  /\ loop = "start"
  /\ items = <<>>
  /\ pc = [c \in Callers |-> "idle"]
  /\ arg = [c \in Callers |-> NoTask]
  /\ todo = Tasks
  /\ submitted = <<>>
  /\ executed = <<>>
  /\ raced = FALSE
  /\ stopped = FALSE
  /\ destroyed = FALSE

-----------------------------------------------------------------------------
(* submitWork, on any thread *)

\* A null base or a destroyed one kills the whole process.
ProcessAlive == loop # "crashed"

\* The loop thread is outside libevent's own code only while a task runs.
MayCall(c) == c = LoopThread => loop = "run" /\ items # <<>>

SubmitWork(c, t) ==
  /\ ProcessAlive /\ ~destroyed
  /\ pc[c] = "idle" /\ MayCall(c)
  /\ t \in todo
  /\ todo' = todo \ {t}
  /\ pc' = [pc EXCEPT ![c] = "lock"]
  /\ arg' = [arg EXCEPT ![c] = t]
  /\ UNCHANGED <<has_base, queueVars, active, damage, event_break, loop,
                 historyVars, raced, stopped, destroyed>>

SubmitLock(c) ==
  /\ ProcessAlive
  /\ pc[c] = "lock"
  /\ queue_mutex = NoThread
  /\ queue_mutex' = c
  /\ pc' = [pc EXCEPT ![c] = "push"]
  /\ UNCHANGED <<has_base, work_queue, items, active, damage, event_break, loop,
                 arg, todo, historyVars, raced, stopped, destroyed>>

\* Slip: the closure was moved elsewhere before it is pushed.
SubmitPushMoved(c) ==
  /\ ProcessAlive
  /\ pc[c] = "push"
  /\ work_queue' = Append(work_queue, NoTask)
  /\ submitted' = Append(submitted, arg[c])
  /\ queue_mutex' = NoThread
  /\ pc' = [pc EXCEPT ![c] = "trigger"]
  /\ UNCHANGED <<has_base, items, active, damage, event_break, loop, arg,
                 todo, executed, raced, stopped, destroyed>>

\* The push, and the lock_guard that goes out of scope behind it.
SubmitPush(c) ==
  /\ ProcessAlive
  /\ pc[c] = "push"
  /\ work_queue' = Append(work_queue, arg[c])
  /\ submitted' = Append(submitted, arg[c])
  /\ queue_mutex' = NoThread
  /\ pc' = [pc EXCEPT ![c] = "trigger"]
  /\ UNCHANGED <<has_base, items, active, damage, event_break, loop, arg,
                 todo, executed, raced, stopped, destroyed>>

\* Another thread may be inside libevent at the moment of c's activation:
\* the loop outside its callback, or a second caller.
Overlaps(c) ==
  \/ c # LoopThread /\ loop \in {"check", "fire"}
  \/ \E d \in Callers \ {c} : pc[d] = "trigger"

\* The lists and the counts of the base are written twice at once.
Races(c) == has_base /\ Overlaps(c)

\* The process may go on, or be lost.
LoopAfterTrigger(c) == IF Races(c) THEN {loop, "crashed"} ELSE {loop}

\* The counts of the base may be right or wrong afterwards, in every way.
DamageAfterTrigger(c) == IF Races(c) THEN Damages ELSE {damage}

\* event_active: nothing for a null base, nor for an event that is marked
\* active already; the event is active afterwards, unless the unlocked update
\* is overwritten.
ActiveAfterTrigger(c) ==
  CASE ~has_base             -> {active}
    [] Races(c)              -> {TRUE, active}
    [] has_base /\ ~Races(c) -> {"uncounted" \notin damage \/ active}

SubmitTrigger(c) ==
  /\ ProcessAlive
  /\ pc[c] = "trigger"
  /\ active' \in ActiveAfterTrigger(c)
  /\ damage' \in DamageAfterTrigger(c)
  /\ loop' \in LoopAfterTrigger(c)
  /\ raced' = (raced \/ Races(c))
  /\ pc' = [pc EXCEPT ![c] = "idle"]
  /\ arg' = [arg EXCEPT ![c] = NoTask]
  /\ UNCHANGED <<has_base, queueVars, event_break, todo, historyVars, stopped,
                 destroyed>>

-----------------------------------------------------------------------------
(* run(): the libevent loop and work_callback, on the loop thread *)

\* What a step of the loop outside submitWork leaves alone.
LoopOnly == UNCHANGED <<has_base, damage, callVars, submitted, raced, stopped,
                        destroyed>>

\* event_base_dispatch clears the break flag; a null base is dereferenced.
RunStart ==
  /\ loop = "start" /\ ~destroyed
  /\ loop' = IF has_base THEN "check" ELSE "crashed"
  /\ event_break' = FALSE
  /\ UNCHANGED <<queueVars, active, executed>>
  /\ LoopOnly

\* A pass that finds no active event.  No event is registered, so the loop
\* ends, if the counts are right.  A wrong count of active events makes it
\* pass on and on; a wrong count of events makes it wait in the kernel, where
\* neither event_active nor event_base_loopbreak wakes it.
EmptyPass ==
  CASE "event_count_active" \in damage -> "check"
    [] "event_count" \in damage        -> "waiting"
    [] damage \subseteq {"uncounted"}  -> "returned"

\* Before a pass and after every callback libevent looks at the break flag
\* and at the active events.
LoopCheck ==
  /\ loop = "check"
  /\ \/ event_break /\ loop' = "returned"
     \/ ~event_break /\ active /\ loop' = "fire"
     \/ ~event_break /\ ~active /\ loop' = EmptyPass
  /\ UNCHANGED <<queueVars, active, event_break, executed>>
  /\ LoopOnly

\* libevent deletes a non-persistent event and then calls work_callback.
Fire ==
  /\ loop = "fire"
  /\ active' = FALSE
  /\ loop' = "lock"
  /\ UNCHANGED <<queueVars, event_break, executed>>
  /\ LoopOnly

LockQueue ==
  /\ loop = "lock"
  /\ queue_mutex = NoThread
  /\ queue_mutex' = LoopThread
  /\ loop' = "take"
  /\ UNCHANGED <<work_queue, items, active, event_break, executed>>
  /\ LoopOnly

\* Slip: the element is read and stays in the queue until the end.
TakeItemTwice ==
  /\ loop = "take"
  /\ work_queue # <<>>
  /\ items' = Append(items, Head(work_queue))
  /\ work_queue' = IF items = <<>> THEN work_queue ELSE Tail(work_queue)
  /\ UNCHANGED <<queue_mutex, active, event_break, loop, executed>>
  /\ LoopOnly

TakeItem ==
  /\ loop = "take"
  /\ work_queue # <<>>
  /\ items' = Append(items, Head(work_queue))
  /\ work_queue' = Tail(work_queue)
  /\ UNCHANGED <<queue_mutex, active, event_break, loop, executed>>
  /\ LoopOnly

\* Slip: one task per callback, the rest waits for the next activation.
UnlockQueueEarly ==
  /\ loop = "take"
  /\ items # <<>> \/ work_queue = <<>>
  /\ queue_mutex' = NoThread
  /\ loop' = "run"
  /\ UNCHANGED <<work_queue, items, active, event_break, executed>>
  /\ LoopOnly

\* Slip: the lock_guard of processWork is in scope while the tasks run.
UnlockQueueLate ==
  /\ loop = "take"
  /\ work_queue = <<>>
  /\ loop' = "run"
  /\ UNCHANGED <<work_queue, queue_mutex, items, active, event_break, executed>>
  /\ LoopOnly

UnlockQueue ==
  /\ loop = "take"
  /\ work_queue = <<>>
  /\ queue_mutex' = NoThread
  /\ loop' = "run"
  /\ UNCHANGED <<work_queue, items, active, event_break, executed>>
  /\ LoopOnly

\* Slip: the batch is run from its end.
RunItemFromBack ==
  /\ loop = "run"
  /\ items # <<>>
  /\ pc[LoopThread] = "idle"
  /\ executed' = Append(executed, items[Len(items)])
  /\ items' = SubSeq(items, 1, Len(items) - 1)
  /\ UNCHANGED <<work_queue, queue_mutex, active, event_break, loop>>
  /\ LoopOnly

\* The running task returns; it is inside no call of submitWork.
RunItem ==
  /\ loop = "run"
  /\ items # <<>>
  /\ pc[LoopThread] = "idle"
  /\ executed' = Append(executed, Head(items))
  /\ items' = Tail(items)
  /\ UNCHANGED <<work_queue, queue_mutex, active, event_break, loop>>
  /\ LoopOnly

\* Slip: the event is reset after the batch instead of before it.
CallbackReturnsResetting ==
  /\ loop = "run"
  /\ items = <<>>
  /\ loop' = "check"
  /\ active' = FALSE
  /\ UNCHANGED <<queueVars, event_break, executed>>
  /\ LoopOnly

CallbackReturns ==
  /\ loop = "run"
  /\ items = <<>>
  /\ loop' = "check"
  /\ UNCHANGED <<queueVars, active, event_break, executed>>
  /\ LoopOnly

-----------------------------------------------------------------------------
(* stop(), join and the destructor, on the thread that owns the worker *)

\* event_base_loopbreak returns an error for a null base, and otherwise only
\* sets the flag.  main calls it once.
Stop ==
  /\ ProcessAlive /\ ~stopped
  /\ stopped' = TRUE
  /\ event_break' = (event_break \/ has_base)
  /\ UNCHANGED <<has_base, queueVars, active, damage, loop, callVars,
                 historyVars, raced, destroyed>>

\* Slip: the loop thread is detached instead of joined.
MayDestroyUnjoined ==
  /\ stopped /\ ~destroyed /\ ProcessAlive
  /\ \A c \in Submitters : pc[c] = "idle"

\* main joins the loop thread; the other callers are done with the worker.
MayDestroy ==
  /\ stopped /\ ~destroyed
  /\ loop = "returned"
  /\ \A c \in Submitters : pc[c] = "idle"

Destroy ==
  /\ MayDestroy
  /\ destroyed' = TRUE
  /\ active' = FALSE
  /\ work_queue' = <<>>
  /\ UNCHANGED <<has_base, queue_mutex, items, damage, event_break, loop,
                 callVars, historyVars, raced, stopped>>

-----------------------------------------------------------------------------
Submit(c) ==
  \/ \E t \in Tasks : SubmitWork(c, t)
  \/ SubmitLock(c)
  \/ SubmitPush(c)
  \/ SubmitTrigger(c)

Loop ==
  \/ RunStart
  \/ LoopCheck
  \/ Fire
  \/ LockQueue
  \/ TakeItem
  \/ UnlockQueue
  \/ RunItem
  \/ CallbackReturns

Next ==
  \/ \E c \in Callers : Submit(c)
  \/ Loop
  \/ Stop
  \/ Destroy

\* Runnable threads are scheduled: the loop takes the steps it can take and
\* a submitWork that began is carried to its end.  Nothing obliges anyone to
\* submit a task, to stop the worker or to destroy it.
Fairness ==
  /\ WF_vars(Loop)
  /\ \A c \in Callers :
       WF_vars(SubmitLock(c) \/ SubmitPush(c) \/ SubmitTrigger(c))

Spec == Init /\ [][Next]_vars /\ Fairness

-----------------------------------------------------------------------------
(* Properties *)

\* Without a race on the base, a task in work_queue is announced: the event
\* is active, a caller has yet to activate it, or a callback has yet to take
\* the queue.  This holds whether or not a loop is left to see it.
NoLostActivation ==
  work_queue # <<>> /\ has_base /\ ~raced /\ ~destroyed =>
    \/ active
    \/ loop \in {"lock", "take"}
    \/ \E c \in Callers : pc[c] = "trigger"

\* What was accepted and not yet run: the rest of the batch, then the queue.
Pending == items \o work_queue

\* Every task that entered the queue is at exactly one place, in the order
\* of the pushes: run, taken by processWork, or still queued.  The mutex
\* carries this even when the activations race.
FifoExactlyOnce == ~destroyed => executed \o Pending = submitted

\* Whoever pushes to or pops from work_queue owns queue_mutex and nobody
\* else does; tasks run with it released and may call submitWork.
MutexDiscipline ==
  /\ \A c \in Callers : pc[c] = "push" => queue_mutex = c
  /\ loop = "take" => queue_mutex = LoopThread
  /\ queue_mutex = LoopThread /\ ProcessAlive =>
       loop = "take" \/ pc[LoopThread] = "push"

\* The join of main finds a loop that is outside work_callback, so that the
\* destructor takes nothing from under a running task.
DestroyedAfterLoop == destroyed => loop = "returned" /\ items = <<>>

\* A task whose event is active while the loop runs is executed, unless the
\* worker is stopped or an activation races.
ActivatedTasksRun ==
  \A t \in Tasks :
    /\ \E i \in DOMAIN work_queue : work_queue[i] = t
    /\ active /\ has_base /\ loop \notin {"returned", "crashed"}
    ~> (\E i \in DOMAIN executed : executed[i] = t) \/ stopped \/ raced

\* The join of main comes back: a loop that looks for work ends, whatever its
\* tasks submit and whoever else does, unless an activation races.  A race may
\* leave the base with counts that keep the loop for ever.
RunReturns == loop = "check" ~> loop \in {"returned", "crashed"} \/ raced

\* Not kept.  The usage shown in main (event_loop.cpp:78-86) hands two tasks
\* to a worker whose loop was started a second ago: a task handed in is run,
\* at the latest before stop() is called.
TasksRun ==
  \A t \in Tasks :
    (\E i \in DOMAIN submitted : submitted[i] = t) /\ has_base ~>
      (\E i \in DOMAIN executed : executed[i] = t) \/ stopped \/ raced

-----------------------------------------------------------------------------
(* The invariant that holds the safety properties together *)

\* A caller inside submitWork carries a task; the loop thread calls it only
\* from inside a task.
CallersCarryTasks ==
  /\ \A c \in Callers : pc[c] # "idle" => arg[c] \in Tasks
  /\ pc[LoopThread] # "idle" => items # <<>> /\ loop \in {"run", "crashed"}

\* Without a base nothing becomes active and no activation races: the one
\* thread that would notice is killed by run().
BaselessIsInert ==
  ~has_base =>
    /\ ~active /\ ~raced /\ ~event_break
    /\ loop \in {"start", "crashed"}

\* libevent's flag is set by nobody but stop(), and the batch is empty where
\* processWork is not in the middle of it.
LoopDisciplined ==
  /\ event_break => stopped
  /\ loop \notin {"take", "run", "crashed"} => items = <<>>
  /\ loop = "crashed" => raced \/ ~has_base
  /\ damage # {} \/ loop = "waiting" => raced

\* Nothing is in flight any more when the worker is gone.
DestroyedIsQuiet ==
  destroyed =>
    /\ stopped /\ ~active
    /\ work_queue = <<>>
    /\ \A c \in Callers : pc[c] = "idle"

\* The state is one that the steps before it can have produced: the safety
\* properties at once and the facts that carry them from a step to the next.
\* It is what submitWork, processWork, stop and the join of main together
\* keep: nothing of the worker is used before it is made or after it is gone.
IInv ==
  /\ TypeOK
  /\ CallersCarryTasks
  /\ BaselessIsInert
  /\ LoopDisciplined
  /\ DestroyedIsQuiet
  /\ DestroyedAfterLoop
  /\ NoLostActivation
  /\ FifoExactlyOnce
  /\ MutexDiscipline

\* The worker is an executor: submitWork accepts a task, the callback runs
\* it, and the destructor drops what is left.
Executor == INSTANCE TaskExecutor
              WITH pending <- Pending, closed <- destroyed
ExecutorSpec == Executor!Spec
=============================================================================
