---------------------------- MODULE PipeEventLoop ----------------------------
(***************************************************************************)
(* The EventLoopWorker of src/src/event/event_base.cpp (lines 170-267).    *)
(* Any thread hands in a task with submitWork: it is pushed on work_queue  *)
(* under queue_mutex and one byte is written to a non-blocking pipe.  One  *)
(* thread runs the libevent loop; when the read end is readable, notify_cb *)
(* empties the pipe, moves the whole queue to a local vector under the     *)
(* mutex and runs the tasks with the mutex released.  stop() is            *)
(* event_base_loopbreak: without evthread_use_pthreads it sets a flag and  *)
(* does not wake a loop that is blocked in its backend.                    *)
(*                                                                         *)
(* A task that runs may itself call submitWork, so the loop thread is one  *)
(* of the callers.  Each task of Tasks is handed in at most once.          *)
(*                                                                         *)
(* The definitions commented "Slip" are mutated forms of the definition    *)
(* that follows them; they belong to no behaviour of the specification.    *)
(***************************************************************************)
EXTENDS Naturals, Sequences, FiniteSets

CONSTANTS
  Tasks,         \* the closures handed to submitWork
  Submitters,    \* the threads other than the loop that call submitWork
  LoopThread,    \* the thread that calls run()
  NoThread,      \* owner of a free mutex
  NoTask,        \* argument of a caller that is outside submitWork
  PipeCapacity   \* bytes that fit in the pipe (65536 on Linux)

ASSUME PipeCapacityAssumption == PipeCapacity \in Nat \ {0}
ASSUME LoopThreadAssumption == LoopThread \notin Submitters
ASSUME NoThreadAssumption == NoThread \notin Submitters \cup {LoopThread}
ASSUME NoTaskAssumption == NoTask \notin Tasks

Callers == Submitters \cup {LoopThread}

VARIABLES
  built,         \* how far the constructor came: "ok", "no_pipe", "no_base"
  work_queue,    \* std::queue of accepted tasks
  queue_mutex,   \* its owner, or NoThread
  notify_pipe,   \* number of bytes in the pipe
  event_break,   \* libevent's flag behind event_base_loopbreak
  loop,          \* where the loop thread is
  items,         \* local vector of processWork, the running task first
  pc,            \* where each caller is inside submitWork
  arg,           \* the task each caller is submitting
  todo,          \* tasks nobody has handed in yet
  submitted,     \* history: tasks in the order they entered work_queue
  executed,      \* history: tasks in the order they were run
  stopped,       \* history: stop() was called
  destroyed      \* the destructor ran

loopVars == <<loop, items, event_break>>
callVars == <<pc, arg, todo>>
vars == <<built, work_queue, queue_mutex, notify_pipe, loopVars, callVars,
          submitted, executed, stopped, destroyed>>

LoopStates == {"start", "check", "wait", "drain", "lock", "take", "run",
               "returned", "crashed"}
CallStates == {"idle", "lock", "push", "notify"}

TypeOK ==
  /\ built \in {"ok", "no_pipe", "no_base"}
  /\ work_queue \in Seq(Tasks)
  /\ queue_mutex \in Callers \cup {NoThread}
  /\ notify_pipe \in 0 .. PipeCapacity
  /\ event_break \in BOOLEAN
  /\ loop \in LoopStates
  /\ items \in Seq(Tasks)
  /\ pc \in [Callers -> CallStates]
  /\ arg \in [Callers -> Tasks \cup {NoTask}]
  /\ todo \subseteq Tasks
  /\ submitted \in Seq(Tasks)
  /\ executed \in Seq(Tasks)
  /\ stopped \in BOOLEAN
  /\ destroyed \in BOOLEAN

\* The constructor returns early when event_base_new or pipe fails.
Init ==
  /\ built \in {"ok", "no_pipe", "no_base"}
  /\ work_queue = <<>>
  /\ queue_mutex = NoThread
  /\ notify_pipe = 0
  /\ event_break = FALSE
  /\ loop = "start"
  /\ items = <<>>
  /\ pc = [c \in Callers |-> "idle"]
  /\ arg = [c \in Callers |-> NoTask]
  /\ todo = Tasks
  /\ submitted = <<>>
  /\ executed = <<>>
  /\ stopped = FALSE
  /\ destroyed = FALSE

-----------------------------------------------------------------------------
(* submitWork, on any thread *)

\* A dereference of the null base kills the whole process.
ProcessAlive == loop # "crashed"

\* The loop thread is outside libevent's own code only while a task runs.
MayCall(c) == c = LoopThread => loop = "run" /\ items # <<>>

SubmitWork(c, t) ==
  /\ ProcessAlive /\ ~destroyed
  /\ pc[c] = "idle" /\ MayCall(c)
  /\ t \in todo
  /\ todo' = todo \ {t}
  /\ pc' = [pc EXCEPT ![c] = "lock"]
  /\ arg' = [arg EXCEPT ![c] = t]
  /\ UNCHANGED <<built, work_queue, queue_mutex, notify_pipe, loopVars,
                 submitted, executed, stopped, destroyed>>

SubmitLock(c) ==
  /\ ProcessAlive
  /\ pc[c] = "lock"
  /\ queue_mutex = NoThread
  /\ queue_mutex' = c
  /\ pc' = [pc EXCEPT ![c] = "push"]
  /\ UNCHANGED <<built, work_queue, notify_pipe, loopVars, arg, todo,
                 submitted, executed, stopped, destroyed>>

\* The push, and the lock_guard that goes out of scope behind it.
SubmitPush(c) ==
  /\ ProcessAlive
  /\ pc[c] = "push"
  /\ work_queue' = Append(work_queue, arg[c])
  /\ submitted' = Append(submitted, arg[c])
  /\ queue_mutex' = NoThread
  /\ pc' = [pc EXCEPT ![c] = "notify"]
  /\ UNCHANGED <<built, notify_pipe, loopVars, arg, todo, executed, stopped,
                 destroyed>>

\* What the pipe holds after write(notify_pipe[1], &byte, 1).
PipeAfterWrite ==
  IF built = "ok" /\ notify_pipe < PipeCapacity
  THEN notify_pipe + 1 ELSE notify_pipe

\* One write to the pipe.  It fails, and the task stays queued, when the
\* pipe is full (EAGAIN) or was never created (descriptor -1).
SubmitNotify(c) ==
  /\ ProcessAlive
  /\ pc[c] = "notify"
  /\ notify_pipe' = PipeAfterWrite
  /\ pc' = [pc EXCEPT ![c] = "idle"]
  /\ arg' = [arg EXCEPT ![c] = NoTask]
  /\ UNCHANGED <<built, work_queue, queue_mutex, loopVars, todo, submitted,
                 executed, stopped, destroyed>>

-----------------------------------------------------------------------------
(* run(): the libevent loop and notify_cb, on the loop thread *)

\* What a step of the loop outside submitWork leaves alone.
LoopOnly == UNCHANGED <<built, callVars, submitted, stopped, destroyed>>

\* event_base_dispatch clears the break flag; without an event it returns
\* at once, and without a base it dereferences a null pointer.
RunStart ==
  /\ loop = "start" /\ ~destroyed
  /\ \/ built = "ok" /\ loop' = "check"
     \/ built = "no_pipe" /\ loop' = "returned"
     \/ built = "no_base" /\ loop' = "crashed"
  /\ event_break' = FALSE
  /\ UNCHANGED <<work_queue, queue_mutex, notify_pipe, items, executed>>
  /\ LoopOnly

LoopCheck ==
  /\ loop = "check"
  /\ loop' = IF event_break THEN "returned" ELSE "wait"
  /\ UNCHANGED <<work_queue, queue_mutex, notify_pipe, items, event_break,
                 executed>>
  /\ LoopOnly

\* The backend reports the read end; the callback runs even when the break
\* flag was set meanwhile, libevent looks at the flag after a callback.
LoopWake ==
  /\ loop = "wait"
  /\ notify_pipe > 0
  /\ loop' = "drain"
  /\ UNCHANGED <<work_queue, queue_mutex, notify_pipe, items, event_break,
                 executed>>
  /\ LoopOnly

DrainByte ==
  /\ loop = "drain"
  /\ notify_pipe > 0
  /\ notify_pipe' = notify_pipe - 1
  /\ UNCHANGED <<work_queue, queue_mutex, loopVars, executed>>
  /\ LoopOnly

\* Slip: the pipe blocks, the read behind the last byte waits for another.
DrainEmptyBlocks ==
  /\ loop = "drain"
  /\ notify_pipe = 0
  /\ loop' = "drain"
  /\ UNCHANGED <<work_queue, queue_mutex, notify_pipe, items, event_break,
                 executed>>
  /\ LoopOnly

DrainEmpty ==
  /\ loop = "drain"
  /\ notify_pipe = 0
  /\ loop' = "lock"
  /\ UNCHANGED <<work_queue, queue_mutex, notify_pipe, items, event_break,
                 executed>>
  /\ LoopOnly

LockQueue ==
  /\ loop = "lock"
  /\ queue_mutex = NoThread
  /\ queue_mutex' = LoopThread
  /\ loop' = "take"
  /\ UNCHANGED <<work_queue, notify_pipe, items, event_break, executed>>
  /\ LoopOnly

\* Slip: a stack instead of a queue.
TakeItemAtFront ==
  /\ loop = "take"
  /\ work_queue # <<>>
  /\ items' = <<Head(work_queue)>> \o items
  /\ work_queue' = Tail(work_queue)
  /\ UNCHANGED <<queue_mutex, notify_pipe, loop, event_break, executed>>
  /\ LoopOnly

TakeItem ==
  /\ loop = "take"
  /\ work_queue # <<>>
  /\ items' = Append(items, Head(work_queue))
  /\ work_queue' = Tail(work_queue)
  /\ UNCHANGED <<queue_mutex, notify_pipe, loop, event_break, executed>>
  /\ LoopOnly

\* Slip: the lock_guard lives until the end of processWork.
UnlockQueueLate ==
  /\ loop = "take"
  /\ work_queue = <<>>
  /\ loop' = "run"
  /\ UNCHANGED <<work_queue, queue_mutex, notify_pipe, items, event_break,
                 executed>>
  /\ LoopOnly

UnlockQueue ==
  /\ loop = "take"
  /\ work_queue = <<>>
  /\ queue_mutex' = NoThread
  /\ loop' = "run"
  /\ UNCHANGED <<work_queue, notify_pipe, items, event_break, executed>>
  /\ LoopOnly

\* Slip: the batch is run from its end.
RunItemFromBack ==
  /\ loop = "run"
  /\ items # <<>>
  /\ pc[LoopThread] = "idle"
  /\ executed' = Append(executed, items[Len(items)])
  /\ items' = SubSeq(items, 1, Len(items) - 1)
  /\ UNCHANGED <<work_queue, queue_mutex, notify_pipe, loop, event_break>>
  /\ LoopOnly

\* The running task returns; it is inside no call of submitWork.
RunItem ==
  /\ loop = "run"
  /\ items # <<>>
  /\ pc[LoopThread] = "idle"
  /\ executed' = Append(executed, Head(items))
  /\ items' = Tail(items)
  /\ UNCHANGED <<work_queue, queue_mutex, notify_pipe, loop, event_break>>
  /\ LoopOnly

\* Slip: the pipe is emptied after the batch instead of before it.
CallbackReturnsDraining ==
  /\ loop = "run"
  /\ items = <<>>
  /\ loop' = "check"
  /\ notify_pipe' = 0
  /\ UNCHANGED <<work_queue, queue_mutex, items, event_break, executed>>
  /\ LoopOnly

\* Slip: the callback gives up between two tasks when the worker is stopped.
CallbackReturnsOnBreak ==
  /\ loop = "run"
  /\ items = <<>> \/ event_break
  /\ loop' = "check"
  /\ UNCHANGED <<work_queue, queue_mutex, notify_pipe, items, event_break,
                 executed>>
  /\ LoopOnly

CallbackReturns ==
  /\ loop = "run"
  /\ items = <<>>
  /\ loop' = "check"
  /\ UNCHANGED <<work_queue, queue_mutex, notify_pipe, items, event_break,
                 executed>>
  /\ LoopOnly

-----------------------------------------------------------------------------
(* stop() and the destructor, on the thread that owns the worker *)

\* event_base_loopbreak returns an error for a null base, and otherwise only
\* sets the flag.  main calls it once.
Stop ==
  /\ ProcessAlive /\ ~stopped
  /\ stopped' = TRUE
  /\ event_break' = (event_break \/ built # "no_base")
  /\ UNCHANGED <<built, work_queue, queue_mutex, notify_pipe, loop, items,
                 callVars, submitted, executed, destroyed>>

\* Slip: event_free is forgotten, the event stays registered.
DestroyKeepsEvent ==
  /\ stopped /\ ~destroyed
  /\ loop \in {"wait", "returned"}
  /\ \A c \in Callers : pc[c] = "idle"
  /\ destroyed' = TRUE
  /\ work_queue' = <<>>
  /\ UNCHANGED <<built, queue_mutex, notify_pipe, loopVars, callVars,
                 submitted, executed, stopped>>

\* main sleeps five seconds between stop() and the end of its block.  The
\* model takes the sleep to outlast a callback in progress and the calls of
\* submitWork; a loop that stop() did not wake is still blocked.
Destroy ==
  /\ stopped /\ ~destroyed
  /\ loop \in {"wait", "returned"}
  /\ \A c \in Callers : pc[c] = "idle"
  /\ destroyed' = TRUE
  /\ notify_pipe' = 0
  /\ work_queue' = <<>>
  /\ UNCHANGED <<built, queue_mutex, loopVars, callVars, submitted, executed,
                 stopped>>

-----------------------------------------------------------------------------
Submit(c) ==
  \/ \E t \in Tasks : SubmitWork(c, t)
  \/ SubmitLock(c)
  \/ SubmitPush(c)
  \/ SubmitNotify(c)

Loop ==
  \/ RunStart
  \/ LoopCheck
  \/ LoopWake
  \/ DrainByte
  \/ DrainEmpty
  \/ LockQueue
  \/ TakeItem
  \/ UnlockQueue
  \/ RunItem
  \/ CallbackReturns

Next ==
  \/ \E c \in Callers : Submit(c)
  \/ Loop
  \/ Stop
  \/ Destroy

\* Runnable threads are scheduled: the loop takes the steps it can take and
\* a submitWork that began is carried to its end.  Nothing obliges anyone to
\* submit a task, to stop the worker or to destroy it.
Fairness ==
  /\ WF_vars(Loop)
  /\ \A c \in Callers :
       WF_vars(SubmitLock(c) \/ SubmitPush(c) \/ SubmitNotify(c))

Spec == Init /\ [][Next]_vars /\ Fairness

-----------------------------------------------------------------------------
(* Properties *)

\* No wake-up is lost: as long as the worker is usable, a task in work_queue
\* is announced by a byte in the pipe, by a caller that has yet to write its
\* byte, or by a callback that has yet to empty the queue.  It is why
\* submitWork pushes before it writes and why notify_cb empties the pipe
\* before it takes the queue.
NoLostWakeup ==
  work_queue # <<>> /\ built = "ok" /\ ~destroyed =>
    \/ notify_pipe > 0
    \/ loop \in {"drain", "lock", "take"}
    \/ \E c \in Callers : pc[c] = "notify"

\* What was accepted and not yet run: the rest of the batch, then the queue.
Pending == items \o work_queue

\* Every task that entered the queue is at exactly one place, and the places
\* hold them in the order in which submitWork pushed them: run, taken by
\* processWork, or still queued.
FifoExactlyOnce == ~destroyed => executed \o Pending = submitted

\* Whoever pushes to or pops from work_queue owns queue_mutex, and nobody
\* else does; in particular the loop thread runs the tasks with the mutex
\* released, so that a task may call submitWork without locking itself out.
MutexDiscipline ==
  /\ \A c \in Callers : pc[c] = "push" => queue_mutex = c
  /\ loop = "take" => queue_mutex = LoopThread
  /\ queue_mutex = LoopThread => loop = "take" \/ pc[LoopThread] = "push"

\* processWork does not come back before it has run what it took: no task
\* stays behind in its local vector when the loop waits or ends.
BatchCompleted ==
  loop \notin {"take", "run"} => items = <<>>

\* After a successful construction, run() returns only because of stop(); a
\* worker that lost its event or its break flag would return early or never.
ReturnsOnlyAfterStop ==
  loop = "returned" /\ built = "ok" => stopped

\* Once the destructor ran, the loop thread never again enters notify_cb,
\* whose argument is the worker that is gone.
NoCallbackAfterDestroy ==
  [][destroyed => loop' \notin {"drain", "lock", "take", "run"}]_vars

\* Submitted tasks are run unless the worker is stopped: a task that entered
\* the queue of a working loop is eventually executed.
TasksRun ==
  \A t \in Tasks :
    (\E i \in DOMAIN submitted : submitted[i] = t) /\ built = "ok" ~>
      (\E i \in DOMAIN executed : executed[i] = t) \/ stopped

\* A stop() that finds the loop inside a callback ends the loop as soon as
\* the callback has returned; the tasks of the batch are run before.
StopEndsBusyLoop ==
  event_break /\ loop \in {"check", "drain", "lock", "take", "run"} ~>
    loop = "returned"

-----------------------------------------------------------------------------
(* The inductive invariant behind the safety properties *)

\* A caller inside submitWork carries a task.
CallersCarryTasks == \A c \in Callers : pc[c] # "idle" => arg[c] \in Tasks

\* The loop thread calls submitWork only from inside a task.
LoopThreadInTask ==
  pc[LoopThread] # "idle" => loop = "run" /\ items # <<>>

\* libevent's flag is set by nobody but stop().
BreakMeansStopped == event_break => stopped

\* Nothing is in flight any more when the worker is gone.
DestroyedIsQuiet ==
  destroyed =>
    /\ loop \in {"wait", "returned"}
    /\ notify_pipe = 0
    /\ work_queue = <<>>
    /\ \A c \in Callers : pc[c] = "idle"

\* The state is one that the steps before it can have produced: all of the
\* safety properties at once and the facts that carry them from a step to
\* the next.
IInv ==
  /\ TypeOK
  /\ CallersCarryTasks
  /\ LoopThreadInTask
  /\ BreakMeansStopped
  /\ DestroyedIsQuiet
  /\ NoLostWakeup
  /\ FifoExactlyOnce
  /\ MutexDiscipline
  /\ BatchCompleted
  /\ ReturnsOnlyAfterStop

\* The worker is an executor: submitWork accepts a task, the callback runs
\* it, and the destructor drops what is left.
Executor == INSTANCE TaskExecutor
              WITH pending <- Pending, closed <- destroyed
ExecutorSpec == Executor!Spec
=============================================================================
