---------------------------- MODULE TaskExecutor ----------------------------
(***************************************************************************)
(* What an EventLoopWorker promises to the threads that hand it work: the  *)
(* tasks it accepted are run one at a time, each of them at most once, in  *)
(* the order in which they were accepted, until it is shut down.  Nothing  *)
(* is said of queues, pipes, locks or event loops; both implementations    *)
(* in src/src/event (the one woken through a pipe and the one woken        *)
(* through a user event) are meant to be refinements of this module.       *)
(***************************************************************************)
EXTENDS Sequences

CONSTANT Tasks          \* every task that may ever be handed in

VARIABLES
  pending,              \* accepted and not yet run, oldest first
  executed,             \* run to the end, in the order they were run
  closed                \* shut down: nothing is accepted or run any more

vars == <<pending, executed, closed>>

Init ==
  /\ pending = <<>>
  /\ executed = <<>>
  /\ closed = FALSE

Accept(t) ==
  /\ ~closed
  /\ pending' = Append(pending, t)
  /\ UNCHANGED <<executed, closed>>

Execute ==
  /\ ~closed
  /\ pending # <<>>
  /\ executed' = Append(executed, Head(pending))
  /\ pending' = Tail(pending)
  /\ UNCHANGED closed

\* What was accepted and not run is dropped.
ShutDown ==
  /\ ~closed
  /\ closed' = TRUE
  /\ pending' = <<>>
  /\ UNCHANGED executed

Next ==
  \/ \E t \in Tasks : Accept(t)
  \/ Execute
  \/ ShutDown

Spec == Init /\ [][Next]_vars
=============================================================================
