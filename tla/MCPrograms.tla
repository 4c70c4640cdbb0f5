------------------------------ MODULE MCPrograms ------------------------------
(***************************************************************************)
(* The small programs for TLC, each of them on its own: CMakeLists.txt     *)
(* builds one executable from each, and a behaviour is a run of one.       *)
(* ProducerConsumer is the part of main.cpp that outlives its statements.  *)
(***************************************************************************)
EXTENDS ProducerConsumer, SyncBase, LockComposite, HttpsClient

LeastInt == -2     \* with a largest one of 1, an int of two bits

VARIABLE program      \* the executable that runs

vars == <<program, bufferVars, syncVars, counterVars, httpsVars>>

TypeOK ==
  /\ program \in {"main", "sync", "lock", "https"}
  /\ BufferTypeOK /\ SyncTypeOK /\ CounterTypeOK /\ HttpsTypeOK

Init ==
  /\ program \in {"main", "sync", "lock", "https"}
  /\ BufferInit /\ SyncInit /\ CounterInit /\ HttpsInit
  /\ program # "lock" => counter = 0

Runs(p) == program = p /\ UNCHANGED program

Main ==
  /\ Runs("main")
  /\ BufferNext
  /\ UNCHANGED <<syncVars, counterVars, httpsVars>>

Sync ==
  /\ Runs("sync")
  /\ SyncNext
  /\ UNCHANGED <<bufferVars, counterVars, httpsVars>>

CounterLocks ==
  /\ Runs("lock")
  /\ CounterNext
  /\ UNCHANGED <<bufferVars, syncVars, httpsVars>>

Https ==
  /\ Runs("https")
  /\ HttpsNext
  /\ UNCHANGED <<bufferVars, syncVars, counterVars>>

Next == Main \/ Sync \/ CounterLocks \/ Https

\* A thread that can run does run.  Waiters need not wake without a
\* notification.
ThreadStep(p, Step, others) == Runs(p) /\ Step /\ UNCHANGED others

Fairness ==
  /\ \A p \in Producers :
       WF_vars(ThreadStep("main", Produce(p), <<syncVars, counterVars, httpsVars>>))
  /\ \A c \in Consumers :
       WF_vars(ThreadStep("main", Consume(c), <<syncVars, counterVars, httpsVars>>))
  /\ WF_vars(ThreadStep("sync", UseLatch, <<bufferVars, counterVars, httpsVars>>))
  /\ WF_vars(ThreadStep("sync", UseBarrier, <<bufferVars, counterVars, httpsVars>>))
  /\ \A w \in LatchWorkers :
       WF_vars(ThreadStep("sync", WorkerLatch(w), <<bufferVars, counterVars, httpsVars>>))
  /\ \A w \in BarrierWorkers :
       WF_vars(ThreadStep("sync", WorkerBarrier(w), <<bufferVars, counterVars, httpsVars>>))

Spec == Init /\ [][Next]_vars /\ Fairness
=============================================================================
