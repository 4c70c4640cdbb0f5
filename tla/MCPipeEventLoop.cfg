CONSTANTS
  Tasks = {t1, t2, t3}
  Submitters = {s1, s2}
  LoopThread = loop_thread
  NoThread = no_thread
  NoTask = no_task
  PipeCapacity = 2
SPECIFICATION Spec
CHECK_DEADLOCK FALSE
INVARIANTS
  NoLostWakeup
  FifoExactlyOnce
  MutexDiscipline
  IInv
PROPERTIES
  NoCallbackAfterDestroy
  TasksRun
  StopEndsBusyLoop
  ExecutorSpec
