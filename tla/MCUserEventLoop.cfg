CONSTANTS
  Tasks = {t1, t2, t3}
  Submitters = {s1, s2}
  LoopThread = loop_thread
  NoThread = no_thread
  NoTask = no_task
SPECIFICATION Spec
CHECK_DEADLOCK FALSE
INVARIANTS
  NoLostActivation
  FifoExactlyOnce
  IInv
PROPERTIES
  ActivatedTasksRun
  RunReturns
  ExecutorSpec
