CONSTANTS
  Producers = {p1, p2}
  Consumers = {k1, k2}
  ItemsPerProducer = 3
  Nobody = nobody
  LatchWorkers = {l1, l2, l3}
  LatchCount = 3
  BarrierWorkers = {b1, b2, b3, b4}
  Callers = {t3, t4}
  Holders = {t1, t2}
  INT_MIN <- LeastInt
  INT_MAX = 1
  MaxCalls = 5
  IntBits = 16
  HeaderBytes = {10, 13, 32, 58, 255}
  MaxHeader = 5
SPECIFICATION Spec
CHECK_DEADLOCK FALSE
INVARIANTS
  TypeOK
  ItemsOnceInOrder
  AliveWhileUsed
  CountsConsecutive
  TextHelpersAgree
  Base64Agrees
PROPERTIES
  PushedConsumed
  FunctionsReturn
