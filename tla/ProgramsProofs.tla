---------------------------- MODULE ProgramsProofs ----------------------------
(***************************************************************************)
(* Proofs about the small programs: ProducerConsumer, SyncBase,            *)
(* LockComposite and HttpsClient with its TextHelpers, each with its       *)
(* inductive invariant, and MCPrograms, in which each of them runs as it   *)
(* does alone.  For any threads, any number of items, any range of an int, *)
(* and any header.                                                         *)
(***************************************************************************)
EXTENDS MCPrograms, SequenceLemmas, FiniteSetTheorems, TLAPS

-----------------------------------------------------------------------------
(* ProducerConsumer *)

\* A thread behind its lock and before its unlock owns the mutex, and the item
\* a producer is about to push is one of its own.
MtxHeld ==
  /\ \A p \in Producers :
       producer[p] # "lock" => mtx = p /\ produced[p] < ItemsPerProducer
  /\ \A c \in Consumers :
       consumer[c] \in {"test", "front", "pop", "unlock"} => mtx = c

\* What a consumer has found at the front of the queue stays there until it
\* pops it.
FrontStays ==
  \A c \in Consumers :
    /\ consumer[c] \in {"front", "pop"} => buffer # <<>>
    /\ consumer[c] = "pop" => item[c] = <<Head(buffer)>>

BufferIInv == BufferTypeOK /\ MtxHeld /\ FrontStays /\ ItemsOnceInOrder

\* The types need the lock in two places: the item is one of the producer's,
\* and there is a front to be read.
LEMMA BufferTypeStep ==
  BufferTypeOK /\ MtxHeld /\ FrontStays /\ [BufferNext]_bufferVars => BufferTypeOK'
<1> SUFFICES ASSUME BufferTypeOK, MtxHeld, FrontStays, [BufferNext]_bufferVars
             PROVE  BufferTypeOK'
  OBVIOUS
<1> USE ItemsAssumption, ThreadsDistinct
        DEF BufferTypeOK, MtxHeld, FrontStays, ProducerAt, ConsumerAt, producerVars, consumerVars
<1>1. ASSUME NEW p \in Producers, ProducerLock(p) PROVE BufferTypeOK'
  BY <1>1 DEF ProducerLock, TakeMtx
<1>2. ASSUME NEW p \in Producers, Push(p) PROVE BufferTypeOK'
  <2>1. produced[p] \in 0 .. ItemsPerProducer - 1
    <3>1. produced[p] \in 0 .. ItemsPerProducer
      OBVIOUS
    <3>2. produced[p] < ItemsPerProducer
      BY <1>2 DEF Push
    <3> QED
      BY <3>1, <3>2, ItemsAssumption
  <2>2. <<p, produced[p]>> \in Item
    BY <2>1 DEF Item
  <2> QED
    BY <1>2, <2>2, AppendProperties DEF Push
<1>3. ASSUME NEW p \in Producers, NotifyOne(p) PROVE BufferTypeOK'
  BY <1>3 DEF NotifyOne, Waiters
<1>4. ASSUME NEW p \in Producers, ProducerUnlock(p) PROVE BufferTypeOK'
  BY <1>4 DEF ProducerUnlock, ReleaseMtx
<1>5. ASSUME NEW c \in Consumers, ConsumerLock(c) PROVE BufferTypeOK'
  BY <1>5 DEF ConsumerLock, TakeMtx
<1>6. ASSUME NEW c \in Consumers, Wait(c) PROVE BufferTypeOK'
  BY <1>6 DEF Wait, ReleaseMtx
<1>7. ASSUME NEW c \in Consumers, GoOn(c) PROVE BufferTypeOK'
  BY <1>7 DEF GoOn
<1>8. ASSUME NEW c \in Consumers, ReadFront(c) PROVE BufferTypeOK'
  <2>1. FirstOf(buffer) \in Seq(Item) /\ Len(FirstOf(buffer)) = 1
    BY <1>8, HeadTailProperties DEF ReadFront, FirstOf
  <2> QED
    BY <1>8, <2>1 DEF ReadFront
<1>9. ASSUME NEW c \in Consumers, PopFront(c) PROVE BufferTypeOK'
  <2>1. RestOf(buffer) \in Seq(Item)
    BY HeadTailProperties DEF RestOf
  <2>2. consumed \o item[c] \in Seq(Item)
    BY ConcatProperties
  <2>3. <<>> \in Seq(Item) /\ Len(<<>>) = 0
    BY EmptySeq
  <2> QED
    BY <1>9, <2>1, <2>2, <2>3 DEF PopFront
<1>10. ASSUME NEW c \in Consumers, ConsumerUnlock(c) PROVE BufferTypeOK'
  BY <1>10 DEF ConsumerUnlock, ReleaseMtx
<1>11. ASSUME NEW c \in Consumers, SpuriousWakeup(c) PROVE BufferTypeOK'
  BY <1>11 DEF SpuriousWakeup
<1>12. ASSUME UNCHANGED bufferVars PROVE BufferTypeOK'
  BY <1>12 DEF bufferVars
<1> QED
  BY <1>1, <1>2, <1>3, <1>4, <1>5, <1>6, <1>7, <1>8, <1>9, <1>10, <1>11,
     <1>12
  DEF BufferNext, Produce, Consume

\* The mutex is taken when it is free and given up by its owner.
LEMMA MtxHeldStep ==
  BufferTypeOK /\ MtxHeld /\ [BufferNext]_bufferVars => MtxHeld'
<1> SUFFICES ASSUME BufferTypeOK, MtxHeld, [BufferNext]_bufferVars
             PROVE  MtxHeld'
  OBVIOUS
<1> USE ItemsAssumption, ThreadsDistinct
        DEF BufferTypeOK, MtxHeld, ProducerAt, ConsumerAt, producerVars, consumerVars
<1>1. ASSUME NEW p \in Producers, ProducerLock(p) PROVE MtxHeld'
  BY <1>1 DEF ProducerLock, TakeMtx
<1>2. ASSUME NEW p \in Producers, Push(p) PROVE MtxHeld'
  BY <1>2 DEF Push
<1>3. ASSUME NEW p \in Producers, NotifyOne(p) PROVE MtxHeld'
  BY <1>3 DEF NotifyOne, Waiters
<1>4. ASSUME NEW p \in Producers, ProducerUnlock(p) PROVE MtxHeld'
  BY <1>4 DEF ProducerUnlock, ReleaseMtx
<1>5. ASSUME NEW c \in Consumers, ConsumerLock(c) PROVE MtxHeld'
  BY <1>5 DEF ConsumerLock, TakeMtx
<1>6. ASSUME NEW c \in Consumers, Wait(c) PROVE MtxHeld'
  BY <1>6 DEF Wait, ReleaseMtx
<1>7. ASSUME NEW c \in Consumers, GoOn(c) PROVE MtxHeld'
  BY <1>7 DEF GoOn
<1>8. ASSUME NEW c \in Consumers, ReadFront(c) PROVE MtxHeld'
  BY <1>8 DEF ReadFront, FirstOf
<1>9. ASSUME NEW c \in Consumers, PopFront(c) PROVE MtxHeld'
  BY <1>9 DEF PopFront, RestOf
<1>10. ASSUME NEW c \in Consumers, ConsumerUnlock(c) PROVE MtxHeld'
  BY <1>10 DEF ConsumerUnlock, ReleaseMtx
<1>11. ASSUME NEW c \in Consumers, SpuriousWakeup(c) PROVE MtxHeld'
  BY <1>11 DEF SpuriousWakeup
<1>12. ASSUME UNCHANGED bufferVars PROVE MtxHeld'
  BY <1>12 DEF bufferVars
<1> QED
  BY <1>1, <1>2, <1>3, <1>4, <1>5, <1>6, <1>7, <1>8, <1>9, <1>10, <1>11,
     <1>12
  DEF BufferNext, Produce, Consume

\* Nobody else changes the queue between front and pop.
LEMMA FrontStaysStep ==
  BufferTypeOK /\ MtxHeld /\ FrontStays /\ [BufferNext]_bufferVars => FrontStays'
<1> SUFFICES ASSUME BufferTypeOK, MtxHeld, FrontStays, [BufferNext]_bufferVars
             PROVE  FrontStays'
  OBVIOUS
<1> USE ThreadsDistinct
        DEF BufferTypeOK, MtxHeld, FrontStays, ProducerAt, ConsumerAt, producerVars, consumerVars
<1>1. ASSUME NEW p \in Producers, ProducerLock(p) PROVE FrontStays'
  BY <1>1 DEF ProducerLock, TakeMtx
<1>2. ASSUME NEW p \in Producers, Push(p) PROVE FrontStays'
  <2>1. \A c \in Consumers : consumer[c] \notin {"front", "pop"}
    BY <1>2 DEF Push
  <2> QED
    BY <1>2, <2>1 DEF Push
<1>3. ASSUME NEW p \in Producers, NotifyOne(p) PROVE FrontStays'
  BY <1>3 DEF NotifyOne, Waiters
<1>4. ASSUME NEW p \in Producers, ProducerUnlock(p) PROVE FrontStays'
  BY <1>4 DEF ProducerUnlock, ReleaseMtx
<1>5. ASSUME NEW c \in Consumers, ConsumerLock(c) PROVE FrontStays'
  BY <1>5 DEF ConsumerLock, TakeMtx
<1>6. ASSUME NEW c \in Consumers, Wait(c) PROVE FrontStays'
  BY <1>6 DEF Wait, ReleaseMtx
<1>7. ASSUME NEW c \in Consumers, GoOn(c) PROVE FrontStays'
  BY <1>7 DEF GoOn
<1>8. ASSUME NEW c \in Consumers, ReadFront(c) PROVE FrontStays'
  BY <1>8 DEF ReadFront, FirstOf
<1>9. ASSUME NEW c \in Consumers, PopFront(c) PROVE FrontStays'
  <2>1. \A d \in Consumers \ {c} : consumer[d] \notin {"front", "pop"}
    BY <1>9 DEF PopFront
  <2> QED
    BY <1>9, <2>1 DEF PopFront
<1>10. ASSUME NEW c \in Consumers, ConsumerUnlock(c) PROVE FrontStays'
  BY <1>10 DEF ConsumerUnlock, ReleaseMtx
<1>11. ASSUME NEW c \in Consumers, SpuriousWakeup(c) PROVE FrontStays'
  BY <1>11 DEF SpuriousWakeup
<1>12. ASSUME UNCHANGED bufferVars PROVE FrontStays'
  BY <1>12 DEF bufferVars
<1> QED
  BY <1>1, <1>2, <1>3, <1>4, <1>5, <1>6, <1>7, <1>8, <1>9, <1>10, <1>11,
     <1>12
  DEF BufferNext, Produce, Consume

\* A pop moves the head of the queue to the end of what was consumed.
LEMMA ItemsStep ==
  BufferTypeOK /\ MtxHeld /\ FrontStays /\ ItemsOnceInOrder /\ [BufferNext]_bufferVars => ItemsOnceInOrder'
<1> SUFFICES ASSUME BufferTypeOK, MtxHeld, FrontStays, ItemsOnceInOrder, [BufferNext]_bufferVars
             PROVE  ItemsOnceInOrder'
  OBVIOUS
<1> USE DEF BufferTypeOK, ItemsOnceInOrder, ProducerAt, ConsumerAt, producerVars, consumerVars
<1>1. ASSUME NEW p \in Producers, ProducerLock(p) PROVE ItemsOnceInOrder'
  BY <1>1 DEF ProducerLock, TakeMtx
<1>2. ASSUME NEW p \in Producers, Push(p) PROVE ItemsOnceInOrder'
  <2>1. produced[p] \in 0 .. ItemsPerProducer - 1
    <3>1. produced[p] \in 0 .. ItemsPerProducer
      OBVIOUS
    <3>2. produced[p] < ItemsPerProducer
      BY <1>2 DEF Push, MtxHeld
    <3> QED
      BY <3>1, <3>2, ItemsAssumption
  <2>2. <<p, produced[p]>> \in Item
    BY <2>1 DEF Item
  <2>3. consumed \o Append(buffer, <<p, produced[p]>>)
          = Append(consumed \o buffer, <<p, produced[p]>>)
    BY <2>2, AppendBehind
  <2> QED
    BY <1>2, <2>3 DEF Push
<1>3. ASSUME NEW p \in Producers, NotifyOne(p) PROVE ItemsOnceInOrder'
  BY <1>3 DEF NotifyOne, Waiters
<1>4. ASSUME NEW p \in Producers, ProducerUnlock(p) PROVE ItemsOnceInOrder'
  BY <1>4 DEF ProducerUnlock, ReleaseMtx
<1>5. ASSUME NEW c \in Consumers, ConsumerLock(c) PROVE ItemsOnceInOrder'
  BY <1>5 DEF ConsumerLock, TakeMtx
<1>6. ASSUME NEW c \in Consumers, Wait(c) PROVE ItemsOnceInOrder'
  BY <1>6 DEF Wait, ReleaseMtx
<1>7. ASSUME NEW c \in Consumers, GoOn(c) PROVE ItemsOnceInOrder'
  BY <1>7 DEF GoOn
<1>8. ASSUME NEW c \in Consumers, ReadFront(c) PROVE ItemsOnceInOrder'
  BY <1>8 DEF ReadFront, FirstOf
<1>9. ASSUME NEW c \in Consumers, PopFront(c) PROVE ItemsOnceInOrder'
  <2>1. buffer # <<>> /\ item[c] = <<Head(buffer)>>
    BY <1>9 DEF PopFront, FrontStays
  <2>2. consumed' = Append(consumed, Head(buffer)) /\ buffer' = Tail(buffer)
    BY <1>9, <2>1, HeadTailProperties, AppendIsConcat DEF PopFront, RestOf
  <2> QED
    BY SMTT(30), <1>9, <2>1, <2>2, MoveHead DEF PopFront
<1>10. ASSUME NEW c \in Consumers, ConsumerUnlock(c) PROVE ItemsOnceInOrder'
  BY <1>10 DEF ConsumerUnlock, ReleaseMtx
<1>11. ASSUME NEW c \in Consumers, SpuriousWakeup(c) PROVE ItemsOnceInOrder'
  BY <1>11 DEF SpuriousWakeup
<1>12. ASSUME UNCHANGED bufferVars PROVE ItemsOnceInOrder'
  BY <1>12 DEF bufferVars
<1> QED
  BY <1>1, <1>2, <1>3, <1>4, <1>5, <1>6, <1>7, <1>8, <1>9, <1>10, <1>11,
     <1>12
  DEF BufferNext, Produce, Consume

\* The inductive invariant of the producers and consumers.
THEOREM BufferInvariant == BufferSpec => []BufferIInv
<1>1. BufferInit => BufferIInv
  <2> SUFFICES ASSUME BufferInit PROVE BufferIInv
    OBVIOUS
  <2>1. <<>> \in Seq(Item) /\ Len(<<>>) = 0 /\ <<>> \o <<>> = <<>>
    BY EmptySeq, ConcatEmptySeq
  <2>2. BufferTypeOK
    BY <2>1, ItemsAssumption DEF BufferInit, BufferTypeOK
  <2>3. MtxHeld /\ FrontStays /\ ItemsOnceInOrder
    BY <2>1 DEF BufferInit, MtxHeld, FrontStays, ItemsOnceInOrder
  <2> QED
    BY <2>2, <2>3 DEF BufferIInv
<1>2. BufferIInv /\ [BufferNext]_bufferVars => BufferIInv'
  BY BufferTypeStep, MtxHeldStep, FrontStaysStep, ItemsStep DEF BufferIInv
<1> QED
  BY <1>1, <1>2, PTL DEF BufferSpec

\* Every item is consumed at most once and in the order of the pushes, for any
\* number of producers and consumers.
THEOREM BufferItemsOnceInOrder == BufferSpec => []ItemsOnceInOrder
<1>1. BufferIInv => ItemsOnceInOrder
  BY DEF BufferIInv
<1> QED
  BY <1>1, BufferInvariant, PTL

-----------------------------------------------------------------------------
(* LockComposite *)

\* Who is inside get_counter, or holds the lock, owns it alone.
LockExclusive ==
  /\ \A c \in Callers : caller[c] # "lock" => locked = {c}
  /\ \A h \in Holders : holder[h] = "holding" => locked = {h}

\* What n increments leave in the counter, as long as they are defined.
AheadBy(n) == start + n <= INT_MAX => counter = start + n

\* The counter is as many increments ahead of its first value as calls have
\* returned, and one more behind the store of the call that has not.
CounterAhead ==
  /\ (\A c \in Callers : caller[c] # "return") => AheadBy(Len(returned))
  /\ \A c \in Callers :
       /\ caller[c] = "store" => loaded[c] = counter
       /\ caller[c] = "return" => AheadBy(Len(returned) + 1)

CounterIInv == CounterTypeOK /\ LockExclusive /\ CounterAhead /\ CountsConsecutive

\* The counter stays within the width of an int.
LEMMA CounterTypeStep ==
  CounterTypeOK /\ [CounterNext]_counterVars => CounterTypeOK'
<1> SUFFICES ASSUME CounterTypeOK, [CounterNext]_counterVars
             PROVE  CounterTypeOK'
  OBVIOUS
<1> USE IntAssumption DEF CounterTypeOK, CallerAt
<1>1. ASSUME NEW c \in Callers, CounterLock(c) PROVE CounterTypeOK'
  BY <1>1 DEF CounterLock, Acquire
<1>2. ASSUME NEW c \in Callers, Load(c) PROVE CounterTypeOK'
  BY <1>2 DEF Load
<1>3. ASSUME NEW c \in Callers, Store(c) PROVE CounterTypeOK'
  <2>1. Incremented(loaded[c]) \subseteq Value
    BY DEF Incremented, Value
  <2> QED
    BY <1>3, <2>1 DEF Store
<1>4. ASSUME NEW c \in Callers, Return(c) PROVE CounterTypeOK'
  BY <1>4, AppendProperties DEF Return, Release
<1>5. ASSUME NEW h \in Holders, Hold(h) PROVE CounterTypeOK'
  BY <1>5 DEF Hold, Acquire
<1>6. ASSUME NEW h \in Holders, LetGo(h) PROVE CounterTypeOK'
  BY <1>6 DEF LetGo, Release
<1>7. ASSUME UNCHANGED counterVars PROVE CounterTypeOK'
  BY <1>7 DEF counterVars
<1> QED
  BY <1>1, <1>2, <1>3, <1>4, <1>5, <1>6, <1>7
  DEF CounterNext, GetCounter

\* The lock is acquired when nobody owns it, and released by its owner.
LEMMA LockExclusiveStep ==
  CounterTypeOK /\ LockExclusive /\ [CounterNext]_counterVars => LockExclusive'
<1> SUFFICES ASSUME CounterTypeOK, LockExclusive, [CounterNext]_counterVars
             PROVE  LockExclusive'
  OBVIOUS
<1> USE HoldersAssumption DEF CounterTypeOK, LockExclusive, CallerAt
<1>1. ASSUME NEW c \in Callers, CounterLock(c) PROVE LockExclusive'
  BY <1>1 DEF CounterLock, Acquire
<1>2. ASSUME NEW c \in Callers, Load(c) PROVE LockExclusive'
  BY <1>2 DEF Load
<1>3. ASSUME NEW c \in Callers, Store(c) PROVE LockExclusive'
  BY <1>3 DEF Store
<1>4. ASSUME NEW c \in Callers, Return(c) PROVE LockExclusive'
  BY <1>4 DEF Return, Release
<1>5. ASSUME NEW h \in Holders, Hold(h) PROVE LockExclusive'
  BY <1>5 DEF Hold, Acquire
<1>6. ASSUME NEW h \in Holders, LetGo(h) PROVE LockExclusive'
  BY <1>6 DEF LetGo, Release
<1>7. ASSUME UNCHANGED counterVars PROVE LockExclusive'
  BY <1>7 DEF counterVars
<1> QED
  BY <1>1, <1>2, <1>3, <1>4, <1>5, <1>6, <1>7
  DEF CounterNext, GetCounter

\* Only the one caller that owns the lock moves the counter.
LEMMA CounterAheadStep ==
  CounterTypeOK /\ LockExclusive /\ CounterAhead /\ [CounterNext]_counterVars => CounterAhead'
<1> SUFFICES ASSUME CounterTypeOK, LockExclusive, CounterAhead, [CounterNext]_counterVars
             PROVE  CounterAhead'
  OBVIOUS
<1> USE IntAssumption DEF CounterTypeOK, CounterAhead, AheadBy, CallerAt
<1>1. ASSUME NEW c \in Callers, CounterLock(c) PROVE CounterAhead'
  BY <1>1 DEF CounterLock, Acquire
<1>2. ASSUME NEW c \in Callers, Load(c) PROVE CounterAhead'
  <2>1. \A d \in Callers \ {c} : caller[d] = "lock"
    BY <1>2 DEF Load, LockExclusive
  <2> QED
    BY <1>2, <2>1 DEF Load
<1>3. ASSUME NEW c \in Callers, Store(c) PROVE CounterAhead'
  <2>1. \A d \in Callers \ {c} : caller[d] = "lock"
    BY <1>3 DEF Store, LockExclusive
  <2>2. AheadBy(Len(returned)) /\ loaded[c] = counter
    BY <1>3, <2>1 DEF Store
  <2>3. start \in Int /\ Len(returned) \in Nat
    BY LenProperties DEF Value
  <2>4. AheadBy(Len(returned) + 1)'
    <3>1. counter' \in Incremented(counter) /\ UNCHANGED <<start, returned>>
      BY <1>3, <2>2 DEF Store
    <3> QED
      BY <2>2, <2>3, <3>1 DEF Incremented
  <2> QED
    BY <1>3, <2>1, <2>4 DEF Store
<1>4. ASSUME NEW c \in Callers, Return(c) PROVE CounterAhead'
  <2>1. \A d \in Callers \ {c} : caller[d] = "lock"
    BY <1>4 DEF Return, LockExclusive
  <2>2. Len(returned') = Len(returned) + 1
    BY <1>4, AppendProperties DEF Return
  <2>3. AheadBy(Len(returned))'
    BY <1>4, <2>2 DEF Return
  <2> QED
    BY <1>4, <2>1, <2>3 DEF Return
<1>5. ASSUME NEW h \in Holders, Hold(h) PROVE CounterAhead'
  BY <1>5 DEF Hold, Acquire
<1>6. ASSUME NEW h \in Holders, LetGo(h) PROVE CounterAhead'
  BY <1>6 DEF LetGo, Release
<1>7. ASSUME UNCHANGED counterVars PROVE CounterAhead'
  BY <1>7 DEF counterVars
<1> QED
  BY <1>1, <1>2, <1>3, <1>4, <1>5, <1>6, <1>7
  DEF CounterNext, GetCounter

\* The value a call returns is the one behind the value of the last call.
LEMMA ConsecutiveStep ==
  CounterTypeOK /\ CounterAhead /\ CountsConsecutive /\ [CounterNext]_counterVars => CountsConsecutive'
<1> SUFFICES ASSUME CounterTypeOK, CounterAhead, CountsConsecutive, [CounterNext]_counterVars
             PROVE  CountsConsecutive'
  OBVIOUS
<1> USE DEF CounterTypeOK, CountsConsecutive, CallerAt
<1>1. ASSUME NEW c \in Callers, CounterLock(c) PROVE CountsConsecutive'
  BY <1>1 DEF CounterLock, Acquire
<1>2. ASSUME NEW c \in Callers, Load(c) PROVE CountsConsecutive'
  BY <1>2 DEF Load
<1>3. ASSUME NEW c \in Callers, Store(c) PROVE CountsConsecutive'
  BY <1>3 DEF Store
<1>4. ASSUME NEW c \in Callers, Return(c) PROVE CountsConsecutive'
  <2>1. AheadBy(Len(returned) + 1)
    BY <1>4 DEF Return, CounterAhead
  <2>2. /\ DOMAIN returned = 1 .. Len(returned)
        /\ DOMAIN returned' = 1 .. Len(returned) + 1
        /\ returned'[Len(returned) + 1] = counter
        /\ \A i \in 1 .. Len(returned) : returned'[i] = returned[i]
    <3>1. returned' \in Seq(Value) /\ Len(returned') = Len(returned) + 1
      BY <1>4, AppendProperties DEF Return
    <3> QED
      BY <1>4, <3>1, AppendProperties, LenProperties DEF Return
  <2>3. start' = start
    BY <1>4 DEF Return
  <2>4. ASSUME NEW i \in 1 .. Len(returned) + 1
        PROVE  start + i <= INT_MAX => returned'[i] = start + i
    <3>1. CASE i \in 1 .. Len(returned)
      BY <2>2, <3>1
    <3>2. CASE i = Len(returned) + 1
      BY <2>1, <2>2, <3>2 DEF AheadBy
    <3> QED
      BY <3>1, <3>2, LenProperties
  <2> QED
    BY <2>2, <2>3, <2>4
<1>5. ASSUME NEW h \in Holders, Hold(h) PROVE CountsConsecutive'
  BY <1>5 DEF Hold, Acquire
<1>6. ASSUME NEW h \in Holders, LetGo(h) PROVE CountsConsecutive'
  BY <1>6 DEF LetGo, Release
<1>7. ASSUME UNCHANGED counterVars PROVE CountsConsecutive'
  BY <1>7 DEF counterVars
<1> QED
  BY <1>1, <1>2, <1>3, <1>4, <1>5, <1>6, <1>7
  DEF CounterNext, GetCounter

\* The inductive invariant of LockComposite.
THEOREM CounterInvariant == CounterSpec => []CounterIInv
<1>1. CounterInit => CounterIInv
  <2> SUFFICES ASSUME CounterInit PROVE CounterIInv
    OBVIOUS
  <2>1. <<>> \in Seq(Value) /\ Len(<<>>) = 0 /\ DOMAIN <<>> = {}
    BY EmptySeq
  <2>2. CounterTypeOK /\ LockExclusive
    BY <2>1 DEF CounterInit, CounterTypeOK, LockExclusive
  <2>3. AheadBy(Len(returned))
    BY <2>1, IntAssumption DEF CounterInit, AheadBy, Value
  <2>4. CounterAhead /\ CountsConsecutive
    BY <2>1, <2>3 DEF CounterInit, CounterAhead, CountsConsecutive
  <2> QED
    BY <2>2, <2>4 DEF CounterIInv
<1>2. CounterIInv /\ [CounterNext]_counterVars => CounterIInv'
  BY CounterTypeStep, LockExclusiveStep, CounterAheadStep, ConsecutiveStep
  DEF CounterIInv
<1> QED
  BY <1>1, <1>2, PTL DEF CounterSpec

\* No increment is lost and none is returned twice up to the largest int,
\* whatever the first value, the number of threads and the range of an int.
THEOREM CounterConsecutive == CounterSpec => []CountsConsecutive
<1>1. CounterIInv => CountsConsecutive
  BY DEF CounterIInv
<1> QED
  BY <1>1, CounterInvariant, PTL

-----------------------------------------------------------------------------
(* SyncBase *)

\* The workers of either function that have not yet counted down or arrived.
ToCountDown == {w \in LatchWorkers : worker[w] \in {"none", "running"}}
ToArrive == {w \in BarrierWorkers : worker[w] \in {"none", "running"}}

\* The count of the latch is the number of workers that are still to count
\* down; behind the joins all are finished.
LatchCounts ==
  /\ latch_at = "make" => AllOf(LatchWorkers, {"none"})
  /\ latch_at # "make" => done_signal = Cardinality(ToCountDown)
  /\ latch_at \in {"wait", "returned"} => AllOf(LatchWorkers, {"finished"})

\* The barrier ends its one phase when the last worker has arrived, and nobody
\* passes it before; behind the joins all are finished.
BarrierCounts ==
  /\ barrier_at = "make" => AllOf(BarrierWorkers, {"none"}) /\ phase = 0
  /\ phase = 0 =>
       /\ barrier_at # "make" => sync_point = Cardinality(ToArrive)
       /\ AllOf(BarrierWorkers, {"none", "running", "wait"})
  /\ phase = 1 => AllOf(BarrierWorkers, {"wait", "finished"})
  /\ \A w \in BarrierWorkers : arrived_in[w] = 0
  /\ barrier_at = "returned" => AllOf(BarrierWorkers, {"finished"})

SyncIInv == SyncTypeOK /\ LatchCounts /\ BarrierCounts

\* One worker less in a set of workers is one less in its number.
LEMMA OneLess ==
  ASSUME NEW S, IsFiniteSet(S), NEW T, T \subseteq S, NEW w \in T
  PROVE  /\ Cardinality(T) \in 1 .. Cardinality(S)
         /\ Cardinality(T \ {w}) = Cardinality(T) - 1
         /\ Cardinality(T) = 1 => T = {w}
<1>1. IsFiniteSet(T) /\ Cardinality(T) <= Cardinality(S)
  BY FS_Subset
<1>2. IsFiniteSet(T \ {w}) /\ Cardinality(T \ {w}) = Cardinality(T) - 1
  BY <1>1, FS_RemoveElement
<1>3. /\ Cardinality(T) \in Nat /\ Cardinality(T \ {w}) \in Nat
      /\ Cardinality(S) \in Nat
  BY <1>1, <1>2, FS_CardinalityType
<1>4. Cardinality(T) = 1 => T \ {w} = {}
  BY <1>2, <1>3, FS_EmptySet
<1> QED
  BY <1>1, <1>2, <1>3, <1>4

\* The counts stay within the number of workers.
LEMMA SyncTypeStep ==
  SyncTypeOK /\ LatchCounts /\ BarrierCounts /\ [SyncNext]_syncVars => SyncTypeOK'
<1> SUFFICES ASSUME SyncTypeOK, LatchCounts, BarrierCounts, [SyncNext]_syncVars
             PROVE  SyncTypeOK'
  OBVIOUS
<1> USE LatchCountAssumption DEF SyncTypeOK, WorkerStep, AllOf, Workers,
        creatorVars, latchVars, barrierVars
<1>1. ASSUME MakeLatch PROVE SyncTypeOK'
  <2>1. Cardinality(LatchWorkers) \in Nat
    BY WorkersAssumption, FS_CardinalityType
  <2> QED
    BY <1>1, <2>1 DEF MakeLatch
<1>2. ASSUME NEW w \in LatchWorkers, StartLatchWorker(w) PROVE SyncTypeOK'
  BY <1>2 DEF StartLatchWorker
<1>3. ASSUME LatchWorkersStarted PROVE SyncTypeOK'
  BY <1>3 DEF LatchWorkersStarted
<1>4. ASSUME NEW w \in LatchWorkers, CountDown(w) PROVE SyncTypeOK'
  <2>1. latch_at # "make" /\ w \in ToCountDown
    BY <1>4 DEF CountDown, LatchCounts, ToCountDown
  <2>2. done_signal \in 1 .. Cardinality(LatchWorkers)
    <3>1. ToCountDown \subseteq LatchWorkers
      BY DEF ToCountDown
    <3>2. Cardinality(ToCountDown) \in 1 .. Cardinality(LatchWorkers)
      BY <2>1, <3>1, WorkersAssumption, OneLess
    <3> QED
      BY <2>1, <3>2 DEF LatchCounts
  <2>3. done_signal' \in 0 .. Cardinality(LatchWorkers)
    <3>1. Cardinality(LatchWorkers) \in Nat
      BY WorkersAssumption, FS_CardinalityType
    <3> QED
      BY <1>4, <2>2, <3>1 DEF CountDown
  <2> QED
    BY <1>4, <2>3 DEF CountDown
<1>5. ASSUME NEW w \in LatchWorkers, NotifyLatch(w) PROVE SyncTypeOK'
  BY <1>5 DEF NotifyLatch
<1>6. ASSUME JoinLatchWorkers PROVE SyncTypeOK'
  BY <1>6 DEF JoinLatchWorkers
<1>7. ASSUME WaitForLatch PROVE SyncTypeOK'
  BY <1>7 DEF WaitForLatch
<1>8. ASSUME MakeBarrier PROVE SyncTypeOK'
  <2>1. Cardinality(BarrierWorkers) \in Nat
    BY WorkersAssumption, FS_CardinalityType
  <2> QED
    BY <1>8, <2>1 DEF MakeBarrier
<1>9. ASSUME NEW w \in BarrierWorkers, StartBarrierWorker(w) PROVE SyncTypeOK'
  BY <1>9 DEF StartBarrierWorker
<1>10. ASSUME BarrierWorkersStarted PROVE SyncTypeOK'
  BY <1>10 DEF BarrierWorkersStarted
<1>11. ASSUME NEW w \in BarrierWorkers, Arrive(w) PROVE SyncTypeOK'
  <2>1. phase = 0
    BY <1>11 DEF Arrive, BarrierCounts
  <2>2. Cardinality(BarrierWorkers) \in Nat
    BY WorkersAssumption, FS_CardinalityType
  <2>3. sync_point' \in 0 .. Cardinality(BarrierWorkers)
    BY <1>11, <2>2 DEF Arrive
  <2> QED
    BY <1>11, <2>1, <2>3 DEF Arrive
<1>12. ASSUME NEW w \in BarrierWorkers, PassBarrier(w) PROVE SyncTypeOK'
  BY <1>12 DEF PassBarrier
<1>13. ASSUME JoinBarrierWorkers PROVE SyncTypeOK'
  BY <1>13 DEF JoinBarrierWorkers
<1>14. ASSUME UNCHANGED syncVars PROVE SyncTypeOK'
  BY <1>14 DEF syncVars
<1> QED
  BY <1>1, <1>2, <1>3, <1>4, <1>5, <1>6, <1>7, <1>8, <1>9, <1>10, <1>11,
     <1>12, <1>13, <1>14
  DEF SyncNext, UseLatch, UseBarrier, WorkerLatch, WorkerBarrier

\* The count and the workers move together.
LEMMA LatchStep ==
  SyncTypeOK /\ LatchCounts /\ [SyncNext]_syncVars => LatchCounts'
<1> SUFFICES ASSUME SyncTypeOK, LatchCounts, [SyncNext]_syncVars
             PROVE  LatchCounts'
  OBVIOUS
<1> USE WorkersAssumption DEF SyncTypeOK, LatchCounts, WorkerStep, AllOf, Workers,
        creatorVars, latchVars, barrierVars
<1>1. ASSUME MakeLatch PROVE LatchCounts'
  <2>1. ToCountDown' = LatchWorkers
    BY <1>1 DEF MakeLatch, ToCountDown
  <2> QED
    BY <1>1, <2>1, LatchCountAssumption DEF MakeLatch
<1>2. ASSUME NEW w \in LatchWorkers, StartLatchWorker(w) PROVE LatchCounts'
  <2>1. ToCountDown' = ToCountDown
    BY <1>2 DEF StartLatchWorker, ToCountDown
  <2> QED
    BY <1>2, <2>1 DEF StartLatchWorker
<1>3. ASSUME LatchWorkersStarted PROVE LatchCounts'
  <2>1. ToCountDown' = ToCountDown
    BY <1>3 DEF LatchWorkersStarted, ToCountDown
  <2> QED
    BY <1>3, <2>1 DEF LatchWorkersStarted
<1>4. ASSUME NEW w \in LatchWorkers, CountDown(w) PROVE LatchCounts'
  <2>1. latch_at # "make" /\ w \in ToCountDown
    BY <1>4 DEF CountDown, ToCountDown
  <2>2. ToCountDown' = ToCountDown \ {w}
    BY <1>4 DEF CountDown, ToCountDown
  <2>3. done_signal' = Cardinality(ToCountDown')
    <3>1. ToCountDown \subseteq LatchWorkers
      BY DEF ToCountDown
    <3>2. Cardinality(ToCountDown \ {w}) = Cardinality(ToCountDown) - 1
      BY <2>1, <3>1, WorkersAssumption, OneLess
    <3> QED
      BY <1>4, <2>1, <2>2, <3>2 DEF CountDown
  <2>4. latch_at \notin {"wait", "returned"}
    BY <1>4 DEF CountDown
  <2> QED
    BY <1>4, <2>1, <2>3, <2>4 DEF CountDown
<1>5. ASSUME NEW w \in LatchWorkers, NotifyLatch(w) PROVE LatchCounts'
  <2>1. ToCountDown' = ToCountDown
    BY <1>5 DEF NotifyLatch, ToCountDown
  <2> QED
    BY <1>5, <2>1 DEF NotifyLatch
<1>6. ASSUME JoinLatchWorkers PROVE LatchCounts'
  <2>1. ToCountDown' = ToCountDown
    BY <1>6 DEF JoinLatchWorkers, ToCountDown
  <2> QED
    BY <1>6, <2>1 DEF JoinLatchWorkers
<1>7. ASSUME WaitForLatch PROVE LatchCounts'
  <2>1. ToCountDown' = ToCountDown
    BY <1>7 DEF WaitForLatch, ToCountDown
  <2> QED
    BY <1>7, <2>1 DEF WaitForLatch
<1>8. ASSUME MakeBarrier PROVE LatchCounts'
  <2>1. ToCountDown' = ToCountDown
    BY <1>8 DEF MakeBarrier, ToCountDown
  <2> QED
    BY <1>8, <2>1 DEF MakeBarrier
<1>9. ASSUME NEW w \in BarrierWorkers, StartBarrierWorker(w) PROVE LatchCounts'
  <2>1. ToCountDown' = ToCountDown
    BY <1>9 DEF StartBarrierWorker, ToCountDown
  <2> QED
    BY <1>9, <2>1 DEF StartBarrierWorker
<1>10. ASSUME BarrierWorkersStarted PROVE LatchCounts'
  <2>1. ToCountDown' = ToCountDown
    BY <1>10 DEF BarrierWorkersStarted, ToCountDown
  <2> QED
    BY <1>10, <2>1 DEF BarrierWorkersStarted
<1>11. ASSUME NEW w \in BarrierWorkers, Arrive(w) PROVE LatchCounts'
  <2>1. ToCountDown' = ToCountDown
    BY <1>11 DEF Arrive, ToCountDown
  <2> QED
    BY <1>11, <2>1 DEF Arrive
<1>12. ASSUME NEW w \in BarrierWorkers, PassBarrier(w) PROVE LatchCounts'
  <2>1. ToCountDown' = ToCountDown
    BY <1>12 DEF PassBarrier, ToCountDown
  <2> QED
    BY <1>12, <2>1 DEF PassBarrier
<1>13. ASSUME JoinBarrierWorkers PROVE LatchCounts'
  <2>1. ToCountDown' = ToCountDown
    BY <1>13 DEF JoinBarrierWorkers, ToCountDown
  <2> QED
    BY <1>13, <2>1 DEF JoinBarrierWorkers
<1>14. ASSUME UNCHANGED syncVars PROVE LatchCounts'
  BY <1>14 DEF syncVars, ToCountDown
<1> QED
  BY <1>1, <1>2, <1>3, <1>4, <1>5, <1>6, <1>7, <1>8, <1>9, <1>10, <1>11,
     <1>12, <1>13, <1>14
  DEF SyncNext, UseLatch, UseBarrier, WorkerLatch, WorkerBarrier

\* The last arrival ends the phase; until then all that arrived wait.
LEMMA BarrierStep ==
  SyncTypeOK /\ BarrierCounts /\ [SyncNext]_syncVars => BarrierCounts'
<1> SUFFICES ASSUME SyncTypeOK, BarrierCounts, [SyncNext]_syncVars
             PROVE  BarrierCounts'
  OBVIOUS
<1> USE WorkersAssumption DEF SyncTypeOK, BarrierCounts, WorkerStep, AllOf, Workers,
        creatorVars, latchVars, barrierVars
<1>1. ASSUME MakeLatch PROVE BarrierCounts'
  <2>1. ToArrive' = ToArrive
    BY <1>1 DEF MakeLatch, ToArrive
  <2> QED
    BY <1>1, <2>1 DEF MakeLatch
<1>2. ASSUME NEW w \in LatchWorkers, StartLatchWorker(w) PROVE BarrierCounts'
  <2>1. ToArrive' = ToArrive
    BY <1>2 DEF StartLatchWorker, ToArrive
  <2> QED
    BY <1>2, <2>1 DEF StartLatchWorker
<1>3. ASSUME LatchWorkersStarted PROVE BarrierCounts'
  <2>1. ToArrive' = ToArrive
    BY <1>3 DEF LatchWorkersStarted, ToArrive
  <2> QED
    BY <1>3, <2>1 DEF LatchWorkersStarted
<1>4. ASSUME NEW w \in LatchWorkers, CountDown(w) PROVE BarrierCounts'
  <2>1. ToArrive' = ToArrive
    BY <1>4 DEF CountDown, ToArrive
  <2> QED
    BY <1>4, <2>1 DEF CountDown
<1>5. ASSUME NEW w \in LatchWorkers, NotifyLatch(w) PROVE BarrierCounts'
  <2>1. ToArrive' = ToArrive
    BY <1>5 DEF NotifyLatch, ToArrive
  <2> QED
    BY <1>5, <2>1 DEF NotifyLatch
<1>6. ASSUME JoinLatchWorkers PROVE BarrierCounts'
  <2>1. ToArrive' = ToArrive
    BY <1>6 DEF JoinLatchWorkers, ToArrive
  <2> QED
    BY <1>6, <2>1 DEF JoinLatchWorkers
<1>7. ASSUME WaitForLatch PROVE BarrierCounts'
  <2>1. ToArrive' = ToArrive
    BY <1>7 DEF WaitForLatch, ToArrive
  <2> QED
    BY <1>7, <2>1 DEF WaitForLatch
<1>8. ASSUME MakeBarrier PROVE BarrierCounts'
  <2>1. ToArrive' = BarrierWorkers
    BY <1>8 DEF MakeBarrier, ToArrive
  <2> QED
    BY <1>8, <2>1 DEF MakeBarrier
<1>9. ASSUME NEW w \in BarrierWorkers, StartBarrierWorker(w) PROVE BarrierCounts'
  <2>1. ToArrive' = ToArrive
    BY <1>9 DEF StartBarrierWorker, ToArrive
  <2> QED
    BY <1>9, <2>1 DEF StartBarrierWorker
<1>10. ASSUME BarrierWorkersStarted PROVE BarrierCounts'
  <2>1. ToArrive' = ToArrive
    BY <1>10 DEF BarrierWorkersStarted, ToArrive
  <2> QED
    BY <1>10, <2>1 DEF BarrierWorkersStarted
<1>11. ASSUME NEW w \in BarrierWorkers, Arrive(w) PROVE BarrierCounts'
  <2>1. phase = 0 /\ barrier_at # "make" /\ w \in ToArrive
    BY <1>11 DEF Arrive, ToArrive
  <2>2. ToArrive' = ToArrive \ {w}
    BY <1>11 DEF Arrive, ToArrive
  <2>3. /\ Cardinality(ToArrive \ {w}) = Cardinality(ToArrive) - 1
        /\ Cardinality(ToArrive) = 1 => ToArrive = {w}
    <3>1. ToArrive \subseteq BarrierWorkers
      BY DEF ToArrive
    <3> QED
      BY <2>1, <3>1, WorkersAssumption, OneLess
  <2>4. CASE sync_point > 1
    BY <1>11, <2>1, <2>2, <2>3, <2>4 DEF Arrive
  <2>5. CASE sync_point = 1
    <3>1. AllOf(BarrierWorkers, {"wait"})'
      BY <1>11, <2>1, <2>3, <2>5 DEF Arrive, ToArrive
    <3> QED
      BY <1>11, <2>1, <2>5, <3>1 DEF Arrive
  <2> QED
    BY <1>11, <2>4, <2>5 DEF Arrive
<1>12. ASSUME NEW w \in BarrierWorkers, PassBarrier(w) PROVE BarrierCounts'
  <2>1. ToArrive' = ToArrive
    BY <1>12 DEF PassBarrier, ToArrive
  <2> QED
    BY <1>12, <2>1 DEF PassBarrier
<1>13. ASSUME JoinBarrierWorkers PROVE BarrierCounts'
  <2>1. ToArrive' = ToArrive
    BY <1>13 DEF JoinBarrierWorkers, ToArrive
  <2> QED
    BY <1>13, <2>1 DEF JoinBarrierWorkers
<1>14. ASSUME UNCHANGED syncVars PROVE BarrierCounts'
  BY <1>14 DEF syncVars, ToArrive
<1> QED
  BY <1>1, <1>2, <1>3, <1>4, <1>5, <1>6, <1>7, <1>8, <1>9, <1>10, <1>11,
     <1>12, <1>13, <1>14
  DEF SyncNext, UseLatch, UseBarrier, WorkerLatch, WorkerBarrier

\* The inductive invariant of the latch and the barrier.
THEOREM SyncInvariant == SyncSpec => []SyncIInv
<1>1. SyncInit => SyncIInv
  <2> SUFFICES ASSUME SyncInit PROVE SyncIInv
    OBVIOUS
  <2>1. /\ Cardinality(LatchWorkers) \in Nat
        /\ Cardinality(BarrierWorkers) \in Nat
    BY WorkersAssumption, FS_CardinalityType
  <2>2. SyncTypeOK
    BY <2>1, LatchCountAssumption DEF SyncInit, SyncTypeOK
  <2>3. LatchCounts /\ BarrierCounts
    BY DEF SyncInit, LatchCounts, BarrierCounts, AllOf, Workers
  <2> QED
    BY <2>2, <2>3 DEF SyncIInv
<1>2. SyncIInv /\ [SyncNext]_syncVars => SyncIInv'
  BY SyncTypeStep, LatchStep, BarrierStep DEF SyncIInv
<1> QED
  BY <1>1, <1>2, PTL DEF SyncSpec

\* Nobody uses a latch or a barrier that is gone, and nobody passes the barrier
\* before all have reached it, for any number of workers.
THEOREM SyncAliveWhileUsed == SyncSpec => []AliveWhileUsed
<1>1. SyncIInv => AliveWhileUsed
  BY DEF SyncIInv, SyncTypeOK, LatchCounts, BarrierCounts, AliveWhileUsed, AllOf
<1> QED
  BY <1>1, SyncInvariant, PTL

-----------------------------------------------------------------------------
(* splitStr and trim of TextHelpers *)

\* Min of a set of numbers is the least of them.
LEMMA Least ==
  ASSUME NEW S, S \subseteq Nat, S # {}
  PROVE  Min(S) \in S /\ \A y \in S : Min(S) <= y
<1>1. IsWellFoundedOn(OpToRel(<, Nat), Nat)
  BY NatLessThanWellFounded
<1>2. PICK x \in S : \A y \in S : ~ (<<y, x>> \in OpToRel(<, Nat))
  BY <1>1, WFMin
<1>3. \A y \in S : x <= y
  <2> TAKE y \in S
  <2>1. x \in Nat /\ y \in Nat
    BY <1>2
  <2>2. ~(y < x)
    BY <1>2, <2>1 DEF OpToRel
  <2> QED
    BY <2>1, <2>2
<1> QED
  BY <1>2, <1>3 DEF Min

\* Max of a set of numbers that has a bound is the greatest of them.
LEMMA Greatest ==
  ASSUME NEW n \in Nat, NEW S, S \subseteq 0 .. n, S # {}
  PROVE  Max(S) \in S /\ \A y \in S : Max(S) >= y
<1> DEFINE R == {n - i : i \in S}
<1>1. R \subseteq Nat /\ R # {}
  <2>1. \A i \in S : n - i \in Nat
    OBVIOUS
  <2> QED
    BY <2>1
<1>2. Min(R) \in R /\ \A y \in R : Min(R) <= y
  <2> HIDE DEF R
  <2> QED
    BY <1>1, Least
<1>3. PICK x \in S : Min(R) = n - x
  BY <1>2
<1>4. \A y \in S : x >= y
  <2> TAKE y \in S
  <2>1. n - y \in R
    OBVIOUS
  <2>2. n - x <= n - y
    BY <1>2, <1>3, <2>1
  <2> QED
    BY <2>2
<1> QED
  BY <1>4 DEF Max

\* A part of a sequence, from position m to position n.
LEMMA PartOf ==
  ASSUME NEW T, NEW s \in Seq(T), NEW m \in 1 .. Len(s) + 1, NEW n \in 0 .. Len(s)
  PROVE  /\ SubSeq(s, m, n) \in Seq(T)
         /\ Len(SubSeq(s, m, n)) = IF m <= n THEN n - m + 1 ELSE 0
         /\ \A i \in 1 .. n - m + 1 : SubSeq(s, m, n)[i] = s[m + i - 1]
<1>1. Len(s) \in Nat
  BY LenProperties
<1>2. m \in Int /\ n \in Int
  BY <1>1
<1>3. \A i \in m .. n : s[i] \in T
  BY <1>1, ElementOfSeq
<1> QED
  BY <1>2, <1>3, SubSeqProperties

\* trim takes the character from both ends, every one of it and nothing else.
THEOREM TrimTrims ==
  ASSUME NEW T, NEW str \in Seq(T), NEW char
  PROVE  IsTrimmed(Trim(str, char), str, char)
<1> DEFINE n == Len(str)
           O == Others(str, char)
           res == Trim(str, char)
<1> SUFFICES IsTrimmed(res, str, char)
  OBVIOUS
<1>1. n \in Nat /\ DOMAIN str = 1 .. n
  BY LenProperties
<1>2. O = {i \in 1 .. n : str[i] # char}
  BY <1>1 DEF Others, Positions
<1>3. ASSUME NEW i \in 0 .. n, NEW j \in i .. n,
             res = SubSeq(str, i + 1, j),
             \A k \in 1 .. n : k \notin i + 1 .. j => str[k] = char,
             i < j => str[i + 1] # char /\ str[j] # char
      PROVE  IsTrimmed(res, str, char)
  <2> HIDE DEF res
  <2>1. i + 1 \in 1 .. n + 1 /\ j \in 0 .. n /\ i \in Nat /\ j \in Nat
    BY <1>1
  <2>2. /\ res \in Seq(T) /\ Len(res) = IF i + 1 <= j THEN j - (i + 1) + 1 ELSE 0
        /\ \A k \in 1 .. j - (i + 1) + 1 : res[k] = str[(i + 1) + k - 1]
    BY <1>3, <2>1, PartOf
  <2>3. ASSUME res # <<>> PROVE Head(res) # char /\ Last(res) # char
    <3>1. Len(res) \in Nat \ {0}
      BY <2>2, <2>3, EmptySeq
    <3>2. i < j /\ Len(res) = j - i
      BY <2>1, <2>2, <3>1
    <3>3. res[1] = str[i + 1] /\ res[j - i] = str[j]
      BY <2>1, <2>2, <3>2
    <3> QED
      BY <1>3, <2>2, <3>1, <3>2, <3>3 DEF Last
  <2>4. \A k \in DOMAIN str \ (i + 1 .. j) : str[k] = char
    BY <1>1, <1>3
  <2> QED
    BY <1>3, <2>3, <2>4 DEF IsTrimmed
<1>4. CASE O = {}
  <2>1. \A k \in 1 .. n : str[k] = char
    BY <1>2, <1>4
  <2>2. res = SubSeq(str, 1, 0)
    <3>1. res = IF Positions(str, char) = {} THEN str ELSE SubSeq(str, 1, 0)
      BY <1>4 DEF Trim
    <3>2. ASSUME Positions(str, char) = {} PROVE str = SubSeq(str, 1, 0)
      <4>1. n = 0
        BY <1>1, <2>1, <3>2 DEF Positions
      <4>2. str = <<>>
        BY <4>1, EmptySeq
      <4>3. SubSeq(str, 1, 0) = <<>>
        BY SubSeqEmpty
      <4> QED
        BY <4>2, <4>3
    <3> QED
      BY <3>1, <3>2
  <2>3. 0 \in 0 .. n /\ 0 \in 0 .. 0 /\ 0 + 1 = 1 /\ ~(0 < 0)
    BY <1>1
  <2>4. /\ res = SubSeq(str, 0 + 1, 0)
        /\ \A k \in 1 .. n : k \notin 0 + 1 .. 0 => str[k] = char
    BY <2>1, <2>2
  <2> HIDE DEF res, n
  <2> QED
    BY <1>3, <2>3, <2>4
<1>5. CASE O # {}
  <2> DEFINE a == Min(O)
             front == SubSeq(str, a, n)
             F == Others(front, char)
  <2>1. a \in O /\ \A y \in O : a <= y
    <3>1. O \subseteq Nat
      BY <1>2
    <3> QED
      BY <1>5, <3>1, Least
  <2>2. a \in 1 .. n /\ str[a] # char /\ \A k \in 1 .. a - 1 : str[k] = char
    <3>1. a \in 1 .. n /\ str[a] # char
      BY <1>2, <2>1
    <3>2. ASSUME NEW k \in 1 .. a - 1 PROVE str[k] = char
      <4>1. k \in 1 .. n /\ ~(a <= k)
        BY <1>1, <3>1
      <4> QED
        BY <1>2, <2>1, <4>1
    <3> QED
      BY <3>1, <3>2
  <2> HIDE DEF a
  <2>3. /\ front \in Seq(T) /\ Len(front) = n - a + 1
        /\ \A k \in 1 .. n - a + 1 : front[k] = str[a + k - 1]
        /\ DOMAIN front = 1 .. n - a + 1
    <3>1. a \in 1 .. n + 1 /\ n \in 0 .. n /\ a <= n
      BY <1>1, <2>2
    <3>2. /\ front \in Seq(T) /\ Len(front) = n - a + 1
          /\ \A k \in 1 .. n - a + 1 : front[k] = str[a + k - 1]
      BY <3>1, PartOf
    <3> QED
      BY <3>2, LenProperties
  <2>4. res = IF Positions(front, char) = {} THEN front
              ELSE SubSeq(front, 1, IF F = {} THEN 0 ELSE Max(F))
    BY <1>5 DEF Trim, a
  <2> HIDE DEF front, res
  <2>5. F = {k \in 1 .. n - a + 1 : str[a + k - 1] # char}
    BY <2>3 DEF Others, Positions
  <2>6. CASE Positions(front, char) = {}
    <3>1. \A k \in 1 .. n - a + 1 : str[a + k - 1] # char
      BY <2>3, <2>6 DEF Positions
    <3>2. str[n] # char
      <4>1. n - a + 1 \in 1 .. n - a + 1 /\ a + (n - a + 1) - 1 = n
        BY <1>1, <2>2
      <4> QED
        BY <3>1, <4>1
    <3>3. a - 1 \in 0 .. n /\ n \in a - 1 .. n /\ (a - 1) + 1 = a
      BY <1>1, <2>2
    <3>4. res = SubSeq(str, a, n)
      BY <2>4, <2>6 DEF front
    <3>5. \A k \in 1 .. n : k \notin a .. n => str[k] = char
      BY <1>1, <2>2
    <3> DEFINE i == a - 1
    <3>6. /\ i \in 0 .. n /\ n \in i .. n
          /\ res = SubSeq(str, i + 1, n)
          /\ \A k \in 1 .. n : k \notin i + 1 .. n => str[k] = char
          /\ i < n => str[i + 1] # char /\ str[n] # char
      BY <2>2, <3>2, <3>3, <3>4, <3>5
    <3> HIDE DEF n, i
    <3> QED
      BY <1>3, <3>6
  <2>7. CASE Positions(front, char) # {}
    <3> DEFINE b == Max(F)
    <3>1. 1 \in F
      BY <1>1, <2>2, <2>5
    <3>2. b \in F /\ \A y \in F : b >= y
      <4>1. n - a + 1 \in Nat /\ F \subseteq 0 .. n - a + 1 /\ F # {}
        <5>1. n - a + 1 \in Nat
          BY <1>1, <2>2
        <5>2. F \subseteq 1 .. n - a + 1
          BY <2>5
        <5> HIDE DEF F
        <5> QED
          BY <3>1, <5>1, <5>2
      <4> HIDE DEF F
      <4> QED
        BY <4>1, Greatest
    <3>3. res = SubSeq(front, 1, b)
      BY <2>4, <2>7, <3>1
    <3> HIDE DEF b
    <3>4. /\ b \in 1 .. n - a + 1 /\ str[a + b - 1] # char
          /\ \A k \in b + 1 .. n - a + 1 : str[a + k - 1] = char
      <4>1. b \in 1 .. n - a + 1 /\ str[a + b - 1] # char
        BY <2>5, <3>2
      <4>2. ASSUME NEW k \in b + 1 .. n - a + 1 PROVE str[a + k - 1] = char
        <5>1. k \in 1 .. n - a + 1 /\ ~(b >= k)
          BY <1>1, <2>2, <4>1
        <5> QED
          BY <2>5, <3>2, <5>1
      <4> QED
        BY <4>1, <4>2
    <3> DEFINE j == a + b - 1
    <3>5. j \in a .. n
      BY <1>1, <2>2, <3>4
    <3>6. res = SubSeq(str, a, j)
      <4>1. /\ a \in 1 .. n + 1 /\ j \in 0 .. n /\ a <= j /\ j - a + 1 = b
            /\ 1 \in 1 .. Len(front) + 1 /\ b \in 0 .. Len(front) /\ 1 <= b /\ b - 1 + 1 = b
        BY <1>1, <2>2, <2>3, <3>4
      <4>2. /\ res \in Seq(T) /\ Len(res) = b
            /\ \A k \in 1 .. b : res[k] = front[1 + k - 1]
        BY <2>3, <3>3, <4>1, PartOf
      <4> DEFINE p == SubSeq(str, a, j)
      <4> HIDE DEF j
      <4>3. /\ p \in Seq(T) /\ Len(p) = b
            /\ \A k \in 1 .. b : p[k] = str[a + k - 1]
        BY <4>1, PartOf
      <4> HIDE DEF p
      <4>4. \A k \in 1 .. b : res[k] = p[k]
        <5> TAKE k \in 1 .. b
        <5>1. k \in 1 .. n - a + 1 /\ 1 + k - 1 = k
          BY <1>1, <2>2, <3>4
        <5> QED
          BY <2>3, <4>2, <4>3, <5>1
      <4>5. res = p
        BY <4>2, <4>3, <4>4, SeqEqual
      <4> QED
        BY <4>5 DEF p
    <3>7. a - 1 \in 0 .. n /\ j \in a - 1 .. n /\ (a - 1) + 1 = a
      BY <1>1, <2>2, <3>5
    <3>8. \A k \in 1 .. n : k \notin a .. j => str[k] = char
      <4> TAKE k \in 1 .. n
      <4> SUFFICES ASSUME k \notin a .. j PROVE str[k] = char
        OBVIOUS
      <4>1. CASE k < a
        BY <1>1, <2>2, <4>1
      <4>2. CASE k > j
        <5> DEFINE m == k - a + 1
        <5>1. m \in b + 1 .. n - a + 1 /\ a + m - 1 = k
          BY <1>1, <2>2, <3>4, <4>2
        <5> HIDE DEF m
        <5> QED
          BY <3>4, <5>1
      <4> QED
        BY <1>1, <2>2, <3>4, <4>1, <4>2
    <3>9. str[j] # char
      BY <3>4
    <3> DEFINE i == a - 1
    <3> HIDE DEF j
    <3>10. /\ i \in 0 .. n /\ j \in i .. n
           /\ res = SubSeq(str, i + 1, j)
           /\ \A k \in 1 .. n : k \notin i + 1 .. j => str[k] = char
           /\ i < j => str[i + 1] # char /\ str[j] # char
      BY <2>2, <3>6, <3>7, <3>8, <3>9
    <3> HIDE DEF n, i
    <3> QED
      BY <1>3, <3>10
  <2> QED
    BY <2>6, <2>7
<1> QED
  BY <1>4, <1>5

-----------------------------------------------------------------------------
(* splitStr *)

\* No delimiter begins at a position from m to n.
NoDelim(str, delim, m, n) ==
  \A i \in m .. n : SubSeq(str, i, i + Len(delim) - 1) # delim

\* find returns the first place of the delimiter, or npos when there is none.
LEMMA Finds ==
  ASSUME NEW T, NEW str \in Seq(T), NEW delim \in Seq(T), delim # <<>>,
         NEW x \in Nat \ {0}
  PROVE  LET n   == Len(str)
             d   == Len(delim)
             pos == Find(str, delim, x)
         IN  \/ pos = n + 1 /\ NoDelim(str, delim, x, n - d + 1)
             \/ /\ pos \in x .. n - d + 1 /\ pos <= n
                /\ SubSeq(str, pos, pos + d - 1) = delim
                /\ NoDelim(str, delim, x, pos - 1)
<1> DEFINE n == Len(str)
           d == Len(delim)
           pos == Find(str, delim, x)
           found == {i \in x .. n - d + 1 : SubSeq(str, i, i + d - 1) = delim}
<1>1. n \in Nat /\ d \in Nat \ {0}
  BY LenProperties, EmptySeq
<1>2. pos = IF found = {} THEN n + 1 ELSE Min(found)
  BY DEF Find
<1>3. CASE found = {}
  BY <1>2, <1>3 DEF NoDelim
<1>4. CASE found # {}
  <2>1. found \subseteq Nat
    BY <1>1
  <2>2. pos \in found /\ \A y \in found : pos <= y
    <3> HIDE DEF found
    <3> QED
      BY <1>2, <1>4, <2>1, Least
  <2> HIDE DEF pos
  <2>3. pos \in x .. n - d + 1 /\ pos <= n /\ SubSeq(str, pos, pos + d - 1) = delim
    BY <1>1, <2>2
  <2>4. ASSUME NEW i \in x .. pos - 1 PROVE SubSeq(str, i, i + d - 1) # delim
    <3>1. i \in x .. n - d + 1 /\ ~(pos <= i)
      BY <1>1, <2>3
    <3> QED
      BY <2>2, <3>1
  <2> QED
    BY <2>3, <2>4 DEF pos, NoDelim
<1> QED
  BY <1>3, <1>4

\* One call of find in splitStr at position x, when f holds what follows.
PartsAt(str, delim, f, x) ==
  LET pos == Find(str, delim, x)
  IN  IF pos > Len(str)
      THEN IF x <= Len(str) THEN <<SubSeq(str, x, Len(str))>> ELSE <<>>
      ELSE <<SubSeq(str, x, pos - 1)>> \o f[pos + Len(delim)]

\* The positions at which the search may go on.
Positioned(str, delim) == 1 .. Len(str) + Len(delim)

\* f is the function of the parts behind each position.
PartsFrom(f, str, delim) ==
  f = [x \in Positioned(str, delim) |-> PartsAt(str, delim, f, x)]

\* PartsAt looks at f only behind its position.
LEMMA LooksAhead ==
  ASSUME NEW T, NEW str \in Seq(T), NEW delim \in Seq(T), delim # <<>>,
         NEW x \in Positioned(str, delim), NEW f, NEW g,
         \A y \in Positioned(str, delim) : y > x => f[y] = g[y]
  PROVE  PartsAt(str, delim, f, x) = PartsAt(str, delim, g, x)
<1> DEFINE n == Len(str)
           d == Len(delim)
           pos == Find(str, delim, x)
<1>1. n \in Nat /\ d \in Nat \ {0} /\ x \in Nat \ {0}
  BY LenProperties, EmptySeq DEF Positioned
<1>2. \/ pos = n + 1
      \/ pos \in x .. n - d + 1 /\ pos <= n
  BY <1>1, Finds
<1>3. CASE pos = n + 1
  BY <1>1, <1>3 DEF PartsAt
<1>4. CASE pos \in x .. n - d + 1 /\ pos <= n
  <2>1. pos + d \in Positioned(str, delim) /\ pos + d > x
    BY <1>1, <1>4 DEF Positioned
  <2>2. f[pos + d] = g[pos + d]
    BY <2>1
  <2> QED
    BY <2>2 DEF PartsAt
<1> QED
  BY <1>2, <1>3, <1>4

\* There is such a function, for any string and delimiter.
LEMMA PartsExist ==
  ASSUME NEW T, NEW str \in Seq(T), NEW delim \in Seq(T), delim # <<>>
  PROVE  \E f : PartsFrom(f, str, delim)
<1> DEFINE N == Len(str) + Len(delim)
           D == Positioned(str, delim)
           Holds(f, k) == /\ DOMAIN f = D
                          /\ \A x \in D : x > N - k => f[x] = PartsAt(str, delim, f, x)
           S == {k \in Nat : \E f : f = [x \in D |-> f[x]] /\ Holds(f, k)}
<1>1. N \in Nat /\ D = 1 .. N
  BY LenProperties DEF Positioned
<1>2. 0 \in S
  <2> DEFINE f == [x \in D |-> x]
  <2>1. f = [x \in D |-> f[x]] /\ Holds(f, 0)
    BY <1>1
  <2> HIDE DEF f, Holds
  <2> QED
    BY <2>1
<1>3. ASSUME NEW k \in Nat, k \in S PROVE k + 1 \in S
  <2>1. PICK f : f = [x \in D |-> f[x]] /\ Holds(f, k)
    BY <1>3
  <2> DEFINE y == N - k
             g == [x \in D |-> IF x = y THEN PartsAt(str, delim, f, x) ELSE f[x]]
  <2>2. \A x \in D : x > y => g[x] = f[x] /\ x # y
    BY <1>1
  <2>3. \A x \in D : x > N - (k + 1) => x > y \/ x = y
    BY <1>1
  <2>4. ASSUME NEW x \in D, x > y \/ x = y PROVE g[x] = PartsAt(str, delim, g, x)
    <3>1. \A z \in D : z > x => f[z] = g[z]
      BY <1>1, <2>2, <2>4
    <3> HIDE DEF g
    <3>2. PartsAt(str, delim, f, x) = PartsAt(str, delim, g, x)
      BY <3>1, LooksAhead
    <3>3. CASE x = y
      BY <3>2, <3>3 DEF g
    <3>4. CASE x > y
      BY <2>1, <2>2, <3>2, <3>4
    <3> QED
      BY <2>4, <3>3, <3>4
  <2>5. g = [x \in D |-> g[x]] /\ DOMAIN g = D
    OBVIOUS
  <2> HIDE DEF g, y
  <2>6. Holds(g, k + 1)
    BY <2>3, <2>4, <2>5
  <2> HIDE DEF Holds
  <2> QED
    BY <2>5, <2>6
<1>4. Nat \subseteq S
  <2> HIDE DEF S
  <2> QED
    BY <1>2, <1>3, NaturalsInSet
<1>5. PICK f : f = [x \in D |-> f[x]] /\ Holds(f, N)
  BY <1>1, <1>4
<1>6. \A x \in D : f[x] = PartsAt(str, delim, f, x)
  BY <1>1, <1>5
<1>7. f = [x \in D |-> PartsAt(str, delim, f, x)]
  BY <1>5, <1>6
<1> QED
  BY <1>7 DEF PartsFrom

\* splitStr returns the parts behind the first position.
LEMMA SplitIsParts ==
  ASSUME NEW T, NEW str \in Seq(T), NEW delim \in Seq(T), delim # <<>>
  PROVE  \E f : PartsFrom(f, str, delim) /\ SplitStr(str, delim) = f[1]
<1> DEFINE Body(f) ==
             [prepos \in 1 .. Len(str) + Len(delim) |->
                LET pos == Find(str, delim, prepos)
                IN  IF pos > Len(str)
                    THEN IF prepos <= Len(str) THEN <<SubSeq(str, prepos, Len(str))>>
                         ELSE <<>>
                    ELSE <<SubSeq(str, prepos, pos - 1)>> \o f[pos + Len(delim)]]
           parts == CHOOSE f : f = Body(f)
<1>1. \A f : PartsFrom(f, str, delim) <=> f = Body(f)
  BY DEF PartsFrom, PartsAt, Positioned
<1>2. SplitStr(str, delim) = parts[1]
  BY DEF SplitStr
<1> HIDE DEF Body
<1>3. parts = Body(parts)
  BY <1>1, PartsExist
<1> HIDE DEF parts
<1> QED
  BY <1>1, <1>2, <1>3

\* The parts with the delimiter behind each of them.
Joined(parts, delim) == FlattenSeq([i \in DOMAIN parts |-> parts[i] \o delim])

\* Nothing joined is nothing.
LEMMA JoinedNothing ==
  ASSUME NEW delim
  PROVE  Joined(<<>>, delim) = <<>>
<1> DEFINE s == [i \in DOMAIN <<>> |-> <<>>[i] \o delim]
<1>1. s = <<>>
  OBVIOUS
<1>2. Len(<<>>) = 0
  OBVIOUS
<1>3. FlattenSeq(<<>>) = <<>>
  BY <1>2 DEF FlattenSeq
<1> QED
  BY <1>1, <1>3 DEF Joined

\* The part a before the parts p, with a delimiter behind it.
ComesFirst(a, p, delim, T) ==
  /\ <<a>> \o p \in Seq(Seq(T)) /\ Joined(p, delim) \in Seq(T)
  /\ Joined(<<a>> \o p, delim) = (a \o delim) \o Joined(p, delim)

\* One more part comes first when the parts are joined.
LEMMA JoinedMore ==
  ASSUME NEW T, NEW delim \in Seq(T), NEW a \in Seq(T), NEW p \in Seq(Seq(T))
  PROVE  ComesFirst(a, p, delim, T)
<1> DEFINE q == <<a>> \o p
           s == [i \in DOMAIN q |-> q[i] \o delim]
           r == [i \in DOMAIN p |-> p[i] \o delim]
<1>1. /\ q \in Seq(Seq(T)) /\ Len(q) = Len(p) + 1 /\ Len(p) \in Nat
      /\ q[1] = a /\ \A i \in 1 .. Len(p) : q[i + 1] = p[i] /\ p[i] \in Seq(T)
      /\ DOMAIN q = 1 .. Len(q) /\ DOMAIN p = 1 .. Len(p)
  <2>1. <<a>> \in Seq(Seq(T)) /\ Len(<<a>>) = 1 /\ <<a>>[1] = a
    OBVIOUS
  <2>2. Len(p) \in Nat /\ \A i \in 1 .. Len(p) : p[i] \in Seq(T)
    BY LenProperties, ElementOfSeq
  <2> DEFINE e == <<a>>
  <2> HIDE DEF e
  <2>3. /\ e \o p \in Seq(Seq(T)) /\ Len(e \o p) = Len(e) + Len(p)
        /\ \A i \in 1 .. Len(e) + Len(p) :
             (e \o p)[i] = IF i <= Len(e) THEN e[i] ELSE p[i - Len(e)]
    BY <2>1, ConcatProperties DEF e
  <2>4. Len(e) = 1 /\ e[1] = a
    BY <2>1 DEF e
  <2>5. q = e \o p
    BY DEF e
  <2> HIDE DEF q
  <2>6. q \in Seq(Seq(T)) /\ Len(q) = Len(p) + 1 /\ q[1] = a
    BY <2>2, <2>3, <2>4, <2>5
  <2>7. \A i \in 1 .. Len(p) : q[i + 1] = p[i]
    <3> TAKE i \in 1 .. Len(p)
    <3> DEFINE j == i + 1
    <3>1. j \in 1 .. 1 + Len(p) /\ ~(j <= 1) /\ j - 1 = i
      BY <2>2
    <3> HIDE DEF j
    <3>2. q[j] = p[j - 1]
      BY <2>3, <2>4, <2>5, <3>1
    <3> QED
      BY <3>1, <3>2 DEF j
  <2> QED
    BY <2>2, <2>6, <2>7, LenProperties
<1> HIDE DEF q
<1>2. \A i \in 1 .. Len(p) : p[i] \o delim \in Seq(T)
  BY <1>1, ConcatProperties
<1>3. a \o delim \in Seq(T)
  BY ConcatProperties
<1>4. r \in Seq(Seq(T)) /\ Len(r) = Len(p)
  BY <1>1, <1>2
<1>5. \A i \in 1 .. Len(q) : i = 1 \/ (i - 1 \in 1 .. Len(p) /\ (i - 1) + 1 = i)
  BY <1>1
<1>6. \A i \in 1 .. Len(q) : q[i] \o delim \in Seq(T)
  BY <1>1, <1>2, <1>3, <1>5
<1>7. s \in Seq(Seq(T)) /\ Len(s) = Len(q) /\ s # <<>> /\ s[1] = a \o delim
  <2>1. s \in Seq(Seq(T)) /\ Len(s) = Len(q)
    BY <1>1, <1>6
  <2>2. 1 \in DOMAIN q /\ Len(q) # 0
    BY <1>1
  <2>3. s[1] = a \o delim
    BY <1>1, <2>2
  <2> HIDE DEF s
  <2> QED
    BY <2>1, <2>2, <2>3, EmptySeq
<1>8. \A i \in 1 .. Len(r) : r[i] = s[i + 1]
  <2> TAKE i \in 1 .. Len(r)
  <2> DEFINE j == i + 1
  <2>1. i \in 1 .. Len(p) /\ j \in 1 .. Len(q)
    BY <1>1, <1>4
  <2>2. r[i] = p[i] \o delim
    BY <1>1, <2>1
  <2>3. q[j] = p[i]
    BY <1>1, <2>1
  <2> HIDE DEF j
  <2>4. s[j] = q[j] \o delim
    BY <1>1, <2>1
  <2> QED
    BY <2>2, <2>3, <2>4 DEF j
<1> HIDE DEF s, r
<1>9. Tail(s) = r
  <2>1. /\ Tail(s) \in Seq(Seq(T)) /\ Len(Tail(s)) = Len(s) - 1
        /\ \A i \in 1 .. Len(Tail(s)) : Tail(s)[i] = s[i + 1]
    BY <1>7, HeadTailProperties
  <2>2. Len(Tail(s)) = Len(r)
    BY <1>1, <1>4, <1>7, <2>1
  <2>3. \A i \in 1 .. Len(Tail(s)) : Tail(s)[i] = r[i]
    BY <1>8, <2>1, <2>2
  <2> DEFINE t == Tail(s)
  <2> HIDE DEF t
  <2>4. t = r
    BY <1>4, <2>1, <2>2, <2>3, SeqEqual DEF t
  <2> QED
    BY <2>4 DEF t
<1>10. FlattenSeq(r) \in Seq(T) /\ FlattenSeq(s) = s[1] \o FlattenSeq(r)
  BY <1>7, <1>9, FlattenHead
<1>11. Joined(q, delim) = FlattenSeq(s) /\ Joined(p, delim) = FlattenSeq(r)
  BY DEF Joined, s, r
<1> QED
  BY <1>1, <1>7, <1>10, <1>11 DEF ComesFirst, q

\* Where there is no delimiter none is found.
LEMMA NotFound ==
  ASSUME NEW T, NEW delim \in Seq(T), delim # <<>>, NEW a \in Seq(T),
         NoDelim(a, delim, 1, Len(a) - Len(delim) + 1)
  PROVE  Find(a, delim, 1) > Len(a)
<1> DEFINE n == Len(a)
           d == Len(delim)
           pos == Find(a, delim, 1)
<1>1. n \in Nat /\ 1 \in Nat \ {0}
  BY LenProperties
<1>2. \/ pos = n + 1
      \/ pos \in 1 .. n - d + 1 /\ SubSeq(a, pos, pos + d - 1) = delim
  BY <1>1, Finds
<1> HIDE DEF pos
<1>3. ~(pos \in 1 .. n - d + 1 /\ SubSeq(a, pos, pos + d - 1) = delim)
  BY DEF NoDelim
<1>4. pos > n
  BY <1>1, <1>2, <1>3
<1> QED
  BY <1>4 DEF pos

\* What is behind the last delimiter is split by itself.
LEMMA SplitLast ==
  ASSUME NEW T, NEW delim \in Seq(T), delim # <<>>, NEW a \in Seq(T), a # <<>>,
         NoDelim(a, delim, 1, Len(a) - Len(delim) + 1)
  PROVE  IsSplit(<<a>>, a, delim)
<1>1. Joined(<<a>>, delim) = a \o delim
  <2>1. <<>> \in Seq(Seq(T)) /\ <<a>> \o <<>> = <<a>>
    OBVIOUS
  <2>2. a \o delim \in Seq(T)
    BY ConcatProperties
  <2>3. (a \o delim) \o <<>> = a \o delim
    BY <2>2, ConcatEmptySeq
  <2>4. ComesFirst(a, <<>>, delim, T)
    BY <2>1, JoinedMore
  <2>5. Joined(<<a>> \o <<>>, delim) = (a \o delim) \o Joined(<<>>, delim)
    BY <2>4 DEF ComesFirst
  <2> QED
    BY <2>1, <2>3, <2>5, JoinedNothing
<1>2. Find(a, delim, 1) > Len(a)
  BY NotFound
<1>3. DOMAIN <<a>> = {1} /\ <<a>>[1] = a /\ Len(<<a>>) = 1
  OBVIOUS
<1> QED
  BY <1>1, <1>2, <1>3 DEF IsSplit, Joined, Last

\* Nothing is split into nothing.
LEMMA SplitNothing ==
  ASSUME NEW T, NEW delim \in Seq(T)
  PROVE  IsSplit(<<>>, <<>>, delim)
<1>1. DOMAIN <<>> = {}
  OBVIOUS
<1> QED
  BY <1>1, JoinedNothing DEF IsSplit, Joined

\* A part and a delimiter are split off.
LEMMA SplitOff ==
  ASSUME NEW T, NEW delim \in Seq(T), delim # <<>>, NEW a \in Seq(T),
         NoDelim(a, delim, 1, Len(a) - Len(delim) + 1),
         NEW rest \in Seq(T), NEW p \in Seq(Seq(T)), IsSplit(p, rest, delim)
  PROVE  IsSplit(<<a>> \o p, (a \o delim) \o rest, delim)
<1> DEFINE q == <<a>> \o p
           b == a \o delim
           str == b \o rest
           j == Joined(p, delim)
<1>1. /\ q \in Seq(Seq(T)) /\ j \in Seq(T) /\ Joined(q, delim) = b \o j
  <2>1. ComesFirst(a, p, delim, T)
    BY JoinedMore
  <2> QED
    BY <2>1 DEF ComesFirst
<1>2. b \in Seq(T)
  BY ConcatProperties
<1>3. j = rest \/ j = rest \o delim
  BY DEF IsSplit, Joined
<1>4. b \o (rest \o delim) = str \o delim
  <2> HIDE DEF b
  <2>1. \A u, v, w \in Seq(T) : (u \o v) \o w = u \o (v \o w)
    BY SMTT(30), Associative
  <2> QED
    BY <1>2, <2>1
<1>5. Joined(q, delim) \in {str, str \o delim} /\ (j = rest => Joined(q, delim) = str)
  BY <1>1, <1>3, <1>4
<1>6. Find(a, delim, 1) > Len(a)
  BY NotFound
<1>7. /\ Len(q) = Len(p) + 1 /\ Len(p) \in Nat /\ DOMAIN p = 1 .. Len(p)
      /\ DOMAIN q = 1 .. Len(p) + 1 /\ q[1] = a
      /\ \A i \in 2 .. Len(p) + 1 : q[i] = p[i - 1]
  <2> DEFINE e == <<a>>
  <2>1. e \in Seq(Seq(T)) /\ Len(e) = 1 /\ e[1] = a
    OBVIOUS
  <2>2. q = e \o p
    OBVIOUS
  <2>3. Len(p) \in Nat /\ DOMAIN p = 1 .. Len(p) /\ DOMAIN q = 1 .. Len(q)
    BY <1>1, LenProperties
  <2> HIDE DEF e, q
  <2>4. /\ Len(e \o p) = Len(e) + Len(p)
        /\ \A i \in 1 .. Len(e) + Len(p) :
             (e \o p)[i] = IF i <= Len(e) THEN e[i] ELSE p[i - Len(e)]
    BY <2>1, ConcatProperties
  <2>5. /\ Len(q) = 1 + Len(p)
        /\ \A i \in 1 .. 1 + Len(p) : q[i] = IF i <= 1 THEN e[i] ELSE p[i - 1]
    BY <2>1, <2>2, <2>4
  <2>6. Len(q) = Len(p) + 1 /\ 1 \in 1 .. 1 + Len(p) /\ q[1] = a
    BY <2>1, <2>3, <2>5
  <2>7. \A i \in 2 .. Len(p) + 1 : q[i] = p[i - 1]
    <3> TAKE i \in 2 .. Len(p) + 1
    <3>1. i \in 1 .. 1 + Len(p) /\ ~(i <= 1)
      BY <2>3
    <3> QED
      BY <2>5, <3>1
  <2> QED
    BY <2>3, <2>6, <2>7
<1> HIDE DEF q, b, j, str
<1>8. \A i \in DOMAIN q : Find(q[i], delim, 1) > Len(q[i])
  <2> TAKE i \in DOMAIN q
  <2>1. CASE i = 1
    BY <1>6, <1>7, <2>1
  <2>2. CASE i # 1
    <3>1. i \in 2 .. Len(p) + 1 /\ i - 1 \in DOMAIN p
      BY <1>7, <2>2
    <3>2. Find(p[i - 1], delim, 1) > Len(p[i - 1])
      BY <3>1 DEF IsSplit
    <3> QED
      BY <1>7, <3>1, <3>2
  <2> QED
    BY <2>1, <2>2
<1>9. Last(q) # <<>> \/ Joined(q, delim) = str
  <2>1. CASE p = <<>>
    <3>1. j = <<>>
      BY <2>1, JoinedNothing DEF j
    <3>2. rest \o delim # <<>>
      BY ConcatEqualIffEmpty
    <3> QED
      BY <1>3, <1>5, <3>1, <3>2
  <2>2. CASE p # <<>>
    <3>1. Len(p) # 0
      BY <2>2, EmptySeq
    <3>2. Last(q) = Last(p)
      <4>1. Len(p) + 1 \in 2 .. Len(p) + 1 /\ (Len(p) + 1) - 1 = Len(p)
        BY <1>7, <3>1
      <4> QED
        BY <1>7, <4>1 DEF Last
    <3>3. Last(p) # <<>> \/ j = rest
      BY <2>2 DEF IsSplit, Joined, j
    <3> QED
      BY <1>5, <3>2, <3>3
  <2> QED
    BY <2>1, <2>2
<1>10. IsSplit(q, str, delim)
  BY <1>5, <1>8, <1>9 DEF IsSplit, Joined
<1> QED
  BY <1>10 DEF q, str, b

\* A part of a sequence is cut in two behind position m.
LEMMA CutInTwo ==
  ASSUME NEW T, NEW s \in Seq(T), NEW n \in 0 .. Len(s), NEW m \in 0 .. n,
         NEW x \in 1 .. m + 1
  PROVE  SubSeq(s, x, n) = SubSeq(s, x, m) \o SubSeq(s, m + 1, n)
<1> DEFINE w == SubSeq(s, x, n)
           a == SubSeq(s, x, m)
           b == SubSeq(s, m + 1, n)
<1>1. /\ Len(s) \in Nat /\ x \in 1 .. Len(s) + 1 /\ m \in 0 .. Len(s)
      /\ m + 1 \in 1 .. Len(s) + 1 /\ m \in Nat /\ n \in Nat /\ x \in Nat
  BY LenProperties
<1>2. /\ w \in Seq(T) /\ Len(w) = n - x + 1
      /\ \A i \in 1 .. n - x + 1 : w[i] = s[x + i - 1]
  <2>1. (IF x <= n THEN n - x + 1 ELSE 0) = n - x + 1
    BY <1>1
  <2> QED
    BY <1>1, <2>1, PartOf
<1>3. /\ a \in Seq(T) /\ Len(a) = m - x + 1
      /\ \A i \in 1 .. m - x + 1 : a[i] = s[x + i - 1]
  <2>1. (IF x <= m THEN m - x + 1 ELSE 0) = m - x + 1
    BY <1>1
  <2> QED
    BY <1>1, <2>1, PartOf
<1>4. /\ b \in Seq(T) /\ Len(b) = n - m
      /\ \A i \in 1 .. n - m : b[i] = s[m + i]
  <2> DEFINE k == m + 1
  <2>1. /\ (IF k <= n THEN n - k + 1 ELSE 0) = n - m
        /\ \A i \in 1 .. n - m : i \in 1 .. n - k + 1 /\ k + i - 1 = m + i
    BY <1>1
  <2>2. k \in 1 .. Len(s) + 1
    BY <1>1
  <2> HIDE DEF k
  <2>3. /\ SubSeq(s, k, n) \in Seq(T)
        /\ Len(SubSeq(s, k, n)) = IF k <= n THEN n - k + 1 ELSE 0
        /\ \A i \in 1 .. n - k + 1 : SubSeq(s, k, n)[i] = s[k + i - 1]
    BY <1>1, <2>2, PartOf
  <2>4. b = SubSeq(s, k, n)
    BY DEF k
  <2> HIDE DEF b
  <2> QED
    BY <2>1, <2>3, <2>4
<1> HIDE DEF w, a, b
<1>5. /\ a \o b \in Seq(T) /\ Len(a \o b) = Len(a) + Len(b)
      /\ \A i \in 1 .. Len(a) + Len(b) :
           (a \o b)[i] = IF i <= Len(a) THEN a[i] ELSE b[i - Len(a)]
  BY <1>3, <1>4, ConcatProperties
<1>6. \A i \in 1 .. Len(w) : w[i] = (a \o b)[i]
  <2> TAKE i \in 1 .. Len(w)
  <2>1. i \in 1 .. n - x + 1 /\ i \in 1 .. Len(a) + Len(b)
    BY <1>1, <1>2, <1>3, <1>4
  <2>2. CASE i <= Len(a)
    <3>1. i \in 1 .. m - x + 1
      BY <1>1, <1>3, <2>1, <2>2
    <3> QED
      BY <1>2, <1>3, <1>5, <2>1, <2>2, <3>1
  <2>3. CASE ~(i <= Len(a))
    <3> DEFINE j == i - Len(a)
    <3>1. j \in 1 .. n - m /\ m + j = x + i - 1
      BY <1>1, <1>3, <2>1, <2>3
    <3>2. (a \o b)[i] = b[j]
      BY <1>5, <2>1, <2>3
    <3> HIDE DEF j
    <3> QED
      BY <1>2, <1>4, <2>1, <3>1, <3>2
  <2> QED
    BY <2>2, <2>3
<1>7. w = a \o b
  <2> DEFINE c == a \o b
  <2>1. /\ c \in Seq(T) /\ Len(c) = Len(a) + Len(b)
        /\ \A i \in 1 .. Len(w) : w[i] = c[i]
    BY <1>5, <1>6
  <2> HIDE DEF c
  <2>2. Len(w) = Len(c)
    BY <1>1, <1>2, <1>3, <1>4, <2>1
  <2>3. w = c
    BY <1>2, <2>1, <2>2, SeqEqual
  <2> QED
    BY <2>3 DEF c
<1> QED
  BY <1>7 DEF w, a, b

\* Where no delimiter begins in str, none begins in the part from x to m.
LEMMA NoDelimInPart ==
  ASSUME NEW T, NEW str \in Seq(T), NEW delim \in Seq(T),
         NEW m \in 0 .. Len(str), NEW x \in 1 .. m + 1,
         NoDelim(str, delim, x, m - Len(delim) + 1)
  PROVE  LET a == SubSeq(str, x, m)
         IN  a \in Seq(T) /\ NoDelim(a, delim, 1, Len(a) - Len(delim) + 1)
<1> DEFINE a == SubSeq(str, x, m)
           d == Len(delim)
<1>1. Len(str) \in Nat /\ d \in Nat /\ x \in 1 .. Len(str) + 1 /\ m \in Nat /\ x \in Nat
  BY LenProperties
<1>2. /\ a \in Seq(T) /\ Len(a) = m - x + 1
      /\ \A i \in 1 .. m - x + 1 : a[i] = str[x + i - 1]
  <2>1. (IF x <= m THEN m - x + 1 ELSE 0) = m - x + 1
    BY <1>1
  <2> QED
    BY <1>1, <2>1, PartOf
<1> HIDE DEF a
<1>3. ASSUME NEW i \in 1 .. Len(a) - d + 1 PROVE SubSeq(a, i, i + d - 1) # delim
  <2> DEFINE k == x + i - 1
             e == i + d - 1
             l == k + d - 1
             p == SubSeq(a, i, e)
             q == SubSeq(str, k, l)
  <2>1. /\ k \in x .. m - d + 1 /\ i \in 1 .. Len(a) + 1 /\ e \in 0 .. Len(a)
        /\ k \in 1 .. Len(str) + 1 /\ l \in 0 .. Len(str)
        /\ e - i + 1 = d /\ l - k + 1 = d
        /\ (IF i <= e THEN e - i + 1 ELSE 0) = d
        /\ (IF k <= l THEN l - k + 1 ELSE 0) = d
    BY <1>1, <1>2
  <2>2. \A j \in 1 .. d : i + j - 1 \in 1 .. m - x + 1 /\ x + (i + j - 1) - 1 = k + j - 1
    <3> TAKE j \in 1 .. d
    <3>1. m - x + 1 \in Int /\ i \in 1 .. (m - x + 1) - d + 1
      BY <1>1, <1>2
    <3> QED
      BY <1>1, <3>1
  <2>3. q # delim
    BY <2>1 DEF NoDelim
  <2> HIDE DEF k, e, l
  <2>4. /\ p \in Seq(T) /\ Len(p) = d
        /\ \A j \in 1 .. d : p[j] = a[i + j - 1]
    <3>1. /\ p \in Seq(T) /\ Len(p) = IF i <= e THEN e - i + 1 ELSE 0
          /\ \A j \in 1 .. e - i + 1 : p[j] = a[i + j - 1]
      BY SMTT(30), <1>2, <2>1, PartOf
    <3> HIDE DEF p
    <3> QED
      BY <2>1, <3>1
  <2>5. /\ q \in Seq(T) /\ Len(q) = d
        /\ \A j \in 1 .. d : q[j] = str[k + j - 1]
    <3>1. /\ q \in Seq(T) /\ Len(q) = IF k <= l THEN l - k + 1 ELSE 0
          /\ \A j \in 1 .. l - k + 1 : q[j] = str[k + j - 1]
      BY <2>1, PartOf
    <3> HIDE DEF q
    <3> QED
      BY <2>1, <3>1
  <2>6. \A j \in 1 .. d : p[j] = q[j]
    BY <1>2, <2>2, <2>4, <2>5
  <2> HIDE DEF p, q
  <2>7. p = q
    BY <2>4, <2>5, <2>6, SeqEqual
  <2> QED
    BY <2>3, <2>7 DEF p, e
<1>4. NoDelim(a, delim, 1, Len(a) - d + 1)
  BY <1>3 DEF NoDelim
<1> QED
  BY <1>2, <1>4 DEF a

\* f splits what is behind position x.
SplitsFrom(f, str, delim, T, x) ==
  f[x] \in Seq(Seq(T)) /\ IsSplit(f[x], SubSeq(str, x, Len(str)), delim)

\* It does so if it does behind every later position.
LEMMA SplitsBefore ==
  ASSUME NEW T, NEW str \in Seq(T), NEW delim \in Seq(T), delim # <<>>,
         NEW f, PartsFrom(f, str, delim), NEW x \in 1 .. Len(str) + 1,
         \A y \in 1 .. Len(str) + 1 : y > x => SplitsFrom(f, str, delim, T, y)
  PROVE  SplitsFrom(f, str, delim, T, x)
<1> DEFINE n == Len(str)
           d == Len(delim)
           pos == Find(str, delim, x)
           rest == SubSeq(str, x, n)
<1>0. \A u, v, w \in Seq(T) : (u \o v) \o w = u \o (v \o w)
  BY SMTT(30), Associative
<1>1. n \in Nat /\ d \in Nat \ {0} /\ x \in Nat \ {0} /\ n \in 0 .. n /\ x \in 1 .. n + 1
  BY LenProperties, EmptySeq
<1>2. f[x] = PartsAt(str, delim, f, x)
  <2>1. x \in Positioned(str, delim)
    BY <1>1 DEF Positioned
  <2>2. \A z \in Positioned(str, delim) : f[z] = PartsAt(str, delim, f, z)
    <3> DEFINE g == [z \in Positioned(str, delim) |-> PartsAt(str, delim, f, z)]
    <3>1. f = g
      BY DEF PartsFrom
    <3>2. \A z \in Positioned(str, delim) : g[z] = PartsAt(str, delim, f, z)
      OBVIOUS
    <3> QED
      BY <3>1, <3>2
  <2> QED
    BY <2>1, <2>2
<1>3. \/ pos = n + 1 /\ NoDelim(str, delim, x, n - d + 1)
      \/ /\ pos \in x .. n - d + 1 /\ pos <= n
         /\ SubSeq(str, pos, pos + d - 1) = delim
         /\ NoDelim(str, delim, x, pos - 1)
  BY <1>1, Finds
<1>4. CASE pos = n + 1 /\ NoDelim(str, delim, x, n - d + 1)
  <2>1. f[x] = IF x <= n THEN <<rest>> ELSE <<>>
    BY <1>1, <1>2, <1>4 DEF PartsAt
  <2>2. rest \in Seq(T) /\ NoDelim(rest, delim, 1, Len(rest) - d + 1)
    BY <1>1, <1>4, NoDelimInPart
  <2>3. Len(rest) = IF x <= n THEN n - x + 1 ELSE 0
    BY <1>1, PartOf
  <2> HIDE DEF rest
  <2>4. CASE x <= n
    <3>1. rest # <<>>
      <4>1. Len(rest) # 0
        BY <1>1, <2>3, <2>4
      <4>2. Len(<<>>) = 0
        OBVIOUS
      <4> QED
        BY <4>1, <4>2
    <3>2. f[x] = <<rest>>
      BY <2>1, <2>4
    <3>3. IsSplit(<<rest>>, rest, delim)
      BY <2>2, <3>1, SplitLast
    <3>4. <<rest>> \in Seq(Seq(T))
      BY <2>2
    <3> QED
      BY <3>2, <3>3, <3>4 DEF SplitsFrom, rest
  <2>5. CASE ~(x <= n)
    <3>1. rest = <<>>
      BY <2>2, <2>3, <2>5, EmptySeq
    <3>2. f[x] = <<>>
      BY <2>1, <2>5
    <3>3. IsSplit(<<>>, <<>>, delim)
      BY SplitNothing
    <3>4. <<>> \in Seq(Seq(T))
      BY EmptySeq
    <3> QED
      BY <3>1, <3>2, <3>3, <3>4 DEF SplitsFrom, rest
  <2> QED
    BY <2>4, <2>5
<1>5. CASE /\ pos \in x .. n - d + 1 /\ pos <= n
           /\ SubSeq(str, pos, pos + d - 1) = delim
           /\ NoDelim(str, delim, x, pos - 1)
  <2> DEFINE y == pos + d
             a == SubSeq(str, x, pos - 1)
             behind == SubSeq(str, y, n)
  <2>1. f[x] = <<a>> \o f[y]
    <3>1. PartsAt(str, delim, f, x) =
            IF pos > n THEN IF x <= n THEN <<rest>> ELSE <<>> ELSE <<a>> \o f[y]
      BY DEF PartsAt
    <3>2. ~(pos > n)
      BY <1>1, <1>5
    <3> HIDE DEF pos, rest, a, y, n
    <3> QED
      BY <1>2, <3>1, <3>2
  <2>2. y \in 1 .. n + 1 /\ y > x
    BY <1>1, <1>5
  <2>3. f[y] \in Seq(Seq(T)) /\ IsSplit(f[y], behind, delim)
    BY <2>2 DEF SplitsFrom
  <2> HIDE DEF pos
  <2>4. a \in Seq(T) /\ NoDelim(a, delim, 1, Len(a) - d + 1)
    <3> DEFINE m == pos - 1
    <3>1. m \in 0 .. n /\ x \in 1 .. m + 1 /\ m - d + 1 \in Int /\ m - d + 1 <= m
      BY <1>1, <1>5
    <3>2. NoDelim(str, delim, x, m - d + 1)
      BY <1>1, <1>5, <3>1 DEF NoDelim
    <3> HIDE DEF m
    <3>3. LET c == SubSeq(str, x, m)
          IN  c \in Seq(T) /\ NoDelim(c, delim, 1, Len(c) - d + 1)
      BY <3>1, <3>2, NoDelimInPart
    <3> QED
      BY <3>3 DEF m
  <2>5. behind \in Seq(T)
    BY <1>1, <2>2, PartOf
  <2>6. rest = (a \o delim) \o behind
    <3> DEFINE m == pos - 1
               e == y - 1
               t == SubSeq(str, pos, n)
    <3>1. /\ m \in 0 .. n /\ x \in 1 .. m + 1 /\ m + 1 = pos
          /\ e \in 0 .. n /\ pos \in 1 .. e + 1 /\ e + 1 = y /\ e = pos + d - 1
      BY <1>1, <1>5
    <3> HIDE DEF y
    <3>2. t = SubSeq(str, pos, e) \o SubSeq(str, e + 1, n)
      <4> HIDE DEF e
      <4> QED
        BY <1>1, <3>1, CutInTwo
    <3>3. t = delim \o behind
      BY <1>5, <3>1, <3>2
    <3>4. rest = SubSeq(str, x, m) \o SubSeq(str, m + 1, n)
      <4> HIDE DEF m
      <4> QED
        BY <1>1, <3>1, CutInTwo
    <3>5. rest = a \o t
      BY <3>1, <3>4
    <3> HIDE DEF a, t, behind, rest
    <3>6. (a \o delim) \o behind = a \o (delim \o behind)
      <4>1. a \in Seq(T) /\ behind \in Seq(T)
        BY <2>4, <2>5
      <4> QED
        BY <4>1, <1>0
    <3> QED
      BY <3>3, <3>5, <3>6
  <2> DEFINE p == f[y]
             w == (a \o delim) \o behind
  <2>7. p \in Seq(Seq(T)) /\ IsSplit(p, behind, delim) /\ f[x] = <<a>> \o p /\ rest = w
    BY <2>1, <2>3, <2>6
  <2> HIDE DEF a, p, behind
  <2>8. IsSplit(<<a>> \o p, w, delim)
    BY <2>4, <2>5, <2>7, SplitOff
  <2>9. <<a>> \o p \in Seq(Seq(T))
    <3>1. ComesFirst(a, p, delim, T)
      BY <2>4, <2>7, JoinedMore
    <3> QED
      BY <3>1 DEF ComesFirst
  <2> HIDE DEF w
  <2> QED
    BY <2>7, <2>8, <2>9 DEF SplitsFrom
<1> QED
  BY <1>3, <1>4, <1>5

\* splitStr splits: its parts are those between the delimiters.
THEOREM SplitSplits ==
  ASSUME NEW T, NEW str \in Seq(T), NEW delim \in Seq(T), delim # <<>>
  PROVE  SplitStr(str, delim) \in Seq(Seq(T)) /\ IsSplit(SplitStr(str, delim), str, delim)
<1>1. PICK f : PartsFrom(f, str, delim) /\ SplitStr(str, delim) = f[1]
  BY SplitIsParts
<1> DEFINE n == Len(str)
           S == {k \in Nat : \A x \in 1 .. n + 1 :
                               n + 1 - x <= k => SplitsFrom(f, str, delim, T, x)}
<1>2. n \in Nat
  BY LenProperties
<1>3. 0 \in S
  <2>1. ASSUME NEW x \in 1 .. n + 1, n + 1 - x <= 0 PROVE SplitsFrom(f, str, delim, T, x)
    <3>1. \A y \in 1 .. n + 1 : ~(y > x)
      BY <1>2, <2>1
    <3> QED
      BY <1>1, <3>1, SplitsBefore
  <2> QED
    BY <2>1
<1>4. ASSUME NEW k \in Nat, k \in S PROVE k + 1 \in S
  <2>1. ASSUME NEW x \in 1 .. n + 1, n + 1 - x <= k + 1
        PROVE  SplitsFrom(f, str, delim, T, x)
    <3>1. ASSUME NEW y \in 1 .. n + 1, y > x PROVE SplitsFrom(f, str, delim, T, y)
      <4>1. n + 1 - y <= k
        BY <1>2, <2>1, <3>1
      <4> QED
        BY <1>4, <4>1
    <3> QED
      BY <1>1, <3>1, SplitsBefore
  <2> QED
    BY <2>1
<1>5. Nat \subseteq S
  <2> HIDE DEF S
  <2> QED
    BY <1>3, <1>4, NaturalsInSet
<1>6. SplitsFrom(f, str, delim, T, 1)
  <2>1. n \in S /\ 1 \in 1 .. n + 1 /\ n + 1 - 1 <= n
    BY <1>2, <1>5
  <2> QED
    BY <2>1
<1>7. SubSeq(str, 1, n) = str
  <2>1. n \in 0 .. n /\ 1 \in 1 .. n + 1 /\ n - 1 + 1 = n /\ (1 <= n \/ n = 0)
    BY <1>2
  <2> DEFINE p == SubSeq(str, 1, n)
  <2>2. /\ p \in Seq(T) /\ Len(p) = n
        /\ \A i \in 1 .. n : p[i] = str[1 + i - 1]
    <3>1. /\ p \in Seq(T) /\ Len(p) = IF 1 <= n THEN n - 1 + 1 ELSE 0
          /\ \A i \in 1 .. n - 1 + 1 : p[i] = str[1 + i - 1]
      BY <2>1, PartOf
    <3> HIDE DEF p
    <3> QED
      BY <2>1, <3>1
  <2> HIDE DEF p
  <2>3. \A i \in 1 .. n : p[i] = str[i]
    BY <1>2, <2>2
  <2>4. p = str
    BY <2>2, <2>3, SeqEqual
  <2> QED
    BY <2>4 DEF p
<1> QED
  BY <1>1, <1>6, <1>7 DEF SplitsFrom

\* The delimiter need not be made of what the string is made of: the parts are
\* made of what the string is made of.
LEMMA SplitOfString ==
  ASSUME NEW B, NEW T, B \subseteq T, NEW str \in Seq(B), NEW delim \in Seq(T), delim # <<>>
  PROVE  SplitStr(str, delim) \in Seq(Seq(B))
<1> DEFINE n == Len(str)
<1>1. n \in Nat /\ str \in Seq(T)
  BY LenProperties, SeqMonotonic
<1>2. PICK f : PartsFrom(f, str, delim) /\ SplitStr(str, delim) = f[1]
  BY <1>1, SplitIsParts
<1> DEFINE S == {k \in Nat : \A x \in 1 .. n + 1 : n + 1 - x <= k => f[x] \in Seq(Seq(B))}
<1>3. ASSUME NEW x \in 1 .. n + 1, \A y \in 1 .. n + 1 : y > x => f[y] \in Seq(Seq(B))
      PROVE  f[x] \in Seq(Seq(B))
  <2> DEFINE d == Len(delim)
             pos == Find(str, delim, x)
             rest == SubSeq(str, x, n)
             a == SubSeq(str, x, pos - 1)
  <2>1. d \in Nat \ {0} /\ x \in Nat \ {0}
    BY <1>1, LenProperties, EmptySeq
  <2>2. f[x] = PartsAt(str, delim, f, x)
    <3>1. x \in Positioned(str, delim)
      BY <1>1, <2>1 DEF Positioned
    <3> DEFINE g == [z \in Positioned(str, delim) |-> PartsAt(str, delim, f, z)]
    <3>2. f = g /\ g[x] = PartsAt(str, delim, f, x)
      BY <1>2, <3>1 DEF PartsFrom
    <3> QED
      BY <3>2
  <2>3. pos = n + 1 \/ (pos \in x .. n - d + 1 /\ pos <= n)
    BY <1>1, <2>1, Finds
  <2>4. CASE pos = n + 1
    <3>1. f[x] = IF x <= n THEN <<rest>> ELSE <<>>
      BY <1>1, <2>2, <2>4 DEF PartsAt
    <3>2. rest \in Seq(B)
      BY <1>1, PartOf
    <3> HIDE DEF rest
    <3> QED
      BY <3>1, <3>2
  <2>5. CASE pos \in x .. n - d + 1 /\ pos <= n
    <3> DEFINE y == pos + d
    <3>1. f[x] = <<a>> \o f[y]
      <4>1. PartsAt(str, delim, f, x) =
              IF pos > n THEN IF x <= n THEN <<rest>> ELSE <<>> ELSE <<a>> \o f[y]
        BY DEF PartsAt
      <4>2. ~(pos > n)
        BY <1>1, <2>5
      <4> HIDE DEF pos, rest, a, y, n
      <4> QED
        BY <2>2, <4>1, <4>2
    <3>2. y \in 1 .. n + 1 /\ y > x /\ pos - 1 \in 0 .. n /\ x \in 1 .. n + 1
      BY <1>1, <2>1, <2>5
    <3>3. a \in Seq(B)
      BY <3>2, PartOf
    <3>4. f[y] \in Seq(Seq(B))
      BY <1>3, <3>2
    <3> DEFINE e == <<a>>
               p == f[y]
    <3> HIDE DEF a
    <3>5. e \in Seq(Seq(B)) /\ p \in Seq(Seq(B)) /\ f[x] = e \o p
      BY <3>1, <3>3, <3>4
    <3> HIDE DEF e, p, y
    <3> QED
      BY <3>5, ConcatProperties
  <2> QED
    BY <2>3, <2>4, <2>5
<1>4. 0 \in S
  <2>1. ASSUME NEW x \in 1 .. n + 1, n + 1 - x <= 0 PROVE f[x] \in Seq(Seq(B))
    <3>1. \A y \in 1 .. n + 1 : ~(y > x)
      BY <1>1, <2>1
    <3> QED
      BY <1>3, <3>1
  <2> QED
    BY <2>1
<1>5. ASSUME NEW k \in Nat, k \in S PROVE k + 1 \in S
  <2>1. ASSUME NEW x \in 1 .. n + 1, n + 1 - x <= k + 1 PROVE f[x] \in Seq(Seq(B))
    <3>1. ASSUME NEW y \in 1 .. n + 1, y > x PROVE f[y] \in Seq(Seq(B))
      <4>1. n + 1 - y <= k
        BY <1>1, <2>1, <3>1
      <4> QED
        BY <1>5, <4>1
    <3> QED
      BY <1>3, <3>1
  <2> QED
    BY <2>1
<1>6. Nat \subseteq S
  <2> HIDE DEF S
  <2> QED
    BY <1>4, <1>5, NaturalsInSet
<1>7. f[1] \in Seq(Seq(B))
  <2>1. 1 \in 1 .. n + 1 /\ n + 1 - 1 <= n
    BY <1>1
  <2>2. n \in S
    BY <1>1, <1>6
  <2> QED
    BY <2>1, <2>2
<1> QED
  BY <1>2, <1>7

-----------------------------------------------------------------------------
(* base64_encode of TextHelpers *)

\* The values of an int are a multiple of what two sextets can be.
LEMMA IntIsWide == \E q \in Nat : 2 ^ IntBits = 4096 * q /\ 2 ^ IntBits \in Nat \ {0}
<1> DEFINE Wide(b) == \E q \in Nat : 2 ^ b = 4096 * q /\ 2 ^ b \in Nat \ {0}
<1>1. Wide(14) /\ Wide(15) /\ Wide(16) /\ Wide(17) /\ Wide(18)
  <2>1. 2 ^ 14 = 4096 * 4 /\ 2 ^ 15 = 4096 * 8 /\ 2 ^ 16 = 4096 * 16
    OBVIOUS
  <2>2. 2 ^ 17 = 4096 * 32 /\ 2 ^ 18 = 4096 * 64
    OBVIOUS
  <2> QED
    BY <2>1, <2>2
<1>2. Wide(19) /\ Wide(20) /\ Wide(21) /\ Wide(22) /\ Wide(23)
  <2>1. 2 ^ 19 = 4096 * 128 /\ 2 ^ 20 = 4096 * 256 /\ 2 ^ 21 = 4096 * 512
    OBVIOUS
  <2>2. 2 ^ 22 = 4096 * 1024 /\ 2 ^ 23 = 4096 * 2048
    OBVIOUS
  <2> QED
    BY <2>1, <2>2
<1>3. Wide(24) /\ Wide(25) /\ Wide(26) /\ Wide(27) /\ Wide(28)
  <2>1. 2 ^ 24 = 4096 * 4096 /\ 2 ^ 25 = 4096 * 8192 /\ 2 ^ 26 = 4096 * 16384
    OBVIOUS
  <2>2. 2 ^ 27 = 4096 * 32768 /\ 2 ^ 28 = 4096 * 65536
    OBVIOUS
  <2> QED
    BY <2>1, <2>2
<1>4. Wide(29) /\ Wide(30) /\ Wide(31) /\ Wide(32)
  <2>1. 2 ^ 29 = 4096 * 131072 /\ 2 ^ 30 = 4096 * 262144
    OBVIOUS
  <2>2. 2 ^ 31 = 4096 * 524288 /\ 2 ^ 32 = 4096 * 1048576
    OBVIOUS
  <2> QED
    BY <2>1, <2>2
<1> HIDE DEF Wide
<1>5. Wide(IntBits)
  BY <1>1, <1>2, <1>3, <1>4, IntBitsAssumption
<1> QED
  BY <1>5 DEF Wide

\* How many values an int has.
IntValues == 2 ^ IntBits

\* What an int drops does not reach its lower twelve bits.
LEMMA LowBits ==
  ASSUME NEW x \in Nat
  PROVE  x % IntValues \in Nat /\ (x % IntValues) % 4096 = x % 4096
<1>1. PICK q \in Nat : IntValues = 4096 * q /\ IntValues \in Nat \ {0}
  BY IntIsWide DEF IntValues
<1> DEFINE m == IntValues
           p == x \div m
           r == x % m
           w == q * p
<1>2. p \in Nat /\ r \in Nat /\ x = m * p + r
  <2>1. m \in Nat \ {0}
    BY <1>1
  <2> HIDE DEF m
  <2> QED
    BY <2>1
<1>3. w \in Nat /\ m * p = 4096 * w
  <2>1. m = 4096 * q
    BY <1>1
  <2> HIDE DEF m, p
  <2> QED
    BY <1>2, <2>1
<1>4. r \in Nat /\ w \in Nat /\ x = 4096 * w + r
  BY <1>2, <1>3
<1> HIDE DEF r, w
<1>5. r % 4096 = x % 4096
  BY <1>4
<1> QED
  BY <1>4, <1>5 DEF r

\* Two numbers with the same lower twelve bits.
SameLowBits(x, y) == x % 4096 = y % 4096

\* Two numbers with the same sextets at the places base64_encode looks at.
SameSextets(x, y) ==
  /\ Sextet(x, 0) = Sextet(y, 0) /\ Sextet(x, 0) \in 0 .. 63
  /\ Sextet(x, 2) = Sextet(y, 2) /\ Sextet(x, 2) \in 0 .. 63
  /\ Sextet(x, 4) = Sextet(y, 4) /\ Sextet(x, 4) \in 0 .. 63
  /\ Sextet(x, 6) = Sextet(y, 6) /\ Sextet(x, 6) \in 0 .. 63

\* A number has the sextets of its lower twelve bits.
LEMMA SextetOfLowBits ==
  ASSUME NEW x \in Nat, NEW y \in Nat, SameLowBits(x, y)
  PROVE  SameSextets(x, y)
<1> DEFINE a == x \div 4096
           b == y \div 4096
           z == x % 4096
<1>1. a \in Nat /\ b \in Nat /\ z \in 0 .. 4095 /\ x = 4096 * a + z /\ y = 4096 * b + z
  BY DEF SameLowBits
<1> HIDE DEF a, b, z
<1>2. Sextet(x, 0) = Sextet(y, 0) /\ Sextet(x, 0) \in 0 .. 63
  <2>1. 2 ^ 0 = 1
    OBVIOUS
  <2>2. x % 64 = y % 64 /\ x \div 1 = x /\ y \div 1 = y /\ x % 64 \in 0 .. 63
    BY <1>1
  <2> QED
    BY <2>1, <2>2 DEF Sextet
<1>3. Sextet(x, 2) = Sextet(y, 2) /\ Sextet(x, 2) \in 0 .. 63
  <2>1. 2 ^ 2 = 4
    OBVIOUS
  <2>2. x \div 4 = 1024 * a + (z \div 4) /\ y \div 4 = 1024 * b + (z \div 4) /\ z \div 4 \in Nat
    BY <1>1
  <2>3. (x \div 4) % 64 = (y \div 4) % 64 /\ (x \div 4) % 64 \in 0 .. 63
    BY <1>1, <2>2
  <2> QED
    BY <2>1, <2>3 DEF Sextet
<1>4. Sextet(x, 4) = Sextet(y, 4) /\ Sextet(x, 4) \in 0 .. 63
  <2>1. 2 ^ 4 = 16
    OBVIOUS
  <2>2. x \div 16 = 256 * a + (z \div 16) /\ y \div 16 = 256 * b + (z \div 16) /\ z \div 16 \in Nat
    BY <1>1
  <2>3. (x \div 16) % 64 = (y \div 16) % 64 /\ (x \div 16) % 64 \in 0 .. 63
    BY <1>1, <2>2
  <2> QED
    BY <2>1, <2>3 DEF Sextet
<1>5. Sextet(x, 6) = Sextet(y, 6) /\ Sextet(x, 6) \in 0 .. 63
  <2>1. 2 ^ 6 = 64
    OBVIOUS
  <2>2. x \div 64 = 64 * a + (z \div 64) /\ y \div 64 = 64 * b + (z \div 64) /\ z \div 64 \in Nat
    BY <1>1
  <2>3. (x \div 64) % 64 = (y \div 64) % 64 /\ (x \div 64) % 64 \in 0 .. 63
    BY <1>1, <2>2
  <2> QED
    BY <2>1, <2>3 DEF Sextet
<1> QED
  BY <1>2, <1>3, <1>4, <1>5 DEF SameSextets

\* The i-th byte, and zero in front of the string and behind it.
Byte(bytes, i) == IF i \in DOMAIN bytes THEN bytes[i] ELSE 0

\* Two bytes as a number.
Window(bytes, i) == 256 * Byte(bytes, i) + Byte(bytes, i + 1)

\* What RFC 4648 wants for the sextet behind k others.
SextetAt(bytes, k) ==
  (Window(bytes, ((6 * k) \div 8) + 1) \div 2 ^ (10 - ((6 * k) % 8))) % 64

\* Four sextets out of three bytes.
LEMMA SextetsOfThree ==
  ASSUME NEW bytes, NEW m \in Nat
  PROVE  /\ SextetAt(bytes, 4 * m) = (Window(bytes, 3 * m + 1) \div 1024) % 64
         /\ SextetAt(bytes, 4 * m + 1) = (Window(bytes, 3 * m + 1) \div 16) % 64
         /\ SextetAt(bytes, 4 * m + 2) = (Window(bytes, 3 * m + 2) \div 64) % 64
         /\ SextetAt(bytes, 4 * m + 3) = (Window(bytes, 3 * m + 3) \div 256) % 64
<1>1. SextetAt(bytes, 4 * m) = (Window(bytes, 3 * m + 1) \div 1024) % 64
  <2> DEFINE q == (6 * (4 * m)) \div 8
             r == (6 * (4 * m)) % 8
  <2>1. q + 1 = 3 * m + 1 /\ r = 0 /\ 2 ^ 10 = 1024 /\ 10 - 0 = 10
    OBVIOUS
  <2>2. SextetAt(bytes, 4 * m) = (Window(bytes, q + 1) \div 2 ^ (10 - r)) % 64
    BY DEF SextetAt
  <2> HIDE DEF q, r
  <2> QED
    BY <2>1, <2>2
<1>2. SextetAt(bytes, 4 * m + 1) = (Window(bytes, 3 * m + 1) \div 16) % 64
  <2>1. /\ ((6 * (4 * m + 1)) \div 8) + 1 = 3 * m + 1 /\ (6 * (4 * m + 1)) % 8 = 6
        /\ 2 ^ 4 = 16 /\ 10 - 6 = 4
    OBVIOUS
  <2> QED
    BY <2>1 DEF SextetAt
<1>3. SextetAt(bytes, 4 * m + 2) = (Window(bytes, 3 * m + 2) \div 64) % 64
  <2>1. /\ ((6 * (4 * m + 2)) \div 8) + 1 = 3 * m + 2 /\ (6 * (4 * m + 2)) % 8 = 4
        /\ 2 ^ 6 = 64 /\ 10 - 4 = 6
    OBVIOUS
  <2> QED
    BY <2>1 DEF SextetAt
<1>4. SextetAt(bytes, 4 * m + 3) = (Window(bytes, 3 * m + 3) \div 256) % 64
  <2>1. /\ ((6 * (4 * m + 3)) \div 8) + 1 = 3 * m + 3 /\ (6 * (4 * m + 3)) % 8 = 2
        /\ 2 ^ 8 = 256 /\ 10 - 2 = 8
    OBVIOUS
  <2> QED
    BY <2>1 DEF SextetAt
<1> QED
  BY <1>1, <1>2, <1>3, <1>4

\* The records that the loop of base64_encode works on.
EncoderState == [val : Nat, valb : Int, result : Seq(0 .. 63)]

\* The number that val and one more byte make.
Shifted(val, c) == 256 * val + c

\* A number as an int.
AsInt(x) == x % IntValues

\* An int holds the number with the bits that count.
LEMMA ByteFits ==
  ASSUME NEW val \in Nat, NEW c \in 0 .. 255
  PROVE  AsInt(Shifted(val, c)) \in Nat /\ SameLowBits(AsInt(Shifted(val, c)), Shifted(val, c))
<1> DEFINE y == Shifted(val, c)
<1>1. y \in Nat
  BY DEF Shifted
<1> HIDE DEF y
<1>2. y % IntValues \in Nat /\ (y % IntValues) % 4096 = y % 4096
  BY <1>1, LowBits
<1> QED
  BY <1>2 DEF SameLowBits, AsInt, y

\* What a byte does to the record.
AddedAs(s, c, t, x, v, n, more) ==
  /\ x = AsInt(Shifted(s.val, c)) /\ v = s.valb + 8 /\ n = (v + 6) \div 6
  /\ more = [i \in 1 .. n |-> Sextet(x, v - 6 * (i - 1))]
  /\ t = [val |-> x, valb |-> v - 6 * n, result |-> s.result \o more]
  /\ t.val = x /\ t.valb = v - 6 * n /\ t.result = s.result \o more

\* The same for some number, bits and sextets.
AddedByte(s, c, t) == \E x, v, n, more : AddedAs(s, c, t, x, v, n, more)

\* AddByte takes the sextets that the number has by then.
LEMMA AddByteIs ==
  ASSUME NEW s \in EncoderState, NEW c \in 0 .. 255
  PROVE  AddedByte(s, c, AddByte(s, c))
<1> DEFINE t == AddByte(s, c)
<1>1. PICK x, v, n, more :
        /\ x = AsInt(Shifted(s.val, c)) /\ v = s.valb + 8 /\ n = (v + 6) \div 6
        /\ more = [i \in 1 .. n |-> Sextet(x, v - 6 * (i - 1))]
  OBVIOUS
<1> DEFINE u == [s EXCEPT !.val = x, !.valb = v]
<1>2. t = TakeSextets(u)
  <2>1. u = [s EXCEPT !.val = (256 * s.val + c) % (2 ^ IntBits), !.valb = s.valb + 8]
    BY <1>1 DEF AsInt, Shifted, IntValues
  <2> QED
    BY <2>1 DEF AddByte
<1>3. /\ u.val = x /\ u.valb = v /\ u.result = s.result
      /\ DOMAIN u = {"val", "valb", "result"} /\ u = [f \in DOMAIN u |-> u[f]]
  BY DEF EncoderState
<1> HIDE DEF u
<1> HIDE DEF t
<1>4. t = [u EXCEPT !.valb = v - 6 * n, !.result = s.result \o more]
  BY <1>1, <1>2, <1>3 DEF TakeSextets
<1>5. /\ t.val = x /\ t.valb = v - 6 * n /\ t.result = s.result \o more
      /\ DOMAIN t = {"val", "valb", "result"} /\ t = [f \in DOMAIN t |-> t[f]]
  BY <1>3, <1>4
<1>6. t = [val |-> x, valb |-> v - 6 * n, result |-> s.result \o more]
  BY <1>5
<1>7. AddedAs(s, c, t, x, v, n, more)
  BY <1>1, <1>5, <1>6 DEF AddedAs
<1> QED
  BY <1>7 DEF AddedByte, t

\* The sextets are those that RFC 4648 wants.
Agree(result, bytes) == \A k \in 1 .. Len(result) : result[k] = SextetAt(bytes, k - 1)

\* The sequence a is longer than l by one and agrees.
LongerBy(a, l, bytes) == a \in Seq(0 .. 63) /\ Len(a) = l + 1 /\ Agree(a, bytes)

\* One more sextet that agrees leaves them in agreement.
LEMMA AgreeMore ==
  ASSUME NEW bytes, NEW r \in Seq(0 .. 63), NEW l \in Nat, Len(r) = l, Agree(r, bytes),
         NEW x \in 0 .. 63, x = SextetAt(bytes, l)
  PROVE  LongerBy(r \o <<x>>, l, bytes)
<1> DEFINE e == <<x>>
<1>1. e \in Seq(0 .. 63) /\ Len(e) = 1 /\ e[1] = x
  OBVIOUS
<1> HIDE DEF e
<1>2. /\ r \o e \in Seq(0 .. 63) /\ Len(r \o e) = Len(r) + Len(e)
      /\ \A i \in 1 .. Len(r) + Len(e) :
           (r \o e)[i] = IF i <= Len(r) THEN r[i] ELSE e[i - Len(r)]
  BY <1>1, ConcatProperties
<1> DEFINE a == r \o e
<1> HIDE DEF a
<1>3. /\ a \in Seq(0 .. 63) /\ Len(a) = l + 1
      /\ \A i \in 1 .. l + 1 : a[i] = IF i <= l THEN r[i] ELSE e[i - l]
  BY <1>1, <1>2 DEF a
<1>4. ASSUME NEW k \in 1 .. l + 1 PROVE a[k] = SextetAt(bytes, k - 1)
  <2>1. CASE k <= l
    <3>1. k \in 1 .. Len(r)
      BY <2>1
    <3> QED
      BY <1>3, <2>1, <3>1 DEF Agree
  <2>2. CASE k = l + 1
    <3>1. k - l = 1 /\ k - 1 = l /\ ~(k <= l)
      BY <2>2
    <3> QED
      BY <1>1, <1>3, <3>1
  <2> QED
    BY <2>1, <2>2
<1> QED
  BY <1>3, <1>4 DEF a, e, Agree, LongerBy

\* Where the loop is behind i bytes.
Encoded(s, bytes, i) ==
  /\ s \in EncoderState
  /\ s.valb = 2 * (i % 3) - 6
  /\ SameLowBits(s.val, Window(bytes, i - 1))
  /\ Len(s.result) = (4 * i) \div 3
  /\ Agree(s.result, bytes)

\* A window is a number, and its first byte is the second of the one before.
LEMMA Windows ==
  ASSUME NEW bytes \in Seq(0 .. 255), NEW i \in Int
  PROVE  /\ Byte(bytes, i) \in 0 .. 255 /\ Window(bytes, i) \in Nat
         /\ Window(bytes, i) = 256 * Byte(bytes, i) + Byte(bytes, i + 1)
         /\ i \in 1 .. Len(bytes) => Byte(bytes, i) = bytes[i]
         /\ i \notin 1 .. Len(bytes) => Byte(bytes, i) = 0
<1>1. DOMAIN bytes = 1 .. Len(bytes) /\ i + 1 \in Int
  BY LenProperties
<1>2. ASSUME NEW j \in Int
      PROVE  /\ Byte(bytes, j) \in 0 .. 255
             /\ j \in 1 .. Len(bytes) => Byte(bytes, j) = bytes[j]
             /\ j \notin 1 .. Len(bytes) => Byte(bytes, j) = 0
  <2>1. CASE j \in 1 .. Len(bytes)
    <3>1. bytes[j] \in 0 .. 255
      BY <2>1, ElementOfSeq
    <3> QED
      BY <1>1, <2>1, <3>1 DEF Byte
  <2>2. CASE j \notin 1 .. Len(bytes)
    BY <1>1, <2>2 DEF Byte
  <2> QED
    BY <2>1, <2>2
<1>3. Byte(bytes, i) \in 0 .. 255 /\ Byte(bytes, i + 1) \in 0 .. 255
  BY <1>1, <1>2
<1>4. Window(bytes, i) = 256 * Byte(bytes, i) + Byte(bytes, i + 1)
  BY DEF Window
<1>5. Window(bytes, i) \in Nat
  <2> DEFINE a == Byte(bytes, i)
             b == Byte(bytes, i + 1)
  <2> HIDE DEF a, b
  <2>1. a \in 0 .. 255 /\ b \in 0 .. 255 /\ Window(bytes, i) = 256 * a + b
    BY <1>3, <1>4 DEF a, b
  <2> QED
    BY <2>1
<1> QED
  BY <1>2, <1>3, <1>4, <1>5

\* Of the number that the bytes make, the last two count.
LEMMA NextWindow ==
  ASSUME NEW x \in Nat, NEW a \in 0 .. 255, NEW b \in 0 .. 255, NEW c \in 0 .. 255,
         SameLowBits(x, Shifted(a, b))
  PROVE  SameLowBits(Shifted(x, c), Shifted(b, c))
<1> DEFINE p == x \div 4096
           q == (256 * a + b) \div 4096
<1>1. p \in Nat /\ q \in Nat /\ x - 4096 * p = 256 * a + b - 4096 * q
  BY DEF SameLowBits, Shifted
<1> HIDE DEF p, q
<1>2. 256 * x + c = 4096 * (256 * p - 256 * q + 16 * a) + (256 * b + c)
  BY <1>1
<1> DEFINE w == 256 * p - 256 * q + 16 * a
<1>3. w \in Int /\ 256 * x + c = 4096 * w + (256 * b + c)
  BY <1>1, <1>2
<1> HIDE DEF w
<1>4. (256 * x + c) % 4096 = (256 * b + c) % 4096
  BY <1>3
<1> QED
  BY <1>4 DEF SameLowBits, Shifted

\* Bits of two bytes that are bits of one of them.
BitsOfMiddle(a, b, d) ==
  /\ ((256 * a + b) \div 4) % 64 = ((256 * b + d) \div 1024) % 64
  /\ (256 * a + b) % 64 = ((256 * b + d) \div 256) % 64

\* Two bytes share the bits of the one in the middle.
LEMMA BitsOfByte ==
  ASSUME NEW a \in 0 .. 255, NEW b \in 0 .. 255, NEW d \in 0 .. 255
  PROVE  BitsOfMiddle(a, b, d)
<1>1. ((256 * a + b) \div 4) % 64 = ((256 * b + d) \div 1024) % 64
  <2>1. (256 * a + b) \div 4 = 64 * a + (b \div 4) /\ (256 * b + d) \div 1024 = b \div 4
    OBVIOUS
  <2> QED
    BY <2>1
<1>2. (256 * a + b) % 64 = ((256 * b + d) \div 256) % 64
  <2>1. (256 * a + b) % 64 = b % 64 /\ (256 * b + d) \div 256 = b
    OBVIOUS
  <2> QED
    BY <2>1
<1> QED
  BY <1>1, <1>2 DEF BitsOfMiddle

\* The sextets that the loop takes behind a byte are the next ones.
LEMMA SextetsOfWindow ==
  ASSUME NEW bytes \in Seq(0 .. 255), NEW m \in Nat
  PROVE  /\ Sextet(Window(bytes, 3 * m), 2) = SextetAt(bytes, 4 * m)
         /\ Sextet(Window(bytes, 3 * m + 1), 4) = SextetAt(bytes, 4 * m + 1)
         /\ Sextet(Window(bytes, 3 * m + 2), 6) = SextetAt(bytes, 4 * m + 2)
         /\ Sextet(Window(bytes, 3 * m + 2), 0) = SextetAt(bytes, 4 * m + 3)
<1>1. /\ 3 * m \in Int /\ 3 * m + 1 \in Int /\ 3 * m + 2 \in Int /\ 3 * m + 3 \in Int
      /\ (3 * m + 1) + 1 = 3 * m + 2 /\ (3 * m + 2) + 1 = 3 * m + 3
      /\ (3 * m + 3) + 1 = 3 * m + 4 /\ 3 * m + 4 \in Int
  OBVIOUS
<1>2. 2 ^ 2 = 4 /\ 2 ^ 4 = 16 /\ 2 ^ 6 = 64 /\ 2 ^ 0 = 1
  OBVIOUS
<1> DEFINE a0 == Byte(bytes, 3 * m)
           a1 == Byte(bytes, 3 * m + 1)
           a2 == Byte(bytes, 3 * m + 2)
           a3 == Byte(bytes, 3 * m + 3)
           a4 == Byte(bytes, 3 * m + 4)
<1>3. /\ a0 \in 0 .. 255 /\ a1 \in 0 .. 255 /\ a2 \in 0 .. 255 /\ a3 \in 0 .. 255
      /\ a4 \in 0 .. 255
  <2>1. \A j \in Int : Byte(bytes, j) \in 0 .. 255
    BY Windows
  <2> QED
    BY <1>1, <2>1
<1>4. /\ Window(bytes, 3 * m) = 256 * a0 + a1 /\ Window(bytes, 3 * m + 1) = 256 * a1 + a2
      /\ Window(bytes, 3 * m + 2) = 256 * a2 + a3 /\ Window(bytes, 3 * m + 3) = 256 * a3 + a4
  BY <1>1 DEF Window
<1> HIDE DEF a0, a1, a2, a3, a4
<1>5. Sextet(Window(bytes, 3 * m), 2) = SextetAt(bytes, 4 * m)
  <2>1. ((256 * a0 + a1) \div 4) % 64 = ((256 * a1 + a2) \div 1024) % 64
    <3>1. BitsOfMiddle(a0, a1, a2)
      BY <1>3, BitsOfByte
    <3> QED
      BY <3>1 DEF BitsOfMiddle
  <2> QED
    BY <1>2, <1>4, <2>1, SextetsOfThree DEF Sextet
<1>6. Sextet(Window(bytes, 3 * m + 1), 4) = SextetAt(bytes, 4 * m + 1)
  BY <1>2, SextetsOfThree DEF Sextet
<1>7. Sextet(Window(bytes, 3 * m + 2), 6) = SextetAt(bytes, 4 * m + 2)
  BY <1>2, SextetsOfThree DEF Sextet
<1>8. Sextet(Window(bytes, 3 * m + 2), 0) = SextetAt(bytes, 4 * m + 3)
  <2>1. (256 * a2 + a3) % 64 = ((256 * a3 + a4) \div 256) % 64
    <3>1. BitsOfMiddle(a2, a3, a4)
      BY <1>3, BitsOfByte
    <3> QED
      BY <3>1 DEF BitsOfMiddle
  <2>2. (256 * a2 + a3) \div 1 = 256 * a2 + a3
    BY <1>3
  <2> QED
    BY <1>2, <1>4, <2>1, <2>2, SextetsOfThree DEF Sextet
<1> QED
  BY <1>5, <1>6, <1>7, <1>8

\* Two elements, one behind the other.
LEMMA PairOf ==
  ASSUME NEW y, NEW z
  PROVE  <<y>> \o <<z>> = <<y, z>>
<1> DEFINE T == {y, z}
           p == <<y>>
           q == <<z>>
           e == <<y, z>>
<1>1. /\ p \in Seq(T) /\ Len(p) = 1 /\ p[1] = y
      /\ q \in Seq(T) /\ Len(q) = 1 /\ q[1] = z
  OBVIOUS
<1>2. e \in Seq(T) /\ Len(e) = 2 /\ e[1] = y /\ e[2] = z
  OBVIOUS
<1> HIDE DEF p, q, e, T
<1>3. /\ p \o q \in Seq(T) /\ Len(p \o q) = Len(p) + Len(q)
      /\ \A i \in 1 .. Len(p) + Len(q) :
           (p \o q)[i] = IF i <= Len(p) THEN p[i] ELSE q[i - Len(p)]
  BY <1>1, ConcatProperties
<1> DEFINE a == p \o q
<1> HIDE DEF a
<1>4. a \in Seq(T) /\ Len(a) = 2 /\ a[1] = y /\ a[2] = z
  BY <1>1, <1>3 DEF a
<1>5. \A i \in 1 .. Len(a) : a[i] = e[i]
  BY <1>2, <1>4
<1>6. a = e
  BY <1>2, <1>4, <1>5, SeqEqual
<1> QED
  BY <1>6 DEF a, p, q, e

\* The loop with one more byte.
LEMMA EncodesMore ==
  ASSUME NEW bytes \in Seq(0 .. 255), NEW i \in 0 .. Len(bytes) - 1,
         NEW s, Encoded(s, bytes, i)
  PROVE  Encoded(AddByte(s, bytes[i + 1]), bytes, i + 1)
<1> DEFINE k == i + 1
           c == bytes[k]
           t == AddByte(s, c)
           W == Window(bytes, i)
           r == s.result
           m == i \div 3
<1>1. /\ s \in EncoderState /\ s.valb = 2 * (i % 3) - 6
      /\ SameLowBits(s.val, Window(bytes, i - 1))
      /\ Len(r) = (4 * i) \div 3 /\ Agree(r, bytes) /\ r \in Seq(0 .. 63) /\ s.val \in Nat
  BY DEF Encoded, EncoderState
<1>2. /\ m \in Nat /\ i % 3 \in {0, 1, 2} /\ i = 3 * m + (i % 3)
      /\ k \in 1 .. Len(bytes) /\ k \in Int /\ i \in Int /\ i - 1 \in Int /\ (i - 1) + 1 = i
  BY LenProperties
<1> HIDE DEF k, m
<1>3. c \in 0 .. 255 /\ c = Byte(bytes, k) /\ W = 256 * Byte(bytes, i) + c /\ W \in Nat
  <2>1. c = Byte(bytes, k) /\ c \in 0 .. 255
    <3>1. Byte(bytes, k) \in 0 .. 255 /\ (k \in 1 .. Len(bytes) => Byte(bytes, k) = bytes[k])
      BY <1>2, Windows
    <3> QED
      BY <1>2, <3>1
  <2>2. W = 256 * Byte(bytes, i) + Byte(bytes, k) /\ W \in Nat
    <3>1. W = 256 * Byte(bytes, i) + Byte(bytes, i + 1)
      BY DEF Window
    <3>2. W \in Nat
      BY <1>2, Windows
    <3> QED
      BY <3>1, <3>2 DEF k
  <2> QED
    BY <2>1, <2>2
<1> HIDE DEF c, W
<1>a. PICK x, v, n, more : AddedAs(s, c, t, x, v, n, more)
  <2>1. AddedByte(s, c, AddByte(s, c))
    BY <1>1, <1>3, AddByteIs
  <2> QED
    BY <2>1 DEF AddedByte
<1> HIDE DEF t
<1>4. /\ x = AsInt(Shifted(s.val, c)) /\ v = s.valb + 8 /\ n = (v + 6) \div 6
      /\ more = [j \in 1 .. n |-> Sextet(x, v - 6 * (j - 1))]
      /\ t = [val |-> x, valb |-> v - 6 * n, result |-> r \o more]
      /\ t.val = x /\ t.valb = v - 6 * n /\ t.result = r \o more
  BY <1>a DEF AddedAs
<1>5. x \in Nat /\ SameLowBits(x, W)
  <2>1. x \in Nat /\ SameLowBits(x, Shifted(s.val, c))
    BY <1>1, <1>3, <1>4, ByteFits
  <2> DEFINE a == Byte(bytes, i - 1)
             b == Byte(bytes, i)
  <2>2. a \in 0 .. 255 /\ b \in 0 .. 255
    BY <1>2, Windows
  <2>3. Window(bytes, i - 1) = Shifted(a, b)
    BY <1>2 DEF Window, Shifted
  <2>4. W = Shifted(b, c)
    BY <1>3 DEF Shifted
  <2> HIDE DEF a, b
  <2>5. SameLowBits(Shifted(s.val, c), Shifted(b, c))
    <3>1. s.val \in Nat /\ SameLowBits(s.val, Shifted(a, b))
      BY <1>1, <2>3
    <3> QED
      BY <1>3, <2>2, <3>1, NextWindow
  <2> QED
    BY <2>1, <2>4, <2>5 DEF SameLowBits
<1>6. SameSextets(x, W)
  BY <1>3, <1>5, SextetOfLowBits
<1>7. v = 2 * (i % 3) + 2
  BY <1>1, <1>2, <1>4
<1> DEFINE e == (4 * k) \div 3
           h == v - 6 * n
           Goal == /\ h \in Int /\ h = 2 * (k % 3) - 6
                   /\ e \in Nat /\ LongerBy(r \o more, e - 1, bytes)
<1>9. ASSUME i % 3 = 0 PROVE Goal
  <2> DEFINE l == 4 * m
  <2>1. /\ i = 3 * m /\ k % 3 = 1 /\ (4 * i) \div 3 = l /\ l \in Nat /\ e \in Nat /\ e - 1 = l
    <3>1. m \in Nat /\ i = 3 * m + 0 /\ k = 3 * m + 0 + 1
      BY <1>2, <1>9 DEF k
    <3> HIDE DEF m
    <3> QED
      BY <3>1
  <2>2. v = 2 /\ n = 1 /\ h = 2 - 6
    BY <1>4, <1>7, <1>9
  <2>3. more = <<Sextet(x, 2)>>
    BY <1>4, <2>2
  <2>4. Sextet(x, 2) = SextetAt(bytes, l) /\ Sextet(x, 2) \in 0 .. 63
    <3>1. Sextet(Window(bytes, 3 * m), 2) = SextetAt(bytes, 4 * m)
      BY <1>2, SextetsOfWindow
    <3> QED
      BY <1>6, <2>1, <3>1 DEF W, SameSextets
  <2> HIDE DEF l
  <2>5. LongerBy(r \o more, l, bytes)
    BY <1>1, <2>1, <2>3, <2>4, AgreeMore
  <2> HIDE DEF e, h
  <2> QED
    BY <2>1, <2>2, <2>5
<1>10. ASSUME i % 3 = 1 PROVE Goal
  <2> DEFINE l == 4 * m + 1
  <2>1. /\ i = 3 * m + 1 /\ k % 3 = 2 /\ (4 * i) \div 3 = l /\ l \in Nat /\ e \in Nat /\ e - 1 = l
    <3>1. m \in Nat /\ i = 3 * m + 1 /\ k = 3 * m + 1 + 1
      BY <1>2, <1>10 DEF k
    <3> HIDE DEF m
    <3> QED
      BY <3>1
  <2>2. v = 4 /\ n = 1 /\ h = 4 - 6
    BY <1>4, <1>7, <1>10
  <2>3. more = <<Sextet(x, 4)>>
    BY <1>4, <2>2
  <2>4. Sextet(x, 4) = SextetAt(bytes, l) /\ Sextet(x, 4) \in 0 .. 63
    <3>1. Sextet(Window(bytes, 3 * m + 1), 4) = SextetAt(bytes, 4 * m + 1)
      BY <1>2, SextetsOfWindow
    <3> QED
      BY <1>6, <2>1, <3>1 DEF W, SameSextets
  <2> HIDE DEF l
  <2>5. LongerBy(r \o more, l, bytes)
    BY <1>1, <2>1, <2>3, <2>4, AgreeMore
  <2> HIDE DEF e, h
  <2> QED
    BY <2>1, <2>2, <2>5
<1>11. ASSUME i % 3 = 2 PROVE Goal
  <2> DEFINE l == 4 * m + 2
             u == 4 * m + 3
             y == Sextet(x, 6)
             z == Sextet(x, 0)
             b == r \o <<y>>
  <2>1. /\ i = 3 * m + 2 /\ k % 3 = 0 /\ (4 * i) \div 3 = l /\ l \in Nat /\ u \in Nat
        /\ e \in Nat /\ e - 1 = u /\ l + 1 = u
    <3>1. m \in Nat /\ i = 3 * m + 2 /\ k = 3 * m + 2 + 1
      BY <1>2, <1>11 DEF k
    <3> HIDE DEF m
    <3> QED
      BY <3>1
  <2>2. v = 6 /\ n = 2 /\ h = 0 - 6
    BY <1>4, <1>7, <1>11
  <2>3. more = <<y, z>>
    <3>1. more = [j \in 1 .. 2 |-> Sextet(x, 6 - 6 * (j - 1))]
      BY <1>4, <2>2
    <3>2. 6 - 6 * (1 - 1) = 6 /\ 6 - 6 * (2 - 1) = 0
      OBVIOUS
    <3> QED
      BY <3>1, <3>2
  <2>4. y = SextetAt(bytes, l) /\ y \in 0 .. 63 /\ z = SextetAt(bytes, u) /\ z \in 0 .. 63
    <3>1. /\ Sextet(Window(bytes, 3 * m + 2), 6) = SextetAt(bytes, 4 * m + 2)
          /\ Sextet(Window(bytes, 3 * m + 2), 0) = SextetAt(bytes, 4 * m + 3)
      BY <1>2, SextetsOfWindow
    <3> QED
      BY <1>6, <2>1, <3>1 DEF W, SameSextets
  <2> HIDE DEF l, u, y, z
  <2>5. LongerBy(b, l, bytes)
    BY <1>1, <2>1, <2>4, AgreeMore
  <2>6. b \in Seq(0 .. 63) /\ Len(b) = u /\ Agree(b, bytes)
    BY <2>1, <2>5 DEF LongerBy
  <2>7. r \o more = b \o <<z>>
    <3> DEFINE p == <<y>>
               q == <<z>>
    <3>1. \A a1, a2, a3 \in Seq(0 .. 63) : (a1 \o a2) \o a3 = a1 \o (a2 \o a3)
      BY SMTT(30), Associative
    <3>2. p \in Seq(0 .. 63) /\ q \in Seq(0 .. 63) /\ p \o q = more
      <4>1. y \in 0 .. 63 /\ z \in 0 .. 63
        BY <2>4
      <4>2. <<y>> \o <<z>> = <<y, z>>
        BY PairOf
      <4> QED
        BY <2>3, <4>1, <4>2
    <3> HIDE DEF p, q
    <3>3. (r \o p) \o q = r \o (p \o q)
      BY <1>1, <3>1, <3>2
    <3> QED
      BY <3>2, <3>3 DEF p, q
  <2> HIDE DEF b
  <2>8. LongerBy(b \o <<z>>, u, bytes)
    BY <2>1, <2>4, <2>6, AgreeMore
  <2> HIDE DEF e, h
  <2> QED
    BY SMTT(30), <2>1, <2>2, <2>7, <2>8
<1>12. Goal
  BY <1>2, <1>9, <1>10, <1>11
<1> DEFINE a == r \o more
<1> HIDE DEF h, e
<1>13. /\ t = [val |-> x, valb |-> h, result |-> a] /\ t.val = x /\ t.valb = h /\ t.result = a
       /\ h \in Int /\ h = 2 * (k % 3) - 6 /\ e \in Nat /\ LongerBy(a, e - 1, bytes)
  BY <1>4, <1>12 DEF h
<1> HIDE DEF a
<1>14. a \in Seq(0 .. 63) /\ Len(a) = e /\ Agree(a, bytes)
  BY <1>13 DEF LongerBy
<1>15. t \in EncoderState
  BY <1>5, <1>13, <1>14 DEF EncoderState
<1>16. SameLowBits(t.val, Window(bytes, k - 1))
  <2>1. k - 1 = i
    BY <1>2 DEF k
  <2> QED
    BY <1>5, <1>13, <2>1 DEF W
<1>17. Encoded(t, bytes, k)
  BY <1>13, <1>14, <1>15, <1>16 DEF Encoded, e
<1> QED
  BY <1>17 DEF c, k, t

\* The bits that are left over behind the last byte make one more sextet.
LEMMA LastSextetIs ==
  ASSUME NEW bytes \in Seq(0 .. 255), NEW s, Encoded(s, bytes, Len(bytes))
  PROVE  LongerBy(LastSextet(s), (8 * Len(bytes) + 5) \div 6 - 1, bytes)
<1> DEFINE n == Len(bytes)
           m == n \div 3
           r == s.result
           val == s.val
           x == AsInt(Shifted(val, 0))
           W == Window(bytes, n)
           e == (8 * n + 5) \div 6 - 1
           a == LastSextet(s)
<1>1. /\ n \in Nat /\ m \in Nat /\ n % 3 \in {0, 1, 2} /\ n = 3 * m + (n % 3)
      /\ n - 1 \in Int /\ (n - 1) + 1 = n /\ n + 1 \in Int
  BY LenProperties
<1>2. /\ s.valb = 2 * (n % 3) - 6 /\ SameLowBits(val, Window(bytes, n - 1))
      /\ Len(r) = (4 * n) \div 3 /\ Agree(r, bytes) /\ r \in Seq(0 .. 63) /\ val \in Nat
  BY DEF Encoded, EncoderState
<1>3. a = IF s.valb > -6 THEN Append(r, Sextet(x, s.valb + 8)) ELSE r
  <2>1. x = (256 * val) % (2 ^ IntBits)
    <3>1. 256 * val + 0 = 256 * val
      BY <1>2
    <3> QED
      BY <3>1 DEF AsInt, Shifted, IntValues
  <2> HIDE DEF x
  <2> QED
    BY <2>1 DEF LastSextet
<1>4. x \in Nat /\ W \in Nat /\ SameLowBits(x, W)
  <2> DEFINE b0 == Byte(bytes, n - 1)
             b1 == Byte(bytes, n)
  <2>1. b0 \in 0 .. 255 /\ b1 \in 0 .. 255 /\ 0 \in 0 .. 255 /\ W \in Nat
    <3>1. b0 \in 0 .. 255
      BY <1>1, Windows
    <3>2. b1 \in 0 .. 255 /\ W \in Nat
      BY <1>1, Windows
    <3> QED
      BY <3>1, <3>2
  <2>2. Byte(bytes, n + 1) = 0
    <3>1. n + 1 \notin 1 .. n
      BY <1>1
    <3>2. n + 1 \notin 1 .. Len(bytes) => Byte(bytes, n + 1) = 0
      BY <1>1, Windows
    <3> QED
      BY <3>1, <3>2
  <2>3. W = Shifted(b1, 0) /\ Window(bytes, n - 1) = Shifted(b0, b1)
    BY <1>1, <2>2 DEF Window, Shifted
  <2> HIDE DEF b0, b1, val, W
  <2>4. x \in Nat /\ SameLowBits(x, Shifted(val, 0))
    BY <1>2, <2>1, ByteFits
  <2>5. SameLowBits(val, Shifted(b0, b1))
    BY <1>2, <2>3
  <2>6. SameLowBits(Shifted(val, 0), Shifted(b1, 0))
    BY <1>2, <2>1, <2>5, NextWindow
  <2> QED
    BY <2>1, <2>3, <2>4, <2>6 DEF SameLowBits
<1> HIDE DEF x, W
<1>5. SameSextets(x, W)
  BY <1>4, SextetOfLowBits
<1> HIDE DEF n, m, a, r
<1>6. ASSUME n % 3 = 0 PROVE LongerBy(a, e, bytes)
  <2>1. n = 3 * m /\ ~(s.valb > -6)
    BY <1>1, <1>2, <1>6
  <2>2. (4 * n) \div 3 = e + 1
    BY <1>1, <2>1
  <2>3. a = r
    BY <1>3, <2>1
  <2> HIDE DEF e
  <2> QED
    BY <1>2, <2>2, <2>3 DEF LongerBy
<1>7. ASSUME n % 3 = 1 PROVE LongerBy(a, e, bytes)
  <2>1. n = 3 * m + 1 /\ s.valb > -6 /\ s.valb + 8 = 4
    BY <1>1, <1>2, <1>7
  <2>2. (4 * n) \div 3 = 4 * m + 1 /\ e = 4 * m + 1 /\ 4 * m + 1 \in Nat
    BY <1>1, <2>1
  <2> DEFINE l == 4 * m + 1
             y == Sextet(x, 4)
  <2>3. y = SextetAt(bytes, l) /\ y \in 0 .. 63
    <3>1. Sextet(Window(bytes, 3 * m + 1), 4) = SextetAt(bytes, 4 * m + 1)
      BY <1>1, SextetsOfWindow
    <3> QED
      BY <1>5, <2>1, <3>1 DEF W, SameSextets, n
  <2>4. a = Append(r, y)
    BY <1>3, <2>1
  <2> HIDE DEF l, y
  <2>5. a = r \o <<y>>
    BY <1>2, <2>3, <2>4, AppendIsConcat
  <2>6. LongerBy(r \o <<y>>, l, bytes)
    BY <1>2, <2>2, <2>3, AgreeMore DEF l
  <2> QED
    BY <2>2, <2>5, <2>6 DEF l
<1>8. ASSUME n % 3 = 2 PROVE LongerBy(a, e, bytes)
  <2>1. n = 3 * m + 2 /\ s.valb > -6 /\ s.valb + 8 = 6
    BY <1>1, <1>2, <1>8
  <2>2. (4 * n) \div 3 = 4 * m + 2 /\ e = 4 * m + 2 /\ 4 * m + 2 \in Nat
    BY <1>1, <2>1
  <2> DEFINE l == 4 * m + 2
             y == Sextet(x, 6)
  <2>3. y = SextetAt(bytes, l) /\ y \in 0 .. 63
    <3>1. Sextet(Window(bytes, 3 * m + 2), 6) = SextetAt(bytes, 4 * m + 2)
      BY <1>1, SextetsOfWindow
    <3> QED
      BY <1>5, <2>1, <3>1 DEF W, SameSextets, n
  <2>4. a = Append(r, y)
    BY <1>3, <2>1
  <2> HIDE DEF l, y
  <2>5. a = r \o <<y>>
    BY <1>2, <2>3, <2>4, AppendIsConcat
  <2>6. LongerBy(r \o <<y>>, l, bytes)
    BY <1>2, <2>2, <2>3, AgreeMore DEF l
  <2> QED
    BY <2>2, <2>5, <2>6 DEF l
<1> QED
  BY <1>1, <1>6, <1>7, <1>8 DEF a, n, e

\* The records of the loop, from the first one to the one behind the last byte.
StateAt(st, bytes, i) ==
  IF i = 0 THEN [val |-> 0, valb |-> -6, result |-> <<>>] ELSE AddByte(st[i - 1], bytes[i])

\* st is the sequence of these records.
LoopStates(st, bytes) == st = [i \in 0 .. Len(bytes) |-> StateAt(st, bytes, i)]

\* There is such a sequence of records.
LEMMA LoopStatesExist ==
  ASSUME NEW bytes \in Seq(0 .. 255)
  PROVE  \E st : LoopStates(st, bytes)
<1> DEFINE n == Len(bytes)
           D == 0 .. n
           Holds(f, k) == \A i \in D : i <= k => f[i] = StateAt(f, bytes, i)
           S == {k \in Nat : \E f : f = [i \in D |-> f[i]] /\ Holds(f, k)}
<1>1. n \in Nat
  BY LenProperties
<1>2. 0 \in S
  <2> DEFINE f == [i \in D |-> [val |-> 0, valb |-> -6, result |-> <<>>]]
  <2>1. f = [i \in D |-> f[i]]
    OBVIOUS
  <2>2. Holds(f, 0)
    <3>1. ASSUME NEW i \in D, i <= 0 PROVE f[i] = StateAt(f, bytes, i)
      <4>1. i = 0
        BY <1>1, <3>1
      <4> QED
        BY <4>1 DEF StateAt
    <3> QED
      BY <3>1
  <2> HIDE DEF f, Holds
  <2> QED
    BY <2>1, <2>2
<1>3. ASSUME NEW k \in Nat, k \in S PROVE k + 1 \in S
  <2>1. PICK f : f = [i \in D |-> f[i]] /\ Holds(f, k)
    BY <1>3
  <2> DEFINE g == [i \in D |-> IF i = k + 1 THEN StateAt(f, bytes, i) ELSE f[i]]
  <2>2. g = [i \in D |-> g[i]]
    OBVIOUS
  <2>3. ASSUME NEW i \in D, i <= k + 1 PROVE g[i] = StateAt(g, bytes, i)
    <3>1. g[i] = IF i = k + 1 THEN StateAt(f, bytes, i) ELSE f[i]
      OBVIOUS
    <3>2. \A j \in D : j < k + 1 => g[j] = f[j]
      OBVIOUS
    <3> HIDE DEF g
    <3>3. g[i] = StateAt(f, bytes, i)
      <4>1. i # k + 1 => i <= k
        BY <1>1, <2>3
      <4> QED
        BY <2>1, <3>1, <4>1
    <3>4. StateAt(f, bytes, i) = StateAt(g, bytes, i)
      <4>1. i # 0 => i - 1 \in D /\ i - 1 < k + 1
        BY <1>1, <2>3
      <4>2. i # 0 => g[i - 1] = f[i - 1]
        BY <3>2, <4>1
      <4> QED
        BY <4>2 DEF StateAt
    <3> QED
      BY <3>3, <3>4
  <2>4. Holds(g, k + 1)
    <3> HIDE DEF g
    <3> QED
      BY <2>3
  <2> HIDE DEF g, Holds
  <2> QED
    BY <2>2, <2>4
<1>4. Nat \subseteq S
  <2> HIDE DEF S
  <2> QED
    BY <1>2, <1>3, NaturalsInSet
<1>5. PICK f : f = [i \in D |-> f[i]] /\ Holds(f, n)
  BY <1>1, <1>4
<1>6. \A i \in D : f[i] = StateAt(f, bytes, i)
  BY <1>1, <1>5
<1>7. f = [i \in D |-> StateAt(f, bytes, i)]
  BY <1>5, <1>6
<1> QED
  BY <1>7 DEF LoopStates

\* Whatever the bytes are, the loop has encoded the first i of them in round i.
LEMMA LoopEncodes ==
  ASSUME NEW bytes \in Seq(0 .. 255), NEW st, LoopStates(st, bytes)
  PROVE  Encoded(st[Len(bytes)], bytes, Len(bytes))
<1> DEFINE n == Len(bytes)
           S == {i \in Nat : i \in 0 .. n => Encoded(st[i], bytes, i)}
<1>1. n \in Nat /\ n \in 0 .. n /\ 0 \in 0 .. n
  BY LenProperties
<1>2. \A i \in 0 .. n : st[i] = StateAt(st, bytes, i)
  <2> DEFINE f == [i \in 0 .. n |-> StateAt(st, bytes, i)]
  <2>1. st = f
    BY DEF LoopStates
  <2>2. \A i \in 0 .. n : f[i] = StateAt(st, bytes, i)
    OBVIOUS
  <2> QED
    BY <2>1, <2>2
<1>3. 0 \in S
  <2> DEFINE s == [val |-> 0, valb |-> -6, result |-> <<>>]
  <2>1. st[0] = s
    BY <1>1, <1>2 DEF StateAt
  <2>2. /\ s \in EncoderState /\ s.val = 0 /\ s.valb = -6 /\ s.result = <<>>
        /\ Len(<<>>) = 0 /\ <<>> \in Seq(0 .. 63)
    BY DEF EncoderState
  <2>3. Window(bytes, 0 - 1) = 0
    <3>1. Byte(bytes, 0 - 1) = 0 /\ Byte(bytes, (0 - 1) + 1) = 0
      <4>1. DOMAIN bytes = 1 .. n /\ 0 - 1 \notin 1 .. n /\ (0 - 1) + 1 \notin 1 .. n
        BY LenProperties
      <4> QED
        BY <4>1 DEF Byte
    <3> QED
      BY <3>1 DEF Window
  <2> HIDE DEF s
  <2>4. SameLowBits(s.val, Window(bytes, 0 - 1))
    BY <2>2, <2>3 DEF SameLowBits
  <2>5. s.valb = 2 * (0 % 3) - 6 /\ Len(s.result) = (4 * 0) \div 3
    BY <2>2
  <2>6. Agree(s.result, bytes)
    BY <2>2 DEF Agree
  <2> QED
    BY <2>1, <2>2, <2>4, <2>5, <2>6 DEF Encoded
<1>4. ASSUME NEW i \in Nat, i \in S PROVE i + 1 \in S
  <2>1. ASSUME i + 1 \in 0 .. n PROVE Encoded(st[i + 1], bytes, i + 1)
    <3>1. i \in 0 .. n - 1 /\ i \in 0 .. n /\ i + 1 # 0 /\ (i + 1) - 1 = i
      BY <1>1, <2>1
    <3>2. Encoded(st[i], bytes, i)
      BY <1>4, <3>1
    <3>3. st[i + 1] = AddByte(st[i], bytes[i + 1])
      BY <1>2, <2>1, <3>1 DEF StateAt
    <3>4. Encoded(AddByte(st[i], bytes[i + 1]), bytes, i + 1)
      BY <3>1, <3>2, EncodesMore
    <3> QED
      BY <3>3, <3>4
  <2> QED
    BY <2>1
<1>5. Nat \subseteq S
  <2> HIDE DEF S
  <2> QED
    BY <1>3, <1>4, NaturalsInSet
<1> QED
  BY <1>1, <1>5

\* Base64Encode returns the sextets of the last record, and the padding.
LEMMA EncodeIsLoop ==
  ASSUME NEW bytes \in Seq(0 .. 255)
  PROVE  \E st : /\ LoopStates(st, bytes)
                 /\ Base64Encode(bytes) =
                      LET a == LastSextet(st[Len(bytes)])
                      IN  a \o [i \in 1 .. (0 - Len(a)) % 4 |-> Pad]
<1> DEFINE Body(f) ==
             [i \in 0 .. Len(bytes) |->
                IF i = 0 THEN [val |-> 0, valb |-> -6, result |-> <<>>]
                ELSE AddByte(f[i - 1], bytes[i])]
           state == CHOOSE f : f = Body(f)
<1>1. \A f : LoopStates(f, bytes) <=> f = Body(f)
  BY DEF LoopStates, StateAt
<1>2. Base64Encode(bytes) =
        LET a == LastSextet(state[Len(bytes)])
        IN  a \o [i \in 1 .. (0 - Len(a)) % 4 |-> Pad]
  BY DEF Base64Encode
<1> HIDE DEF Body
<1>3. state = Body(state)
  BY <1>1, LoopStatesExist
<1> HIDE DEF state
<1> QED
  BY <1>1, <1>2, <1>3

\* What RFC 4648 wants, with the sextets by their name.
LEMMA Base64Is ==
  ASSUME NEW bytes \in Seq(0 .. 255)
  PROVE  Base64(bytes) = [i \in 1 .. 4 * ((Len(bytes) + 2) \div 3) |->
                            IF 6 * (i - 1) < 8 * Len(bytes) THEN SextetAt(bytes, i - 1) ELSE Pad]
<1> DEFINE byte(i) == IF i \in DOMAIN bytes THEN bytes[i] ELSE 0
           sextet(k) == LET q == (6 * k) \div 8
                            window == 256 * byte(q + 1) + byte(q + 2)
                        IN  (window \div 2 ^ (10 - ((6 * k) % 8))) % 64
           size == 4 * ((Len(bytes) + 2) \div 3)
<1>1. Base64(bytes) = [i \in 1 .. size |->
                         IF 6 * (i - 1) < 8 * Len(bytes) THEN sextet(i - 1) ELSE Pad]
  BY DEF Base64
<1>2. \A k \in Nat : sextet(k) = SextetAt(bytes, k)
  <2> TAKE k \in Nat
  <2> DEFINE q == (6 * k) \div 8
  <2>1. (q + 1) + 1 = q + 2
    OBVIOUS
  <2>2. byte(q + 1) = Byte(bytes, q + 1) /\ byte(q + 2) = Byte(bytes, (q + 1) + 1)
    BY <2>1 DEF Byte
  <2>3. sextet(k) = ((256 * byte(q + 1) + byte(q + 2)) \div 2 ^ (10 - ((6 * k) % 8))) % 64
    OBVIOUS
  <2> QED
    BY <2>2, <2>3 DEF SextetAt, Window
<1> HIDE DEF sextet, size
<1>3. \A i \in 1 .. size : i - 1 \in Nat
  OBVIOUS
<1> QED
  BY <1>1, <1>2, <1>3 DEF size

\* The numbers of sextets and of paddings.
LEMMA Sizes ==
  ASSUME NEW n \in Nat, NEW l, l = (8 * n + 5) \div 6, NEW p, p = (0 - l) % 4
  PROVE  /\ l \in Nat /\ p \in Nat /\ l + p = 4 * ((n + 2) \div 3)
         /\ \A i \in Nat \ {0} : 6 * (i - 1) < 8 * n <=> i <= l
<1> DEFINE m == n \div 3
<1>1. m \in Nat /\ n % 3 \in {0, 1, 2} /\ n = 3 * m + (n % 3)
  OBVIOUS
<1> HIDE DEF m
<1>2. CASE n % 3 = 0
  <2>1. n = 3 * m /\ l = 4 * m
    BY <1>1, <1>2
  <2>2. p = 0 /\ 4 * ((n + 2) \div 3) = 4 * m
    BY <1>1, <2>1
  <2> QED
    BY <1>1, <2>1, <2>2
<1>3. CASE n % 3 = 1
  <2>1. n = 3 * m + 1 /\ l = 4 * m + 2
    BY <1>1, <1>3
  <2>2. p = 2 /\ 4 * ((n + 2) \div 3) = 4 * m + 4
    BY <1>1, <2>1
  <2> QED
    BY <1>1, <2>1, <2>2
<1>4. CASE n % 3 = 2
  <2>1. n = 3 * m + 2 /\ l = 4 * m + 3
    BY <1>1, <1>4
  <2>2. p = 1 /\ 4 * ((n + 2) \div 3) = 4 * m + 4
    BY <1>1, <2>1
  <2> QED
    BY <1>1, <2>1, <2>2
<1> QED
  BY <1>1, <1>2, <1>3, <1>4

\* base64_encode agrees with RFC 4648 for every string of bytes.
THEOREM EncodeAgrees ==
  ASSUME NEW bytes \in Seq(0 .. 255)
  PROVE  Base64Encode(bytes) = Base64(bytes)
<1> DEFINE n == Len(bytes)
<1>1. PICK st : /\ LoopStates(st, bytes)
                /\ Base64Encode(bytes) =
                     LET a == LastSextet(st[Len(bytes)])
                     IN  a \o [i \in 1 .. (0 - Len(a)) % 4 |-> Pad]
  BY EncodeIsLoop
<1> DEFINE a == LastSextet(st[n])
           l == Len(a)
           p == (0 - l) % 4
           pads == [i \in 1 .. p |-> Pad]
           T == 0 .. 64
<1>2. Base64Encode(bytes) = a \o pads
  BY <1>1
<1>3. n \in Nat /\ LongerBy(a, (8 * n + 5) \div 6 - 1, bytes)
  BY <1>1, LoopEncodes, LastSextetIs, LenProperties
<1> HIDE DEF a, n
<1>4. l = (8 * n + 5) \div 6 /\ a \in Seq(0 .. 63) /\ Agree(a, bytes)
  BY <1>3 DEF LongerBy
<1>5. /\ l \in Nat /\ p \in Nat /\ l + p = 4 * ((n + 2) \div 3)
      /\ \A i \in Nat \ {0} : 6 * (i - 1) < 8 * n <=> i <= l
  <2> HIDE DEF l
  <2>1. p = (0 - l) % 4
    OBVIOUS
  <2> HIDE DEF p
  <2> QED
    BY SMTT(30), <1>3, <1>4, <2>1, Sizes
<1> HIDE DEF p
<1>6. pads \in Seq(T) /\ Len(pads) = p /\ \A i \in 1 .. p : pads[i] = Pad
  BY <1>5 DEF Pad
<1>7. a \in Seq(T)
  BY <1>4, SeqMonotonic
<1> HIDE DEF pads, l, T
<1>8. /\ a \o pads \in Seq(T) /\ Len(a \o pads) = Len(a) + Len(pads)
      /\ \A i \in 1 .. Len(a) + Len(pads) :
           (a \o pads)[i] = IF i <= Len(a) THEN a[i] ELSE pads[i - Len(a)]
  BY ZenonT(30), <1>6, <1>7, ConcatProperties
<1> DEFINE w == a \o pads
           size == 4 * ((n + 2) \div 3)
<1> HIDE DEF w
<1>9. /\ w \in Seq(T) /\ Len(w) = size /\ size = l + p
      /\ \A i \in 1 .. l + p : w[i] = IF i <= l THEN a[i] ELSE pads[i - l]
  BY <1>5, <1>6, <1>8 DEF w, l
<1> HIDE DEF size
<1>10. ASSUME NEW i \in 1 .. l + p
       PROVE  w[i] = IF 6 * (i - 1) < 8 * n THEN SextetAt(bytes, i - 1) ELSE Pad
  <2>1. i \in Nat \ {0} /\ (6 * (i - 1) < 8 * n <=> i <= l)
    BY <1>5
  <2>2. CASE i <= l
    <3>1. i \in 1 .. Len(a)
      BY <1>5, <2>1, <2>2 DEF l
    <3>2. a[i] = SextetAt(bytes, i - 1)
      BY <1>4, <3>1 DEF Agree
    <3> QED
      BY <1>9, <2>1, <2>2, <3>2
  <2>3. CASE ~(i <= l)
    <3>1. i - l \in 1 .. p
      BY <1>5, <2>1, <2>3
    <3>2. pads[i - l] = Pad
      BY <1>6, <3>1
    <3> QED
      BY <1>9, <2>1, <2>3, <3>2
  <2> QED
    BY <2>2, <2>3
<1>11. w = [i \in 1 .. size |-> IF 6 * (i - 1) < 8 * n THEN SextetAt(bytes, i - 1) ELSE Pad]
  <2>1. DOMAIN w = 1 .. size /\ w = [i \in DOMAIN w |-> w[i]]
    BY <1>9, LenProperties, SeqDef
  <2>2. \A i \in 1 .. size : w[i] = IF 6 * (i - 1) < 8 * n THEN SextetAt(bytes, i - 1) ELSE Pad
    BY <1>9, <1>10
  <2> QED
    BY <2>1, <2>2
<1>12. Base64(bytes) = [i \in 1 .. size |->
                          IF 6 * (i - 1) < 8 * n THEN SextetAt(bytes, i - 1) ELSE Pad]
  BY Base64Is DEF size, n
<1> QED
  BY <1>2, <1>11, <1>12 DEF w

-----------------------------------------------------------------------------
(* HttpsClient *)

\* Both delimiters of the header are made of bytes.
LEMMA Delimiters ==
  /\ \A delim \in {CRLF, ColonSpace} : delim \in Seq(0 .. 255) /\ delim # <<>>
  /\ Seq(HeaderBytes) \subseteq Seq(0 .. 255)
<1>1. CRLF \in Seq(0 .. 255) /\ CRLF # <<>> /\ ColonSpace \in Seq(0 .. 255) /\ ColonSpace # <<>>
  BY DEF CRLF, ColonSpace
<1>2. Seq(HeaderBytes) \subseteq Seq(0 .. 255)
  <2> DEFINE T == 0 .. 255
  <2>1. HeaderBytes \subseteq T
    BY HeaderBytesAssumption
  <2> HIDE DEF T
  <2>2. Seq(HeaderBytes) \subseteq Seq(T)
    BY <2>1, SeqMonotonic
  <2> QED
    BY <2>2 DEF T
<1> QED
  BY <1>1, <1>2

\* The fields are pairs of strings.
LEMMA FieldsType ==
  ASSUME NEW header \in Seq(HeaderBytes)
  PROVE  Fields(header) \in Seq(Seq(Seq(HeaderBytes)))
<1> DEFINE lines == SplitStr(header, CRLF)
           field(kv) == IF Len(kv) = 2 THEN <<kv>> ELSE <<>>
           s == [i \in DOMAIN lines |-> field(SplitStr(lines[i], ColonSpace))]
           Field == Seq(Seq(HeaderBytes))
<1>1. lines \in Seq(Seq(HeaderBytes))
  BY HeaderBytesAssumption, Delimiters, SplitOfString
<1>2. \A line \in Seq(HeaderBytes) : SplitStr(line, ColonSpace) \in Field
  BY HeaderBytesAssumption, Delimiters, SplitOfString
<1>3. Fields(header) = FlattenSeq(s)
  BY DEF Fields
<1> HIDE DEF lines, Field
<1>4. \A kv \in Field : field(kv) \in Seq(Field)
  OBVIOUS
<1> HIDE DEF field
<1>5. s \in Seq(Seq(Field))
  <2>1. Len(lines) \in Nat /\ DOMAIN lines = 1 .. Len(lines)
    BY <1>1, LenProperties
  <2>2. \A i \in 1 .. Len(lines) : field(SplitStr(lines[i], ColonSpace)) \in Seq(Field)
    BY <1>1, <1>2, <1>4, ElementOfSeq
  <2>3. s \in [1 .. Len(lines) -> Seq(Field)]
    BY <2>1, <2>2
  <2> HIDE DEF s
  <2> QED
    BY <2>1, <2>3, SeqDef
<1> HIDE DEF s
<1>6. FlattenSeq(s) \in Seq(Field)
  BY <1>5, ChainExists, FlattenIsChain
<1> QED
  BY <1>3, <1>6 DEF Field

\* The header is made of the bytes that arrived, and what is shown are strings
\* cut out of it.
THEOREM HttpsInvariant == HttpsSpec => []HttpsTypeOK
<1>1. HttpsInit => HttpsTypeOK
  <2>1. <<>> \in Seq(HeaderBytes) /\ <<>> \in Seq(Seq(Seq(HeaderBytes)))
    OBVIOUS
  <2> QED
    BY <2>1 DEF HttpsInit, HttpsTypeOK
<1>2. HttpsTypeOK /\ [HttpsNext]_httpsVars => HttpsTypeOK'
  <2> SUFFICES ASSUME HttpsTypeOK, [HttpsNext]_httpsVars PROVE HttpsTypeOK'
    OBVIOUS
  <2> USE DEF HttpsTypeOK
  <2>1. ASSUME NEW b \in HeaderBytes, HeaderCallback(b) PROVE HttpsTypeOK'
    BY <2>1, AppendProperties DEF HeaderCallback
  <2>2. CASE Show
    <3>1. Fields(headerData) \in Seq(Seq(Seq(HeaderBytes)))
      BY FieldsType
    <3> QED
      BY <2>2, <3>1 DEF Show
  <2> QED
    BY <2>1, <2>2 DEF HttpsNext, httpsVars, LoadConfig, EasyInit, SetOptions, PerformReturns,
       CleanUpCurl
<1> QED
  BY <1>1, <1>2, PTL DEF HttpsSpec

\* Whatever the header has become: splitStr splits it, at both delimiters, and
\* trim trims it, of any byte.
THEOREM HttpsTextHelpersAgree == HttpsSpec => []TextHelpersAgree
<1>1. HttpsTypeOK => TextHelpersAgree
  <2> SUFFICES ASSUME HttpsTypeOK PROVE TextHelpersAgree
    OBVIOUS
  <2>1. headerData \in Seq(HeaderBytes) /\ headerData \in Seq(0 .. 255)
    BY Delimiters DEF HttpsTypeOK
  <2>2. ASSUME NEW delim \in {CRLF, ColonSpace}
        PROVE  IsSplit(SplitStr(headerData, delim), headerData, delim)
    BY <2>1, Delimiters, SplitSplits
  <2>3. ASSUME NEW char \in HeaderBytes
        PROVE  IsTrimmed(Trim(headerData, char), headerData, char)
    BY <2>1, TrimTrims
  <2> QED
    BY <2>2, <2>3 DEF TextHelpersAgree
<1> QED
  BY <1>1, HttpsInvariant, PTL

\* Whatever the header has become, base64_encode encodes it as RFC 4648 wants,
\* with an int of any width from fourteen bits on.
THEOREM HttpsBase64Agrees == HttpsSpec => []Base64Agrees
<1>1. HttpsTypeOK => Base64Agrees
  <2> SUFFICES ASSUME HttpsTypeOK PROVE Base64Agrees
    OBVIOUS
  <2>1. headerData \in Seq(0 .. 255)
    BY Delimiters DEF HttpsTypeOK
  <2> QED
    BY <2>1, EncodeAgrees DEF Base64Agrees
<1> QED
  BY <1>1, HttpsInvariant, PTL

-----------------------------------------------------------------------------
(* MCPrograms *)

\* In the composition every program runs as it does alone: it starts like it
\* and a step of another one is a stutter.
THEOREM RunsPrograms == Spec => BufferSpec /\ SyncSpec /\ CounterSpec /\ HttpsSpec
<1>1. Init => BufferInit /\ SyncInit /\ CounterInit /\ HttpsInit
  BY DEF Init
<1>2. [Next]_vars => [BufferNext]_bufferVars
  BY DEF Next, vars, Main, Sync, CounterLocks, Https
<1>3. [Next]_vars => [SyncNext]_syncVars
  BY DEF Next, vars, Main, Sync, CounterLocks, Https
<1>4. [Next]_vars => [CounterNext]_counterVars
  BY DEF Next, vars, Main, Sync, CounterLocks, Https
<1>5. [Next]_vars => [HttpsNext]_httpsVars
  BY DEF Next, vars, Main, Sync, CounterLocks, Https
<1> QED
  BY <1>1, <1>2, <1>3, <1>4, <1>5, PTL DEF Spec, BufferSpec, SyncSpec, CounterSpec, HttpsSpec

\* The variables of every program have their types, in every program.
THEOREM ProgramsTypeOK == Spec => []TypeOK
<1> DEFINE Executable == program \in {"main", "sync", "lock", "https"}
<1>1. Init => Executable
  BY DEF Init
<1>2. Executable /\ [Next]_vars => Executable'
  BY DEF Next, vars, Main, Sync, CounterLocks, Https, Runs
<1>3. Spec => []Executable
  BY <1>1, <1>2, PTL DEF Spec
<1>4. BufferIInv /\ SyncIInv /\ CounterIInv => BufferTypeOK /\ SyncTypeOK /\ CounterTypeOK
  BY DEF BufferIInv, SyncIInv, CounterIInv
<1>5. Executable /\ BufferTypeOK /\ SyncTypeOK /\ CounterTypeOK /\ HttpsTypeOK => TypeOK
  BY DEF TypeOK
<1> QED
  BY <1>3, <1>4, <1>5, RunsPrograms, BufferInvariant, SyncInvariant, CounterInvariant,
     HttpsInvariant, PTL

\* What the run checks of the four programs, for all values of the constants.
THEOREM ProgramsSafe ==
  Spec => [](/\ ItemsOnceInOrder /\ AliveWhileUsed /\ CountsConsecutive
             /\ TextHelpersAgree /\ Base64Agrees)
  BY RunsPrograms, BufferItemsOnceInOrder, SyncAliveWhileUsed, CounterConsecutive,
     HttpsTextHelpersAgree, HttpsBase64Agrees, PTL

=============================================================================
