--------------------------- MODULE ProducerConsumer ---------------------------
(***************************************************************************)
(* The producers and consumers of src/src/concurrent/lock.h, as main.cpp   *)
(* starts them: a queue under a mutex, a condition variable that announces *)
(* every push, and consumers that wait for a non-empty queue.              *)
(*                                                                         *)
(* The condition variable is external: notify_one wakes one waiter of its  *)
(* choice, if there is one, and a waiter may wake for no reason.  A woken  *)
(* waiter takes the mutex before it goes on.                               *)
(*                                                                         *)
(* The definitions commented "Slip" are mutated forms of the definition    *)
(* that follows them; they belong to no behaviour of the specification.    *)
(***************************************************************************)
EXTENDS Naturals, Sequences, SequencesExt

CONSTANTS
  Producers,         \* two in main
  Consumers,         \* two in main
  ItemsPerProducer,  \* five in producer
  Nobody             \* owner of a free mutex

ASSUME ThreadsDistinct ==
  /\ Producers \cap Consumers = {}
  /\ Nobody \notin Producers \cup Consumers
ASSUME ItemsAssumption == ItemsPerProducer \in Nat

\* The i of a producer, with the producer to tell equal numbers apart.
Item == Producers \X (0 .. ItemsPerProducer - 1)

VARIABLES
  mtx,          \* owner of the mutex
  buffer,       \* the queue
  producer,     \* where each producer is
  produced,     \* the i of each producer's loop
  consumer,     \* where each consumer is
  item,         \* what each consumer found at the front: at most one item
  pushed,       \* history: items in the order of push
  consumed      \* history: items in the order of pop

producerVars == <<producer, produced, pushed>>
consumerVars == <<consumer, item, consumed>>
bufferVars == <<mtx, buffer, producerVars, consumerVars>>

BufferTypeOK ==
  /\ mtx \in Producers \cup Consumers \cup {Nobody}
  /\ buffer \in Seq(Item)
  /\ producer \in [Producers -> {"lock", "push", "notify", "unlock"}]
  /\ produced \in [Producers -> 0 .. ItemsPerProducer]
  /\ consumer \in [Consumers -> {"lock", "test", "waiting", "front", "pop",
                                 "unlock"}]
  /\ item \in [Consumers -> Seq(Item)]
  /\ \A c \in Consumers : Len(item[c]) = IF consumer[c] = "pop" THEN 1 ELSE 0
  /\ pushed \in Seq(Item)
  /\ consumed \in Seq(Item)

BufferInit ==
  /\ mtx = Nobody
  /\ buffer = <<>>
  /\ producer = [p \in Producers |-> "lock"]
  /\ produced = [p \in Producers |-> 0]
  /\ consumer = [c \in Consumers |-> "lock"]
  /\ item = [c \in Consumers |-> <<>>]
  /\ pushed = <<>>
  /\ consumed = <<>>

TakeMtx(t) == mtx = Nobody /\ mtx' = t
ReleaseMtx == mtx' = Nobody

-----------------------------------------------------------------------------
(* producer *)

ProducerAt(p, here, next) ==
  /\ producer[p] = here
  /\ producer' = [producer EXCEPT ![p] = next]

\* The next turn of the loop, behind the sleep.
ProducerLock(p) ==
  /\ produced[p] < ItemsPerProducer
  /\ ProducerAt(p, "lock", "push")
  /\ TakeMtx(p)
  /\ UNCHANGED <<buffer, produced, pushed, consumerVars>>

Push(p) ==
  /\ ProducerAt(p, "push", "notify")
  /\ buffer' = Append(buffer, <<p, produced[p]>>)
  /\ pushed' = Append(pushed, <<p, produced[p]>>)
  /\ UNCHANGED <<mtx, produced, consumerVars>>

Waiters == {c \in Consumers : consumer[c] = "waiting"}

\* Slip: the push is not announced.
NotifyNobody(p) ==
  /\ ProducerAt(p, "notify", "unlock")
  /\ UNCHANGED <<mtx, buffer, produced, pushed, consumerVars>>

\* notify_one, with the mutex held: the woken consumer has to take it first.
NotifyOne(p) ==
  /\ ProducerAt(p, "notify", "unlock")
  /\ \/ \E c \in Waiters : consumer' = [consumer EXCEPT ![c] = "lock"]
     \/ Waiters = {} /\ UNCHANGED consumer
  /\ UNCHANGED <<mtx, buffer, produced, pushed, item, consumed>>

ProducerUnlock(p) ==
  /\ ProducerAt(p, "unlock", "lock")
  /\ ReleaseMtx
  /\ produced' = [produced EXCEPT ![p] = @ + 1]
  /\ UNCHANGED <<buffer, pushed, consumerVars>>

Produce(p) ==
  \/ ProducerLock(p)
  \/ Push(p)
  \/ NotifyOne(p)
  \/ ProducerUnlock(p)

-----------------------------------------------------------------------------
(* consumer *)

ConsumerAt(c, here, next) ==
  /\ consumer[c] = here
  /\ consumer' = [consumer EXCEPT ![c] = next]

\* The lock of a new turn, and the relock of a consumer that was woken: both
\* lead to the predicate of cv.wait.
ConsumerLock(c) ==
  /\ ConsumerAt(c, "lock", "test")
  /\ TakeMtx(c)
  /\ UNCHANGED <<buffer, producerVars, item, consumed>>

\* cv.wait on an empty queue: the mutex is released and the consumer waits,
\* in one step.
Wait(c) ==
  /\ buffer = <<>>
  /\ ConsumerAt(c, "test", "waiting")
  /\ ReleaseMtx
  /\ UNCHANGED <<buffer, producerVars, item, consumed>>

SpuriousWakeup(c) ==
  /\ ConsumerAt(c, "waiting", "lock")
  /\ UNCHANGED <<mtx, buffer, producerVars, item, consumed>>

\* Slip: the lock is given up as soon as the wait is over.
GoOnUnlocked(c) ==
  /\ buffer # <<>>
  /\ ConsumerAt(c, "test", "front")
  /\ ReleaseMtx
  /\ UNCHANGED <<buffer, producerVars, item, consumed>>

\* The predicate holds, and the test behind the wait holds as well.
GoOn(c) ==
  /\ buffer # <<>>
  /\ ConsumerAt(c, "test", "front")
  /\ UNCHANGED <<mtx, buffer, producerVars, item, consumed>>

\* front and pop; on an empty queue, which the lock rules out, nothing.
FirstOf(queue) == IF queue = <<>> THEN <<>> ELSE <<Head(queue)>>
RestOf(queue) == IF queue = <<>> THEN <<>> ELSE Tail(queue)

ReadFront(c) ==
  /\ ConsumerAt(c, "front", "pop")
  /\ item' = [item EXCEPT ![c] = FirstOf(buffer)]
  /\ UNCHANGED <<mtx, buffer, producerVars, consumed>>

PopFront(c) ==
  /\ ConsumerAt(c, "pop", "unlock")
  /\ buffer' = RestOf(buffer)
  /\ consumed' = consumed \o item[c]
  /\ item' = [item EXCEPT ![c] = <<>>]
  /\ UNCHANGED <<mtx, producerVars>>

ConsumerUnlock(c) ==
  /\ ConsumerAt(c, "unlock", "lock")
  /\ ReleaseMtx
  /\ UNCHANGED <<buffer, producerVars, item, consumed>>

Consume(c) ==
  \/ ConsumerLock(c)
  \/ Wait(c)
  \/ GoOn(c)
  \/ ReadFront(c)
  \/ PopFront(c)
  \/ ConsumerUnlock(c)

-----------------------------------------------------------------------------
BufferNext ==
  \/ \E p \in Producers : Produce(p)
  \/ \E c \in Consumers : Consume(c) \/ SpuriousWakeup(c)

BufferSpec == BufferInit /\ [][BufferNext]_bufferVars

-----------------------------------------------------------------------------
(* Properties *)

\* The items leave the queue in the order of their pushes, each of them once,
\* although two consumers look at the front and remove it in two steps.
ItemsOnceInOrder == pushed = consumed \o buffer

\* No notification is lost: every item that was pushed is consumed, with
\* nobody but the notified consumer to look for it and whatever waiters wake
\* up without one.
PushedConsumed ==
  \A p \in Producers : \A i \in 0 .. ItemsPerProducer - 1 :
    Contains(pushed, <<p, i>>) ~> Contains(consumed, <<p, i>>)
=============================================================================
