---------------------------- MODULE LockComposite ----------------------------
(***************************************************************************)
(* The class LockComposite of src/src/lock/lock_base.cpp and the threads   *)
(* that main starts on one object of it: a thread that calls get_counter   *)
(* over and over, and two that hold the lock for a while.  The class lets  *)
(* any number of threads call get_counter.                                 *)
(*                                                                         *)
(* The constructor does not initialise the counter, so it starts with any  *)
(* value.  An increment of the largest int is undefined: any value may be  *)
(* in the counter behind it.                                               *)
(*                                                                         *)
(* The definitions commented "Slip" are mutated forms of the definition    *)
(* that follows them; they belong to no behaviour of the specification.    *)
(***************************************************************************)
EXTENDS Integers, Sequences

CONSTANTS
  Callers,       \* threads that call get_counter
  Holders,       \* t1 and t2, which hold the lock once
  INT_MIN,       \* the least int
  INT_MAX,       \* the largest int
  MaxCalls       \* bound: calls that return

ASSUME IntAssumption == INT_MIN \in Int /\ INT_MAX \in Int
ASSUME CallsAssumption == MaxCalls \in Nat
ASSUME HoldersAssumption == Callers \cap Holders = {}

Value == INT_MIN .. INT_MAX

VARIABLES
  locked,        \* threads that own the shared mutex
  counter,       \* the member of that name
  caller,        \* where each caller is in get_counter
  loaded,        \* what each caller read last
  holder,        \* where each holder is
  start,         \* history: what the counter held at first
  returned       \* history: what the calls returned, in their order

counterVars == <<locked, counter, caller, loaded, holder, start, returned>>

CounterTypeOK ==
  /\ locked \in SUBSET (Callers \cup Holders)
  /\ counter \in Value
  /\ caller \in [Callers -> {"lock", "load", "store", "return"}]
  /\ loaded \in [Callers -> Value]
  /\ holder \in [Holders -> {"lock", "holding", "done"}]
  /\ start \in Value
  /\ returned \in Seq(Value)

CounterInit ==
  /\ locked = {}
  /\ counter \in Value
  /\ caller = [c \in Callers |-> "lock"]
  /\ loaded = [c \in Callers |-> counter]
  /\ holder = [h \in Holders |-> "lock"]
  /\ start = counter
  /\ returned = <<>>

Acquire(t) == locked = {} /\ locked' = {t}
Release(t) == locked' = locked \ {t}

CallerAt(c, here, next) ==
  /\ caller[c] = here
  /\ caller' = [caller EXCEPT ![c] = next]

\* Slip: a shared_lock, which keeps out nobody who takes one as well.
CounterLockShared(c) ==
  /\ Len(returned) < MaxCalls
  /\ CallerAt(c, "lock", "load")
  /\ locked \cap Holders = {}
  /\ locked' = locked \cup {c}
  /\ UNCHANGED <<counter, loaded, holder, start, returned>>

\* The unique_lock of get_counter.
CounterLock(c) ==
  /\ Len(returned) < MaxCalls
  /\ CallerAt(c, "lock", "load")
  /\ Acquire(c)
  /\ UNCHANGED <<counter, loaded, holder, start, returned>>

\* The increment is a load and a store.
Load(c) ==
  /\ CallerAt(c, "load", "store")
  /\ loaded' = [loaded EXCEPT ![c] = counter]
  /\ UNCHANGED <<locked, counter, holder, start, returned>>

\* Slip: the counter is wider than the int it is.
StoreWide(c) ==
  /\ CallerAt(c, "store", "return")
  /\ counter' = loaded[c] + 1
  /\ UNCHANGED <<locked, loaded, holder, start, returned>>

\* The signed addition: exact as long as the sum is an int, and undefined
\* otherwise.
Incremented(n) == IF n < INT_MAX THEN {n + 1} ELSE Value

Store(c) ==
  /\ CallerAt(c, "store", "return")
  /\ counter' \in Incremented(loaded[c])
  /\ UNCHANGED <<locked, loaded, holder, start, returned>>

\* The result is loaded once more, before the lock is released.
Return(c) ==
  /\ CallerAt(c, "return", "lock")
  /\ returned' = Append(returned, counter)
  /\ Release(c)
  /\ UNCHANGED <<counter, loaded, holder, start>>

GetCounter(c) ==
  \/ CounterLock(c)
  \/ Load(c)
  \/ Store(c)
  \/ Return(c)

Hold(h) ==
  /\ holder[h] = "lock"
  /\ Acquire(h)
  /\ holder' = [holder EXCEPT ![h] = "holding"]
  /\ UNCHANGED <<counter, caller, loaded, start, returned>>

LetGo(h) ==
  /\ holder[h] = "holding"
  /\ Release(h)
  /\ holder' = [holder EXCEPT ![h] = "done"]
  /\ UNCHANGED <<counter, caller, loaded, start, returned>>

CounterNext ==
  \/ \E c \in Callers : GetCounter(c)
  \/ \E h \in Holders : Hold(h) \/ LetGo(h)

CounterSpec == CounterInit /\ [][CounterNext]_counterVars

-----------------------------------------------------------------------------
(* Properties *)

\* No increment is lost: the calls return one value after the other, each of
\* them once, from whatever the counter held on up to the largest int, with
\* the lock held by others in between.  Nothing is claimed of the calls behind
\* the increment that overflows.
CountsConsecutive ==
  \A i \in DOMAIN returned : start + i <= INT_MAX => returned[i] = start + i
=============================================================================
