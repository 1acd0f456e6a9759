--------------------------- MODULE WaitingProofs ---------------------------
(***************************************************************************)
(* ThreadSafeQueue is a FIFO whatever capacities are set, and its single   *)
(* condition variable is enough while it has none; the logger keeps every  *)
(* entry once, and a producer's lines in order: for every number of        *)
(* threads and calls.                                                      *)
(***************************************************************************)
EXTENDS ThreadSafeQueue, Logger, TLAPS

(* Sequences at their ends. *)

LEMMA LenIsNat == ASSUME NEW S, NEW q \in Seq(S) PROVE Len(q) \in Nat
OBVIOUS

LEMMA Appended ==
  ASSUME NEW S, NEW q \in Seq(S), NEW e \in S
  PROVE  /\ Append(q, e) \in Seq(S) /\ Len(Append(q, e)) = Len(q) + 1
         /\ \A i \in 1..Len(q) : Append(q, e)[i] = q[i]
         /\ Append(q, e)[Len(q) + 1] = e
OBVIOUS

LEMMA HeadAndTail ==
  ASSUME NEW S, NEW q \in Seq(S), q # <<>>
  PROVE  /\ Head(q) \in S /\ Tail(q) \in Seq(S) /\ Len(Tail(q)) = Len(q) - 1
         /\ \A i \in 1..Len(Tail(q)) : Tail(q)[i] = q[i + 1]
OBVIOUS

USE DEF Threads

(* What makes the claims inductive: who sleeps is inside a call, producers in push()
   and consumers in wait_and_pop(), and the calls are numbered. *)
CallInv ==
  /\ capacity <= Unlimited
  /\ \A t \in sleepers : call[t] # "idle"
  /\ \A p \in Producers :
       /\ calls[p] <= MaxPush
       /\ call[p] # "idle" => call[p] = "push" /\ calls[p] >= 1
  /\ \A c \in Consumers : call[c] # "push"

-----------------------------------------------------------------------------
(* The critical sections, one outcome at a time. *)

(* A push() that stores its item; one that does not is either refused after stop()
   or goes to sleep. *)
PushStores(p) ==
  /\ ~stopped /\ capacity > Len(data_queue) /\ Return(p) /\ Notify
  /\ data_queue' = Append(data_queue, <<p, calls'[p]>>)
  /\ UNCHANGED <<capacity, stopped>>
PushRefused(p) == stopped /\ Return(p) /\ UNCHANGED <<data_queue, capacity, stopped, sleepers>>
PushSleeps(p) ==
  /\ ~stopped /\ capacity <= Len(data_queue) /\ Sleep(p, "push")
  /\ UNCHANGED <<data_queue, capacity, stopped>>

(* The outcomes of wait_and_pop(). *)
PopTakes(c) ==
  /\ data_queue # <<>> /\ data_queue' = Tail(data_queue) /\ Notify /\ Return(c)
  /\ UNCHANGED <<capacity, stopped>>
PopRefused(c) ==
  data_queue = <<>> /\ Return(c) /\ UNCHANGED <<data_queue, capacity, stopped, sleepers>>
PopSleeps(c) ==
  /\ data_queue = <<>> /\ ~stopped /\ Sleep(c, "wait")
  /\ UNCHANGED <<data_queue, capacity, stopped>>

(* Who runs the critical section of push(): a new call, or one that woke up. *)
InPush(p) ==
  /\ p \notin sleepers
  /\ \/ call[p] = "idle" /\ calls[p] < MaxPush /\ calls' = [calls EXCEPT ![p] = @ + 1]
     \/ call[p] = "push" /\ calls' = calls
InPop(c) ==
  /\ c \notin sleepers
  /\ calls' = calls \/ calls' = [calls EXCEPT ![c] = @ + 1]

LEMMA PushOutcomes ==
  ASSUME CallInv, NEW p \in Producers, Push(p) \/ PushResume(p)
  PROVE  InPush(p) /\ (PushStores(p) \/ PushRefused(p) \/ PushSleeps(p))
<1>1. CASE Push(p)
  <2>1. p \notin sleepers
    BY <1>1 DEF Push, CallInv
  <2>2. QED BY <1>1, <2>1 DEF Push, PushBody, InPush, PushStores, PushRefused, PushSleeps
<1>2. CASE PushResume(p)
  BY <1>2 DEF PushResume, PushBody, InPush, PushStores, PushRefused, PushSleeps
<1>3. QED BY <1>1, <1>2

LEMMA PopOutcomes ==
  ASSUME CallInv, NEW c \in Consumers, WaitAndPop(c) \/ PopResume(c)
  PROVE  InPop(c) /\ (PopTakes(c) \/ PopRefused(c) \/ PopSleeps(c))
<1>1. CASE WaitAndPop(c)
  <2>1. c \notin sleepers
    BY <1>1 DEF WaitAndPop, CallInv
  <2>2. QED
    BY <1>1, <2>1 DEF WaitAndPop, PopBody, PopFront, InPop, PopTakes, PopRefused, PopSleeps
<1>2. CASE PopResume(c)
  BY <1>2 DEF PopResume, PopBody, PopFront, InPop, PopTakes, PopRefused, PopSleeps
<1>3. QED BY <1>1, <1>2

(* notify_one() leaves a subset of the sleepers, and wakes one if there was one. *)
LEMMA NotifyWakes ==
  ASSUME NEW S, NEW R \in AfterNotifyOne(S)
  PROVE  R \subseteq S /\ (R # {} => \E x \in S : R = S \ {x})
BY DEF AfterNotifyOne

-----------------------------------------------------------------------------
(* Types, and CallInv *)

LEMMA TypeInit ==
  ASSUME QueueAssumption, Init PROVE TypeOK /\ CallInv
<1>1. data_queue \in Seq(Producers \X Nat)
  BY DEF Init
<1>2. TypeOK
  BY ZenonT(30), <1>1 DEF Init, TypeOK, QueueAssumption
<1>3. CallInv
  BY DEF Init, CallInv, QueueAssumption
<1>4. QED BY <1>2, <1>3

LEMMA TypeStep ==
  ASSUME QueueAssumption, TypeOK, CallInv, [Next]_vars
  PROVE  TypeOK'
<1>1. ASSUME NEW p \in Producers, Push(p) \/ PushResume(p) PROVE TypeOK'
  <2>1. InPush(p) /\ (PushStores(p) \/ PushRefused(p) \/ PushSleeps(p))
    BY <1>1, PushOutcomes
  <2>2. calls' \in [Threads -> Nat]
    <3>1. calls \in [Threads -> Nat] /\ p \in Threads
      BY DEF TypeOK
    <3>2. QED BY <2>1, <3>1 DEF InPush
  <2>3. CASE PushStores(p)
    <3>1. data_queue' \in Seq(Producers \X Nat)
      BY <2>2, <2>3, Appended DEF PushStores, TypeOK
    <3>2. sleepers' \subseteq Threads
      BY <2>3, NotifyWakes DEF PushStores, Notify, TypeOK
    <3>3. QED BY <2>2, <2>3, <3>1, <3>2 DEF PushStores, Return, TypeOK
  <2>4. CASE PushRefused(p)
    BY <2>2, <2>4 DEF PushRefused, Return, TypeOK
  <2>5. CASE PushSleeps(p)
    BY <2>2, <2>5 DEF PushSleeps, Sleep, TypeOK
  <2>6. QED BY <2>1, <2>3, <2>4, <2>5
<1>2. ASSUME NEW c \in Consumers, WaitAndPop(c) \/ PopResume(c) PROVE TypeOK'
  <2>1. InPop(c) /\ (PopTakes(c) \/ PopRefused(c) \/ PopSleeps(c))
    BY <1>2, PopOutcomes
  <2>2. calls' \in [Threads -> Nat]
    BY <2>1 DEF InPop, TypeOK
  <2>3. CASE PopTakes(c)
    <3>1. data_queue' \in Seq(Producers \X Nat)
      BY <2>3, HeadAndTail DEF PopTakes, TypeOK
    <3>2. sleepers' \subseteq Threads
      BY <2>3, NotifyWakes DEF PopTakes, Notify, TypeOK
    <3>3. QED BY <2>2, <2>3, <3>1, <3>2 DEF PopTakes, Return, TypeOK
  <2>4. CASE PopRefused(c)
    BY <2>2, <2>4 DEF PopRefused, Return, TypeOK
  <2>5. CASE PopSleeps(c)
    BY <2>2, <2>5 DEF PopSleeps, Sleep, TypeOK
  <2>6. QED BY <2>1, <2>3, <2>4, <2>5
<1>3. ASSUME NEW c \in Consumers, TryPop(c) PROVE TypeOK'
  <2>1. data_queue' \in Seq(Producers \X Nat)
    BY <1>3, HeadAndTail DEF TryPop, PopFront, TypeOK
  <2>2. QED BY <1>3, <2>1 DEF TryPop, TypeOK
<1>4. ASSUME NEW t \in Threads, SpuriousWakeup(t) PROVE TypeOK'
  BY <1>4 DEF SpuriousWakeup, TypeOK
<1>5. ASSUME NEW cap \in Capacities, SetCapacity(cap) PROVE TypeOK'
  BY <1>5 DEF SetCapacity, TypeOK, QueueAssumption
<1>6. CASE Stop
  BY <1>6 DEF Stop, TypeOK, AfterNotifyAll
<1>7. CASE UNCHANGED vars
  BY <1>7 DEF vars, TypeOK
<1>8. QED BY <1>1, <1>2, <1>3, <1>4, <1>5, <1>6, <1>7 DEF Next

LEMMA CallStep ==
  ASSUME QueueAssumption, TypeOK, CallInv, [Next]_vars
  PROVE  CallInv'
<1>0. /\ call \in [Threads -> {"idle", "push", "wait"}]
      /\ calls \in [Threads -> Nat] /\ MaxPush \in Nat
      /\ sleepers \subseteq Threads /\ Producers \cap Consumers = {}
  BY DEF TypeOK, QueueAssumption
<1>1. ASSUME NEW p \in Producers, Push(p) \/ PushResume(p) PROVE CallInv'
  <2>1. InPush(p) /\ (PushStores(p) \/ PushRefused(p) \/ PushSleeps(p))
    BY <1>1, PushOutcomes
  <2>2. \A r \in Producers :
          /\ calls'[r] <= MaxPush
          /\ r # p => calls'[r] = calls[r]
    BY <1>0, <2>1 DEF InPush, CallInv
  <2>3. calls'[p] >= 1
    BY <1>0, <2>1 DEF InPush, CallInv
  <2>4. CASE PushStores(p)
    <3>1. sleepers' \subseteq sleepers
      BY <2>4, NotifyWakes DEF PushStores, Notify
    <3>2. QED BY <1>0, <2>1, <2>2, <2>4, <3>1 DEF PushStores, Return, CallInv, InPush
  <2>5. CASE PushRefused(p)
    BY <1>0, <2>1, <2>2, <2>5 DEF PushRefused, Return, CallInv, InPush
  <2>6. CASE PushSleeps(p)
    BY <1>0, <2>1, <2>2, <2>3, <2>6 DEF PushSleeps, Sleep, CallInv
  <2>7. QED BY <2>1, <2>4, <2>5, <2>6
<1>2. ASSUME NEW c \in Consumers, WaitAndPop(c) \/ PopResume(c) PROVE CallInv'
  <2>1. InPop(c) /\ (PopTakes(c) \/ PopRefused(c) \/ PopSleeps(c))
    BY <1>2, PopOutcomes
  <2>2. \A r \in Producers : calls'[r] = calls[r] /\ r # c
    BY <1>0, <2>1 DEF InPop
  <2>3. CASE PopTakes(c)
    <3>1. sleepers' \subseteq sleepers
      BY <2>3, NotifyWakes DEF PopTakes, Notify
    <3>2. QED BY <1>0, <2>1, <2>2, <2>3, <3>1 DEF PopTakes, Return, CallInv, InPop
  <2>4. CASE PopRefused(c)
    BY <1>0, <2>1, <2>2, <2>4 DEF PopRefused, Return, CallInv, InPop
  <2>5. CASE PopSleeps(c)
    BY <1>0, <2>1, <2>2, <2>5 DEF PopSleeps, Sleep, CallInv
  <2>6. QED BY <2>1, <2>3, <2>4, <2>5
<1>3. ASSUME NEW c \in Consumers, TryPop(c) PROVE CallInv'
  BY <1>0, <1>3 DEF TryPop, CallInv
<1>4. ASSUME NEW t \in Threads, SpuriousWakeup(t) PROVE CallInv'
  BY <1>0, <1>4 DEF SpuriousWakeup, CallInv
<1>5. ASSUME NEW cap \in Capacities, SetCapacity(cap) PROVE CallInv'
  BY <1>5 DEF SetCapacity, CallInv, QueueAssumption
<1>6. CASE Stop
  BY <1>0, <1>6 DEF Stop, CallInv, AfterNotifyAll
<1>7. CASE UNCHANGED vars
  BY <1>7 DEF vars, CallInv
<1>8. QED BY <1>1, <1>2, <1>3, <1>4, <1>5, <1>6, <1>7 DEF Next

-----------------------------------------------------------------------------
(* Items enter and leave as in module Fifo. *)
LEMMA FifoStep ==
  ASSUME QueueAssumption, TypeOK, CallInv, TypeOK', CallInv', [Next]_vars
  PROVE  [Queue!Next]_data_queue
<1>1. ASSUME NEW p \in Producers, Push(p) \/ PushResume(p) PROVE [Queue!Next]_data_queue
  <2>1. InPush(p) /\ (PushStores(p) \/ PushRefused(p) \/ PushSleeps(p))
    BY <1>1, PushOutcomes
  <2>2. CASE PushStores(p)
    <3>1. calls'[p] \in 1..MaxPush
      BY <2>1 DEF InPush, CallInv, TypeOK, QueueAssumption
    <3>2. Len(data_queue) < Unlimited
      BY <2>2, LenIsNat DEF PushStores, CallInv, TypeOK, QueueAssumption
    <3>3. Queue!Put(<<p, calls'[p]>>)
      BY <2>2, <3>2 DEF PushStores, Queue!Put
    <3>4. QED BY <3>1, <3>3 DEF Queue!Next
  <2>3. QED BY <2>1, <2>2 DEF PushRefused, PushSleeps
<1>2. ASSUME NEW c \in Consumers, WaitAndPop(c) \/ PopResume(c) PROVE [Queue!Next]_data_queue
  BY <1>2, PopOutcomes DEF PopTakes, PopRefused, PopSleeps, Queue!Next, Queue!Take
<1>3. ASSUME NEW c \in Consumers, TryPop(c) PROVE [Queue!Next]_data_queue
  BY <1>3 DEF TryPop, PopFront, Queue!Next, Queue!Take
<1>4. ASSUME NEW t \in Threads, SpuriousWakeup(t) PROVE [Queue!Next]_data_queue
  BY <1>4 DEF SpuriousWakeup
<1>5. CASE Stop \/ UNCHANGED vars \/ \E cap \in Capacities : SetCapacity(cap)
  BY <1>5 DEF Stop, vars, SetCapacity
<1>6. QED BY <1>1, <1>2, <1>3, <1>4, <1>5 DEF Next

(* The queue is the FIFO of module Fifo, whatever capacities set_capacity() is given
   and whichever of its pops the clients use. *)
THEOREM SharedQueueIsFifo == QueueAssumption => (Spec => ImplementsFifo)
<1> SUFFICES ASSUME QueueAssumption PROVE Spec => ImplementsFifo
  OBVIOUS
<1>1. Init => Queue!Init /\ TypeOK /\ CallInv
  BY ZenonT(30), TypeInit DEF Init, Queue!Init
<1>2. TypeOK /\ CallInv /\ [Next]_vars => TypeOK' /\ CallInv'
  BY TypeStep, CallStep
<1>3. TypeOK /\ CallInv /\ [Next]_vars => [Queue!Next]_data_queue
  BY TypeStep, CallStep, FifoStep
<1>4. QED BY <1>1, <1>2, <1>3, PTL DEF Spec, ImplementsFifo, Queue!Spec

-----------------------------------------------------------------------------
(* One condition variable is enough while no capacity is set: no producer is then
   inside push() between two critical sections, so that a notification can only go
   to a consumer. *)
NoPushWaits == capacity = Unlimited => \A p \in Producers : call[p] = "idle"

LEMMA AwakeStep ==
  ASSUME QueueAssumption, Unlimited \notin Capacities, TypeOK, CallInv, NoPushWaits,
         SomebodyIsAwake, Len(data_queue) < Unlimited, [Next]_vars
  PROVE  NoPushWaits' /\ SomebodyIsAwake'
<1>0. /\ call \in [Threads -> {"idle", "push", "wait"}]
      /\ sleepers \subseteq Threads /\ Producers \cap Consumers = {}
      /\ \A t \in sleepers : call[t] # "idle"
  BY DEF TypeOK, QueueAssumption, CallInv
<1>1. ASSUME NEW t \in Threads, NEW x \in sleepers, sleepers' = sleepers \ {x}, t \notin sleepers,
             Return(t)
      PROVE  SomebodyIsAwake'
  <2>1. x \in Woken'
    BY <1>0, <1>1 DEF Woken, Return
  <2>2. QED BY <2>1 DEF SomebodyIsAwake
<1>2. ASSUME NEW p \in Producers, Push(p) \/ PushResume(p)
      PROVE  NoPushWaits' /\ SomebodyIsAwake'
  <2>1. InPush(p) /\ (PushStores(p) \/ PushRefused(p) \/ PushSleeps(p))
    BY <1>2, PushOutcomes
  <2>2. CASE capacity # Unlimited
    BY <2>1, <2>2 DEF PushStores, PushRefused, PushSleeps, NoPushWaits, SomebodyIsAwake
  <2>3. CASE capacity = Unlimited /\ PushStores(p)
    <3>1. NoPushWaits'
      BY <1>0, <2>3 DEF PushStores, Return, NoPushWaits
    <3>2. CASE sleepers' = {}
      BY <3>1, <3>2 DEF SomebodyIsAwake
    <3>3. CASE sleepers' # {}
      <4>1. PICK x \in sleepers : sleepers' = sleepers \ {x}
        BY <2>3, <3>3, NotifyWakes DEF PushStores, Notify
      <4>2. QED BY <1>1, <2>1, <2>3, <3>1, <4>1 DEF InPush, PushStores
    <3>4. QED BY <3>2, <3>3
  <2>4. CASE capacity = Unlimited /\ PushRefused(p)
    <3>1. call[p] = "idle" /\ call' = call
      BY <1>0, <2>4 DEF PushRefused, Return, NoPushWaits
    <3>2. QED BY <2>4, <3>1 DEF PushRefused, NoPushWaits, SomebodyIsAwake, Woken
  <2>5. CASE capacity = Unlimited /\ PushSleeps(p)
    BY <2>5, LenIsNat DEF PushSleeps, TypeOK, QueueAssumption
  <2>6. QED BY <2>1, <2>2, <2>3, <2>4, <2>5
<1>3. ASSUME NEW c \in Consumers, WaitAndPop(c) \/ PopResume(c)
      PROVE  NoPushWaits' /\ SomebodyIsAwake'
  <2>1. InPop(c) /\ (PopTakes(c) \/ PopRefused(c) \/ PopSleeps(c))
    BY <1>3, PopOutcomes
  <2>2. NoPushWaits'
    BY <1>0, <2>1 DEF PopTakes, PopRefused, PopSleeps, Sleep, Return, NoPushWaits
  <2>3. CASE PopTakes(c)
    <3>1. CASE sleepers' = {}
      BY <2>2, <3>1 DEF SomebodyIsAwake
    <3>2. CASE sleepers' # {}
      <4>1. PICK x \in sleepers : sleepers' = sleepers \ {x}
        BY <2>3, <3>2, NotifyWakes DEF PopTakes, Notify
      <4>2. QED BY <1>1, <2>1, <2>2, <2>3, <4>1 DEF InPop, PopTakes
    <3>3. QED BY <3>1, <3>2
  <2>4. CASE PopRefused(c) \/ PopSleeps(c)
    BY <2>2, <2>4 DEF PopRefused, PopSleeps, SomebodyIsAwake
  <2>5. QED BY <2>1, <2>3, <2>4
<1>4. ASSUME NEW c \in Consumers, TryPop(c) PROVE NoPushWaits' /\ SomebodyIsAwake'
  BY <1>4 DEF TryPop, NoPushWaits, SomebodyIsAwake, Woken
<1>5. ASSUME NEW t \in Threads, SpuriousWakeup(t) PROVE NoPushWaits' /\ SomebodyIsAwake'
  <2>1. t \in Woken'
    BY <1>0, <1>5 DEF SpuriousWakeup, Woken
  <2>2. QED BY <1>5, <2>1 DEF SpuriousWakeup, NoPushWaits, SomebodyIsAwake
<1>6. ASSUME NEW cap \in Capacities, SetCapacity(cap) PROVE NoPushWaits' /\ SomebodyIsAwake'
  BY <1>6 DEF SetCapacity, NoPushWaits, SomebodyIsAwake
<1>7. CASE Stop
  BY <1>7 DEF Stop, AfterNotifyAll, NoPushWaits, SomebodyIsAwake
<1>8. CASE UNCHANGED vars
  BY <1>8 DEF vars, NoPushWaits, SomebodyIsAwake, Woken
<1>9. QED BY <1>2, <1>3, <1>4, <1>5, <1>6, <1>7, <1>8 DEF Next

(* While no capacity has been set and the queue stays below the default one, a consumer
   asleep in wait_and_pop() beside an item has somebody awake inside the queue, for
   every number of threads, with spurious wakeups and try_pop() in between. *)
THEOREM OneConditionIsEnough ==
  ASSUME QueueAssumption, Unlimited \notin Capacities
  PROVE  Spec /\ [](Len(data_queue) < Unlimited) => []SomebodyIsAwake
<1>1. Init => TypeOK /\ CallInv /\ NoPushWaits /\ SomebodyIsAwake
  BY ZenonT(30), TypeInit DEF Init, NoPushWaits, SomebodyIsAwake
<1>2. TypeOK /\ CallInv /\ [Next]_vars => TypeOK' /\ CallInv'
  BY TypeStep, CallStep
<1>3. /\ TypeOK /\ CallInv /\ NoPushWaits /\ SomebodyIsAwake
      /\ Len(data_queue) < Unlimited /\ [Next]_vars
      => NoPushWaits' /\ SomebodyIsAwake'
  BY AwakeStep
<1>4. QED BY <1>1, <1>2, <1>3, PTL DEF Spec

-----------------------------------------------------------------------------
LEMMA Joined ==
  ASSUME NEW S, NEW b \in Seq(S), NEW c \in Seq(S)
  PROVE  /\ b \o c \in Seq(S) /\ Len(b \o c) = Len(b) + Len(c)
         /\ \A i \in 1..Len(b) : (b \o c)[i] = b[i]
         /\ \A i \in 1..Len(c) : (b \o c)[Len(b) + i] = c[i]
OBVIOUS
-----------------------------------------------------------------------------
(* The logger.  Entries only move: a step takes some from one place and puts them
   in another, or adds a new one. *)

Lines == Loggers \X Nat
Precede(S, T) == \A d \in S, e \in T : Before(d, e)

LEMMA OfEmpty == In(<<>>) = {} /\ Once(<<>>) /\ InOrder(<<>>) /\ \A S : <<>> \in Seq(S)
BY DEF In, Once, InOrder

LEMMA InTail ==
  ASSUME NEW s \in Seq(Lines), s # <<>>
  PROVE  /\ Tail(s) \in Seq(Lines) /\ Head(s) \in Lines /\ Head(s) \in In(s)
         /\ In(s) = {Head(s)} \cup In(Tail(s))
         /\ Once(s) => Once(Tail(s)) /\ Head(s) \notin In(Tail(s))
         /\ InOrder(s) => InOrder(Tail(s)) /\ Precede({Head(s)}, In(Tail(s)))
<1> DEFINE r == Tail(s)
<1>1. /\ r \in Seq(Lines) /\ Len(s) \in Nat /\ Len(r) = Len(s) - 1 /\ Len(s) >= 1
      /\ \A i \in 1..Len(r) : r[i] = s[i + 1]
      /\ Head(s) = s[1] /\ s[1] \in Lines
  OBVIOUS
<1> HIDE DEF r
<1>2. /\ Head(s) \in In(s) /\ \A x \in In(r) : \E i \in 2..Len(s) : x = s[i]
      /\ \A i \in 2..Len(s) : s[i] \in In(r)
  <2>1. \A i \in 2..Len(s) : i - 1 \in 1..Len(r) /\ (i - 1) + 1 = i
    BY <1>1
  <2>2. \A i \in 1..Len(r) : i + 1 \in 2..Len(s)
    BY <1>1
  <2>3. 1 \in 1..Len(s)
    BY <1>1
  <2>4. \A i \in 2..Len(s) : s[i] = r[i - 1]
    BY <2>1, <1>1
  <2>5. Head(s) \in In(s)
    BY <1>1, <2>3 DEF In
  <2>6. \A i \in 2..Len(s) : s[i] \in In(r)
    BY Zenon, <2>1, <2>4 DEF In
  <2>7. ASSUME NEW x \in In(r) PROVE \E i \in 2..Len(s) : x = s[i]
    BY Zenon, <1>1, <2>2 DEF In
  <2>8. QED BY Zenon, <2>5, <2>6, <2>7
<1>3. \A i \in 1..Len(s) : i = 1 \/ i \in 2..Len(s)
  BY <1>1
<1>4. \A i \in 2..Len(s) : i \in 1..Len(s) /\ 1 < i /\ 1 # i /\ 1 \in 1..Len(s)
  BY <1>1
<1>5. In(s) = {Head(s)} \cup In(r)
  <2>1. \A x \in In(s) : x = Head(s) \/ x \in In(r)
    BY ZenonT(30), <1>1, <1>2, <1>3 DEF In
  <2>2. \A x \in In(r) : x \in In(s)
    BY Zenon, <1>2, <1>4 DEF In
  <2>3. QED BY <1>2, <2>1, <2>2
<1>6. \A i \in 1..Len(r) : i + 1 \in 1..Len(s)
  BY <1>1
<1>7. Once(s) => Once(r) /\ Head(s) \notin In(r)
  <2>1. ASSUME Once(s), NEW i \in 1..Len(r), NEW j \in 1..Len(r), r[i] = r[j] PROVE i = j
    <3>1. i + 1 \in 1..Len(s) /\ j + 1 \in 1..Len(s)
      BY Zenon, <1>6
    <3>2. s[i + 1] = s[j + 1]
      BY Zenon, <1>1, <2>1
    <3>3. i + 1 = j + 1
      BY Zenon, <3>1, <3>2, <2>1 DEF Once
    <3>4. QED BY <1>1, <3>3
  <2>2. ASSUME Once(s), Head(s) \in In(r) PROVE FALSE
    BY Zenon, <1>1, <1>2, <1>4, <2>2 DEF Once
  <2>3. QED BY Zenon, <2>1, <2>2 DEF Once
<1>8. ASSUME InOrder(s) PROVE InOrder(r) /\ Precede({Head(s)}, In(r))
  <2>1. ASSUME NEW i \in 1..Len(r), NEW j \in 1..Len(r), i < j PROVE Before(r[i], r[j])
    <3>1. i + 1 \in 1..Len(s) /\ j + 1 \in 1..Len(s) /\ i + 1 < j + 1
      BY <1>6, <2>1
    <3>2. Before(s[i + 1], s[j + 1])
      BY Zenon, <3>1, <1>8 DEF InOrder
    <3>3. r[i] = s[i + 1] /\ r[j] = s[j + 1]
      BY Zenon, <1>1
    <3>4. QED BY Zenon, <3>2, <3>3
  <2>2. ASSUME NEW x \in In(r) PROVE Before(Head(s), x)
    BY ZenonT(30), <1>1, <1>2, <1>4, <1>8 DEF InOrder
  <2>3. QED BY Zenon, <2>1, <2>2 DEF InOrder, Precede
<1>9. QED BY Zenon, <1>1, <1>2, <1>5, <1>7, <1>8 DEF r

LEMMA InJoined ==
  ASSUME NEW s \in Seq(Lines), NEW u \in Seq(Lines)
  PROVE  /\ s \o u \in Seq(Lines) /\ In(s \o u) = In(s) \cup In(u)
         /\ Once(s) /\ Once(u) /\ In(s) \cap In(u) = {} => Once(s \o u)
         /\ InOrder(s) /\ InOrder(u) /\ Precede(In(s), In(u)) => InOrder(s \o u)
<1> DEFINE r == s \o u
           n == Len(s)
<1>1. /\ r \in Seq(Lines) /\ Len(r) = n + Len(u)
      /\ \A i \in 1..n : r[i] = s[i]
      /\ \A i \in 1..Len(u) : r[n + i] = u[i]
  BY Joined
<1>2. n \in Nat /\ Len(u) \in Nat
  OBVIOUS
<1> HIDE DEF r
<1>3. \A i \in 1..Len(r) : i \in 1..n \/ (i - n \in 1..Len(u) /\ n + (i - n) = i)
  BY <1>1, <1>2
<1>4. \A i \in 1..n : i \in 1..Len(r)
  BY <1>1, <1>2
<1>5. \A i \in 1..Len(u) : n + i \in 1..Len(r)
  BY <1>1, <1>2
<1> HIDE DEF n
<1>6. \A i \in 1..Len(r) : \/ i \in 1..n /\ r[i] = s[i] /\ r[i] \in In(s)
                           \/ i - n \in 1..Len(u) /\ r[i] = u[i - n] /\ r[i] \in In(u)
  BY <1>1, <1>3 DEF In, n
<1>7. In(r) = In(s) \cup In(u)
  <2>1. \A x \in In(s) : x \in In(r)
    BY <1>1, <1>4 DEF In, n
  <2>2. \A x \in In(u) : x \in In(r)
    BY <1>1, <1>5 DEF In
  <2>3. \A x \in In(r) : x \in In(s) \cup In(u)
    BY Zenon, <1>6 DEF In
  <2>4. QED BY <2>1, <2>2, <2>3
<1>8. ASSUME Once(s), Once(u), In(s) \cap In(u) = {} PROVE Once(r)
  <2>1. SUFFICES ASSUME NEW i \in 1..Len(r), NEW j \in 1..Len(r), r[i] = r[j] PROVE i = j
    BY DEF Once
  <2>2. CASE i \in 1..n /\ r[i] = s[i] /\ r[i] \in In(s)
    <3>1. j \in 1..n /\ r[j] = s[j]
      BY ZenonT(30), <1>6, <1>8, <2>1, <2>2
    <3>2. QED BY Zenon, <1>8, <2>1, <2>2, <3>1 DEF Once, n
  <2>3. CASE i - n \in 1..Len(u) /\ r[i] = u[i - n] /\ r[i] \in In(u)
    <3>1. j - n \in 1..Len(u) /\ r[j] = u[j - n]
      BY ZenonT(30), <1>6, <1>8, <2>1, <2>3
    <3>2. i - n = j - n
      BY Zenon, <1>8, <2>1, <2>3, <3>1 DEF Once
    <3>3. QED BY <3>2, <1>2
  <2>4. QED BY Zenon, <1>6, <2>2, <2>3
<1>9. ASSUME InOrder(s), InOrder(u), Precede(In(s), In(u)) PROVE InOrder(r)
  <2>1. SUFFICES ASSUME NEW i \in 1..Len(r), NEW j \in 1..Len(r), i < j PROVE Before(r[i], r[j])
    BY DEF InOrder
  <2>2. CASE i \in 1..n /\ r[i] = s[i] /\ r[i] \in In(s)
    <3>1. CASE j \in 1..n /\ r[j] = s[j]
      BY Zenon, <1>9, <2>1, <2>2, <3>1 DEF InOrder, n
    <3>2. CASE r[j] \in In(u)
      BY Zenon, <1>9, <2>2, <3>2 DEF Precede
    <3>3. QED BY Zenon, <1>6, <3>1, <3>2
  <2>3. CASE i - n \in 1..Len(u) /\ r[i] = u[i - n] /\ r[i] \in In(u)
    <3>1. j \notin 1..n
      BY <1>2, <2>1, <2>3
    <3>2. j - n \in 1..Len(u) /\ r[j] = u[j - n]
      BY Zenon, <1>6, <3>1
    <3>3. i - n < j - n
      BY <1>2, <2>1
    <3>4. QED BY Zenon, <1>9, <2>3, <3>2, <3>3 DEF InOrder
  <2>4. QED BY Zenon, <1>6, <2>2, <2>3
<1>10. QED BY Zenon, <1>1, <1>7, <1>8, <1>9 DEF r

LEMMA InAppend ==
  ASSUME NEW s \in Seq(Lines), NEW e \in Lines
  PROVE  /\ Append(s, e) \in Seq(Lines) /\ In(Append(s, e)) = In(s) \cup {e}
         /\ Once(s) /\ e \notin In(s) => Once(Append(s, e))
         /\ InOrder(s) /\ Precede(In(s), {e}) => InOrder(Append(s, e))
<1> DEFINE r == Append(s, e)
           n == Len(s)
<1>1. /\ r \in Seq(Lines) /\ Len(r) = n + 1 /\ n \in Nat
      /\ \A i \in 1..n : r[i] = s[i]
      /\ r[n + 1] = e
  OBVIOUS
<1> HIDE DEF r
<1>2. /\ \A i \in 1..Len(r) : i \in 1..n \/ i = n + 1
      /\ \A i \in 1..n : i \in 1..Len(r) /\ i < n + 1
      /\ n + 1 \in 1..Len(r)
      /\ \A j \in 1..n : ~(n + 1 < j)
      /\ ~(n + 1 < n + 1)
  BY <1>1
<1>3. In(r) = In(s) \cup {e}
  BY <1>1, <1>2 DEF In
<1>4. \A i \in 1..n : s[i] \in In(s)
  BY DEF In
<1>5. Once(s) /\ e \notin In(s) => Once(r)
  BY <1>1, <1>2, <1>4 DEF Once
<1>6. ASSUME InOrder(s), Precede(In(s), {e}) PROVE InOrder(r)
  <2>1. \A i \in 1..n : Before(s[i], e)
    BY Zenon, <1>4, <1>6 DEF Precede
  <2>2. \A i, j \in 1..n : i < j => Before(s[i], s[j])
    BY <1>6 DEF InOrder
  <2>3. QED BY Zenon, <1>1, <1>2, <2>1, <2>2 DEF InOrder
<1>7. QED BY Zenon, <1>1, <1>3, <1>5, <1>6 DEF r

-----------------------------------------------------------------------------
(* The places, whose contents are disjoint and make up all there is. *)

Parted(G, P, E) ==
  /\ \A x, y \in P : x # y => G[x] \cap G[y] = {}
  /\ UNION {G[x] : x \in P} = E

(* Some of what is in x moves to y. *)
Moves(G, H, P, M, x, y) ==
  /\ x \in P /\ y \in P /\ x # y /\ M \subseteq G[x]
  /\ H[x] = G[x] \ M /\ H[y] = G[y] \cup M
  /\ \A z \in P : z # x /\ z # y => H[z] = G[z]

LEMMA MoveKeeps ==
  ASSUME NEW P, NEW G, NEW H, NEW E, NEW M, NEW x, NEW y,
         Moves(G, H, P, M, x, y), Parted(G, P, E)
  PROVE  Parted(H, P, E)
<1>1. \A z \in P : H[z] = IF z = x THEN G[x] \ M ELSE IF z = y THEN G[y] \cup M ELSE G[z]
  BY SMTT(30) DEF Moves
<1>2. x \in P /\ y \in P /\ x # y /\ M \subseteq G[x]
  BY DEF Moves
<1>3. \A e : \A u, v \in P : u # v => ~(e \in G[u] /\ e \in G[v])
  BY DEF Parted
<1>4. \A e : e \in E <=> \E u \in P : e \in G[u]
  BY DEF Parted
<1>5. ASSUME NEW u \in P, NEW v \in P, NEW e, u # v, e \in H[u], e \in H[v] PROVE FALSE
  BY <1>1, <1>2, <1>3, <1>5
<1>6. ASSUME NEW e PROVE e \in E <=> \E u \in P : e \in H[u]
  <2>1. ASSUME NEW u \in P, e \in G[u] PROVE \E v \in P : e \in H[v]
    <3>1. CASE u = x /\ e \in M
      BY <1>1, <1>2, <3>1
    <3>2. CASE ~(u = x /\ e \in M)
      BY <1>1, <1>2, <2>1, <3>2
    <3>3. QED BY <3>1, <3>2
  <2>2. ASSUME NEW u \in P, e \in H[u] PROVE \E v \in P : e \in G[v]
    BY <1>1, <1>2, <2>2
  <2>3. QED BY <1>4, <2>1, <2>2
<1>7. QED BY <1>5, <1>6 DEF Parted

LEMMA NewKeeps ==
  ASSUME NEW P, NEW G, NEW H, NEW E, NEW n, NEW x \in P, n \notin E,
         H[x] = G[x] \cup {n}, \A z \in P : z # x => H[z] = G[z], Parted(G, P, E)
  PROVE  Parted(H, P, E \cup {n})
<1>1. \A z \in P : H[z] = IF z = x THEN G[x] \cup {n} ELSE G[z]
  OBVIOUS
<1>2. \A e : \A u, v \in P : u # v => ~(e \in G[u] /\ e \in G[v])
  BY DEF Parted
<1>3. \A e : e \in E <=> \E u \in P : e \in G[u]
  BY DEF Parted
<1>4. ASSUME NEW u \in P, NEW v \in P, NEW e, u # v, e \in H[u], e \in H[v] PROVE FALSE
  BY <1>1, <1>2, <1>3, <1>4
<1>5. ASSUME NEW e PROVE e \in E \cup {n} <=> \E u \in P : e \in H[u]
  BY SMTT(30), <1>1, <1>3
<1>6. QED BY <1>4, <1>5 DEF Parted

(* What is where, as a function of the variables. *)
Has(q, b, f, d, w, h) ==
  [x \in Places |->
     CASE x[1] = "queue" -> In(q)
       [] x[1] = "buffer" -> In(b)
       [] x[1] = "file" -> In(f)
       [] x[1] = "dropped" -> d
       [] x[1] = "out" -> In(w[x[2]])
       [] x[1] = "hand" -> {h[x[2]]} \ {None}]

IsAt(G, q, b, f, d, w, h) ==
  /\ G[<<"queue", None>>] = In(q) /\ G[<<"buffer", None>>] = In(b)
  /\ G[<<"file", None>>] = In(f) /\ G[<<"dropped", None>>] = d
  /\ \A t \in LogThreads : G[<<"out", t>>] = In(w[t]) /\ G[<<"hand", t>>] = {h[t]} \ {None}

LEMMA HasAt ==
  ASSUME NEW q, NEW b, NEW f, NEW d, NEW w, NEW h
  PROVE  IsAt(Has(q, b, f, d, w, h), q, b, f, d, w, h)
BY DEF Has, Places, IsAt

LEMMA PlacesAre ==
  /\ {<<"queue", None>>, <<"buffer", None>>, <<"file", None>>, <<"dropped", None>>} \subseteq Places
  /\ \A t \in LogThreads : <<"out", t>> \in Places /\ <<"hand", t>> \in Places
  /\ \A x \in Places : \/ x \in {<<"queue", None>>, <<"buffer", None>>, <<"file", None>>,
                                  <<"dropped", None>>}
                         \/ \E t \in LogThreads : x = <<"out", t>> \/ x = <<"hand", t>>
BY DEF Places

LEMMA NamesDiffer ==
  /\ \A k, l, a, b : <<k, a>> = <<l, b>> => k = l /\ a = b
  /\ "queue" # "buffer" /\ "queue" # "file" /\ "queue" # "dropped" /\ "queue" # "out"
  /\ "queue" # "hand" /\ "buffer" # "file" /\ "buffer" # "dropped" /\ "buffer" # "out"
  /\ "buffer" # "hand" /\ "file" # "dropped" /\ "file" # "out" /\ "file" # "hand"
  /\ "dropped" # "out" /\ "dropped" # "hand" /\ "out" # "hand"
OBVIOUS

(* A state of the places in which no entry is lost or doubled, and the moves. *)
Good(q, b, f, d, w, h, E) ==
  /\ q \in Seq(Lines) /\ b \in Seq(Lines) /\ f \in Seq(Lines)
  /\ w \in [LogThreads -> Seq(Lines)] /\ h \in [LogThreads -> Lines \cup {None}]
  /\ Once(q) /\ Once(b) /\ Once(f) /\ \A t \in LogThreads : Once(w[t])
  /\ Parted(Has(q, b, f, d, w, h), Places, E)

LEMMA QueueToDropped ==
  ASSUME NEW q, NEW b, NEW f, NEW d, NEW w, NEW h, NEW E, Good(q, b, f, d, w, h, E),
         q # <<>>
  PROVE  Good(Tail(q), b, f, d \cup {Head(q)}, w, h, E)
<1> DEFINE G == Has(q, b, f, d, w, h)
           H == Has(Tail(q), b, f, d \cup {Head(q)}, w, h)
<1>1. /\ q \in Seq(Lines) /\ b \in Seq(Lines) /\ f \in Seq(Lines)
      /\ w \in [LogThreads -> Seq(Lines)] /\ h \in [LogThreads -> Lines \cup {None}]
      /\ Once(q) /\ Once(b) /\ Once(f) /\ \A u \in LogThreads : Once(w[u])
      /\ Parted(G, Places, E)
  BY Zenon DEF Good
<1>2. G = Has(q, b, f, d, w, h) /\ H = Has(Tail(q), b, f, d \cup {Head(q)}, w, h)
  OBVIOUS
<1> HIDE DEF G, H
<1>3. IsAt(G, q, b, f, d, w, h)
  BY Zenon, <1>2, HasAt
<1>4. IsAt(H, Tail(q), b, f, d \cup {Head(q)}, w, h)
  BY Zenon, <1>2, HasAt
<1>5. /\ Tail(q) \in Seq(Lines) /\ Once(Tail(q)) /\ {Head(q)} \subseteq G[<<"queue", None>>]
      /\ H[<<"queue", None>>] = G[<<"queue", None>>] \ {Head(q)}
      /\ H[<<"dropped", None>>] = G[<<"dropped", None>>] \cup {Head(q)}
  <2>1. /\ Tail(q) \in Seq(Lines) /\ Once(Tail(q)) /\ In(q) = {Head(q)} \cup In(Tail(q))
        /\ Head(q) \notin In(Tail(q))
    BY Zenon, <1>1, InTail
  <2>2. QED BY <1>3, <1>4, <2>1 DEF IsAt
<1>6. Moves(G, H, Places, {Head(q)}, <<"queue", None>>, <<"dropped", None>>)
  <2>1. /\ <<"queue", None>> \in Places /\ <<"dropped", None>> \in Places
        /\ <<"queue", None>> # <<"dropped", None>>
    BY PlacesAre, NamesDiffer
  <2>2. /\ {Head(q)} \subseteq G[<<"queue", None>>]
        /\ H[<<"queue", None>>] = G[<<"queue", None>>] \ {Head(q)}
        /\ H[<<"dropped", None>>] = G[<<"dropped", None>>] \cup {Head(q)}
    BY <1>5
  <2>3. ASSUME NEW z \in Places, z # <<"queue", None>>, z # <<"dropped", None>> PROVE H[z] = G[z]
    <3>1. CASE z \in {<<"queue", None>>, <<"buffer", None>>, <<"file", None>>, <<"dropped", None>>}
      BY Zenon, <2>3, <3>1, <1>3, <1>4 DEF IsAt
    <3>2. ASSUME NEW u \in LogThreads, z = <<"out", u>> \/ z = <<"hand", u>> PROVE H[z] = G[z]
      BY ZenonT(30), <2>3, <3>2, <1>3, <1>4 DEF IsAt
    <3>3. QED BY Zenon, <3>1, <3>2, PlacesAre
  <2>4. QED BY Zenon, <2>1, <2>2, <2>3 DEF Moves
<1>7. Parted(H, Places, E)
  BY Zenon, <1>1, <1>6, MoveKeeps
<1>8. QED BY Zenon, <1>2, <1>1, <1>5, <1>7 DEF Good

LEMMA QueueToBuffer ==
  ASSUME NEW q, NEW b, NEW f, NEW d, NEW w, NEW h, NEW E, Good(q, b, f, d, w, h, E),
         q # <<>>
  PROVE  Good(Tail(q), Append(b, Head(q)), f, d, w, h, E)
<1> DEFINE G == Has(q, b, f, d, w, h)
           H == Has(Tail(q), Append(b, Head(q)), f, d, w, h)
<1>1. /\ q \in Seq(Lines) /\ b \in Seq(Lines) /\ f \in Seq(Lines)
      /\ w \in [LogThreads -> Seq(Lines)] /\ h \in [LogThreads -> Lines \cup {None}]
      /\ Once(q) /\ Once(b) /\ Once(f) /\ \A u \in LogThreads : Once(w[u])
      /\ Parted(G, Places, E)
  BY Zenon DEF Good
<1>2. G = Has(q, b, f, d, w, h) /\ H = Has(Tail(q), Append(b, Head(q)), f, d, w, h)
  OBVIOUS
<1> HIDE DEF G, H
<1>3. IsAt(G, q, b, f, d, w, h)
  BY Zenon, <1>2, HasAt
<1>4. IsAt(H, Tail(q), Append(b, Head(q)), f, d, w, h)
  BY Zenon, <1>2, HasAt
<1>5. Head(q) \in Lines /\ Head(q) \in In(q)
  BY ZenonT(30), <1>1, InTail
<1>6. Head(q) \notin In(b)
  <2>1. <<"queue", None>> \in Places /\ <<"buffer", None>> \in Places
        /\ <<"queue", None>> # <<"buffer", None>>
    BY PlacesAre, NamesDiffer
  <2>2. In(q) \cap In(b) = {}
    BY Zenon, <1>1, <1>3, <2>1 DEF Parted, IsAt
  <2>3. QED BY <1>5, <2>2
<1>7. /\ Tail(q) \in Seq(Lines) /\ Once(Tail(q)) /\ {Head(q)} \subseteq G[<<"queue", None>>]
      /\ H[<<"queue", None>>] = G[<<"queue", None>>] \ {Head(q)}
      /\ H[<<"buffer", None>>] = G[<<"buffer", None>>] \cup {Head(q)}
  <2>1. /\ Tail(q) \in Seq(Lines) /\ Once(Tail(q)) /\ In(q) = {Head(q)} \cup In(Tail(q))
        /\ Head(q) \notin In(Tail(q))
    BY Zenon, <1>1, InTail
  <2>2. In(Append(b, Head(q))) = In(b) \cup {Head(q)}
    BY Zenon, <1>1, <1>5, InAppend
  <2>3. QED BY <1>3, <1>4, <2>1, <2>2 DEF IsAt
<1>8. Moves(G, H, Places, {Head(q)}, <<"queue", None>>, <<"buffer", None>>)
  <2>1. /\ <<"queue", None>> \in Places /\ <<"buffer", None>> \in Places
        /\ <<"queue", None>> # <<"buffer", None>>
    BY PlacesAre, NamesDiffer
  <2>2. /\ {Head(q)} \subseteq G[<<"queue", None>>]
        /\ H[<<"queue", None>>] = G[<<"queue", None>>] \ {Head(q)}
        /\ H[<<"buffer", None>>] = G[<<"buffer", None>>] \cup {Head(q)}
    BY <1>7
  <2>3. ASSUME NEW z \in Places, z # <<"queue", None>>, z # <<"buffer", None>> PROVE H[z] = G[z]
    <3>1. CASE z \in {<<"queue", None>>, <<"buffer", None>>, <<"file", None>>, <<"dropped", None>>}
      BY Zenon, <2>3, <3>1, <1>3, <1>4 DEF IsAt
    <3>2. ASSUME NEW u \in LogThreads, z = <<"out", u>> \/ z = <<"hand", u>> PROVE H[z] = G[z]
      BY Zenon, <2>3, <3>2, <1>3, <1>4 DEF IsAt
    <3>3. QED BY Zenon, <3>1, <3>2, PlacesAre
  <2>4. QED BY Zenon, <2>1, <2>2, <2>3 DEF Moves
<1>9. Parted(H, Places, E)
  BY Zenon, <1>1, <1>8, MoveKeeps
<1>10. Append(b, Head(q)) \in Seq(Lines) /\ Once(Append(b, Head(q)))
  BY Zenon, <1>1, <1>5, <1>6, InAppend
<1>11. QED BY Zenon, <1>2, <1>1, <1>7, <1>9, <1>10 DEF Good

LEMMA BufferToOut ==
  ASSUME NEW q, NEW b, NEW f, NEW d, NEW w, NEW h, NEW E, Good(q, b, f, d, w, h, E),
         NEW t \in LogThreads, w[t] = <<>>, NEW w2, w2 = [w EXCEPT ![t] = b]
  PROVE  Good(q, <<>>, f, d, w2, h, E)
<1> DEFINE G == Has(q, b, f, d, w, h)
           H == Has(q, <<>>, f, d, w2, h)
<1>1. /\ q \in Seq(Lines) /\ b \in Seq(Lines) /\ f \in Seq(Lines)
      /\ w \in [LogThreads -> Seq(Lines)] /\ h \in [LogThreads -> Lines \cup {None}]
      /\ Once(q) /\ Once(b) /\ Once(f) /\ \A u \in LogThreads : Once(w[u])
      /\ Parted(G, Places, E)
  BY Zenon DEF Good
<1>2. G = Has(q, b, f, d, w, h) /\ H = Has(q, <<>>, f, d, w2, h)
  OBVIOUS
<1> HIDE DEF G, H
<1>3. IsAt(G, q, b, f, d, w, h)
  BY Zenon, <1>2, HasAt
<1>4. IsAt(H, q, <<>>, f, d, w2, h)
  BY Zenon, <1>2, HasAt
<1>5. \A u \in LogThreads : w2[u] = IF u = t THEN b ELSE w[u]
  BY <1>1
<1>6. /\ In(b) \subseteq G[<<"buffer", None>>]
      /\ H[<<"buffer", None>>] = G[<<"buffer", None>>] \ In(b)
      /\ H[<<"out", t>>] = G[<<"out", t>>] \cup In(b)
  <2>1. H[<<"buffer", None>>] = {} /\ G[<<"buffer", None>>] = In(b)
    BY Zenon, <1>3, <1>4, OfEmpty DEF IsAt
  <2>2. w2[t] = b
    BY <1>5
  <2>3. H[<<"out", t>>] = In(b) /\ G[<<"out", t>>] = {}
    BY Zenon, <1>3, <1>4, <2>2, OfEmpty DEF IsAt
  <2>4. QED BY <2>1, <2>3
<1>7. Moves(G, H, Places, In(b), <<"buffer", None>>, <<"out", t>>)
  <2>1. /\ <<"buffer", None>> \in Places /\ <<"out", t>> \in Places
        /\ <<"buffer", None>> # <<"out", t>>
    BY ZenonT(30), PlacesAre, NamesDiffer
  <2>2. /\ In(b) \subseteq G[<<"buffer", None>>]
        /\ H[<<"buffer", None>>] = G[<<"buffer", None>>] \ In(b)
        /\ H[<<"out", t>>] = G[<<"out", t>>] \cup In(b)
    BY <1>6
  <2>3. ASSUME NEW z \in Places, z # <<"buffer", None>>, z # <<"out", t>> PROVE H[z] = G[z]
    <3>1. CASE z \in {<<"queue", None>>, <<"buffer", None>>, <<"file", None>>, <<"dropped", None>>}
      BY Zenon, <2>3, <3>1, <1>3, <1>4 DEF IsAt
    <3>2. ASSUME NEW u \in LogThreads, z = <<"out", u>> PROVE H[z] = G[z]
      <4>1. u # t
        BY Zenon, <2>3, <3>2
      <4>2. w2[u] = w[u]
        BY <1>5, <4>1
      <4>3. QED BY Zenon, <3>2, <4>2, <1>3, <1>4 DEF IsAt
    <3>3. ASSUME NEW u \in LogThreads, z = <<"hand", u>> PROVE H[z] = G[z]
      BY Zenon, <3>3, <1>3, <1>4 DEF IsAt
    <3>4. QED BY Zenon, <3>1, <3>2, <3>3, PlacesAre
  <2>4. QED BY Zenon, <2>1, <2>2, <2>3 DEF Moves
<1>8. Parted(H, Places, E)
  BY Zenon, <1>1, <1>7, MoveKeeps
<1>9. w2 \in [LogThreads -> Seq(Lines)]
      /\ \A u \in LogThreads : Once(w2[u])
  BY <1>1, <1>5
<1>10. QED BY Zenon, <1>2, <1>1, <1>8, <1>9, OfEmpty DEF Good

LEMMA OutToFile ==
  ASSUME NEW q, NEW b, NEW f, NEW d, NEW w, NEW h, NEW E, Good(q, b, f, d, w, h, E),
         NEW t \in LogThreads, NEW w2, w2 = [w EXCEPT ![t] = <<>>]
  PROVE  Good(q, b, f \o w[t], d, w2, h, E)
<1> DEFINE G == Has(q, b, f, d, w, h)
           H == Has(q, b, f \o w[t], d, w2, h)
<1>1. /\ q \in Seq(Lines) /\ b \in Seq(Lines) /\ f \in Seq(Lines)
      /\ w \in [LogThreads -> Seq(Lines)] /\ h \in [LogThreads -> Lines \cup {None}]
      /\ Once(q) /\ Once(b) /\ Once(f) /\ \A u \in LogThreads : Once(w[u])
      /\ Parted(G, Places, E)
  BY Zenon DEF Good
<1>2. G = Has(q, b, f, d, w, h) /\ H = Has(q, b, f \o w[t], d, w2, h)
  OBVIOUS
<1> HIDE DEF G, H
<1>3. IsAt(G, q, b, f, d, w, h)
  BY Zenon, <1>2, HasAt
<1>4. IsAt(H, q, b, f \o w[t], d, w2, h)
  BY Zenon, <1>2, HasAt
<1>5. \A u \in LogThreads : w2[u] = IF u = t THEN <<>> ELSE w[u]
  BY <1>1
<1>6. w[t] \in Seq(Lines)
  BY <1>1
<1>7. In(f) \cap In(w[t]) = {}
  <2>1. <<"out", t>> \in Places /\ <<"file", None>> \in Places
        /\ <<"file", None>> # <<"out", t>>
    BY ZenonT(30), PlacesAre, NamesDiffer
  <2>2. QED BY Zenon, <1>1, <1>3, <2>1 DEF Parted, IsAt
<1>8. /\ In(w[t]) \subseteq G[<<"out", t>>]
      /\ H[<<"out", t>>] = G[<<"out", t>>] \ In(w[t])
      /\ H[<<"file", None>>] = G[<<"file", None>>] \cup In(w[t])
  <2>1. In(f \o w[t]) = In(f) \cup In(w[t])
    BY Zenon, <1>1, <1>6, InJoined
  <2>2. H[<<"out", t>>] = {} /\ G[<<"out", t>>] = In(w[t])
    BY Zenon, <1>3, <1>4, <1>5, OfEmpty DEF IsAt
  <2>3. QED BY <1>3, <1>4, <2>1, <2>2 DEF IsAt
<1>9. Moves(G, H, Places, In(w[t]), <<"out", t>>, <<"file", None>>)
  <2>1. /\ <<"out", t>> \in Places /\ <<"file", None>> \in Places
        /\ <<"out", t>> # <<"file", None>>
    BY ZenonT(30), PlacesAre, NamesDiffer
  <2>2. /\ In(w[t]) \subseteq G[<<"out", t>>]
        /\ H[<<"out", t>>] = G[<<"out", t>>] \ In(w[t])
        /\ H[<<"file", None>>] = G[<<"file", None>>] \cup In(w[t])
    BY <1>8
  <2>3. ASSUME NEW z \in Places, z # <<"out", t>>, z # <<"file", None>> PROVE H[z] = G[z]
    <3>1. CASE z \in {<<"queue", None>>, <<"buffer", None>>, <<"file", None>>, <<"dropped", None>>}
      BY Zenon, <2>3, <3>1, <1>3, <1>4 DEF IsAt
    <3>2. ASSUME NEW u \in LogThreads, z = <<"out", u>> PROVE H[z] = G[z]
      <4>1. u # t
        BY Zenon, <2>3, <3>2
      <4>2. w2[u] = w[u]
        BY <1>5, <4>1
      <4>3. QED BY Zenon, <3>2, <4>2, <1>3, <1>4 DEF IsAt
    <3>3. ASSUME NEW u \in LogThreads, z = <<"hand", u>> PROVE H[z] = G[z]
      BY Zenon, <3>3, <1>3, <1>4 DEF IsAt
    <3>4. QED BY Zenon, <3>1, <3>2, <3>3, PlacesAre
  <2>4. QED BY Zenon, <2>1, <2>2, <2>3 DEF Moves
<1>10. Parted(H, Places, E)
  BY Zenon, <1>1, <1>9, MoveKeeps
<1>11. w2 \in [LogThreads -> Seq(Lines)]
       /\ \A u \in LogThreads : Once(w2[u])
  BY <1>1, <1>5, OfEmpty
<1>12. f \o w[t] \in Seq(Lines) /\ Once(f \o w[t])
  BY Zenon, <1>1, <1>6, <1>7, InJoined
<1>13. QED BY Zenon, <1>2, <1>1, <1>10, <1>11, <1>12 DEF Good

LEMMA QueueToHand ==
  ASSUME NEW q, NEW b, NEW f, NEW d, NEW w, NEW h, NEW E, Good(q, b, f, d, w, h, E),
         q # <<>>, NEW t \in LogThreads, h[t] = None, None \notin Lines,
         NEW h2, h2 = [h EXCEPT ![t] = Head(q)]
  PROVE  Good(Tail(q), b, f, d, w, h2, E)
<1> DEFINE G == Has(q, b, f, d, w, h)
           H == Has(Tail(q), b, f, d, w, h2)
<1>1. /\ q \in Seq(Lines) /\ b \in Seq(Lines) /\ f \in Seq(Lines)
      /\ w \in [LogThreads -> Seq(Lines)] /\ h \in [LogThreads -> Lines \cup {None}]
      /\ Once(q) /\ Once(b) /\ Once(f) /\ \A u \in LogThreads : Once(w[u])
      /\ Parted(G, Places, E)
  BY Zenon DEF Good
<1>2. G = Has(q, b, f, d, w, h) /\ H = Has(Tail(q), b, f, d, w, h2)
  OBVIOUS
<1> HIDE DEF G, H
<1>3. IsAt(G, q, b, f, d, w, h)
  BY Zenon, <1>2, HasAt
<1>4. IsAt(H, Tail(q), b, f, d, w, h2)
  BY Zenon, <1>2, HasAt
<1>5. \A u \in LogThreads : h2[u] = IF u = t THEN Head(q) ELSE h[u]
  BY <1>1
<1>6. Head(q) \in Lines /\ Head(q) # None
  BY <1>1, InTail
<1>7. /\ Tail(q) \in Seq(Lines) /\ Once(Tail(q)) /\ {Head(q)} \subseteq G[<<"queue", None>>]
      /\ H[<<"queue", None>>] = G[<<"queue", None>>] \ {Head(q)}
      /\ H[<<"hand", t>>] = G[<<"hand", t>>] \cup {Head(q)}
  <2>1. /\ Tail(q) \in Seq(Lines) /\ Once(Tail(q)) /\ In(q) = {Head(q)} \cup In(Tail(q))
        /\ Head(q) \notin In(Tail(q))
    BY Zenon, <1>1, InTail
  <2>2. H[<<"hand", t>>] = {Head(q)} \ {None} /\ G[<<"hand", t>>] = {None} \ {None}
    BY Zenon, <1>3, <1>4, <1>5 DEF IsAt
  <2>3. QED BY <1>3, <1>4, <1>6, <2>1, <2>2 DEF IsAt
<1>8. Moves(G, H, Places, {Head(q)}, <<"queue", None>>, <<"hand", t>>)
  <2>1. /\ <<"queue", None>> \in Places /\ <<"hand", t>> \in Places
        /\ <<"queue", None>> # <<"hand", t>>
    BY ZenonT(30), PlacesAre, NamesDiffer
  <2>2. /\ {Head(q)} \subseteq G[<<"queue", None>>]
        /\ H[<<"queue", None>>] = G[<<"queue", None>>] \ {Head(q)}
        /\ H[<<"hand", t>>] = G[<<"hand", t>>] \cup {Head(q)}
    BY <1>7
  <2>3. ASSUME NEW z \in Places, z # <<"queue", None>>, z # <<"hand", t>> PROVE H[z] = G[z]
    <3>1. CASE z \in {<<"queue", None>>, <<"buffer", None>>, <<"file", None>>, <<"dropped", None>>}
      BY Zenon, <2>3, <3>1, <1>3, <1>4 DEF IsAt
    <3>2. ASSUME NEW u \in LogThreads, z = <<"hand", u>> PROVE H[z] = G[z]
      <4>1. u # t
        BY Zenon, <2>3, <3>2
      <4>2. h2[u] = h[u]
        BY <1>5, <4>1
      <4>3. H[z] = {h2[u]} \ {None} /\ G[z] = {h[u]} \ {None}
        BY Zenon, <3>2, <1>3, <1>4 DEF IsAt
      <4>4. QED BY <4>2, <4>3
    <3>3. ASSUME NEW u \in LogThreads, z = <<"out", u>> PROVE H[z] = G[z]
      BY Zenon, <3>3, <1>3, <1>4 DEF IsAt
    <3>4. QED BY Zenon, <3>1, <3>2, <3>3, PlacesAre
  <2>4. QED BY Zenon, <2>1, <2>2, <2>3 DEF Moves
<1>9. Parted(H, Places, E)
  BY Zenon, <1>1, <1>8, MoveKeeps
<1>10. h2 \in [LogThreads -> Lines \cup {None}]
  BY <1>1, <1>6
<1>11. QED BY Zenon, <1>2, <1>1, <1>7, <1>9, <1>10 DEF Good

LEMMA HandToBuffer ==
  ASSUME NEW q, NEW b, NEW f, NEW d, NEW w, NEW h, NEW E, Good(q, b, f, d, w, h, E),
         NEW t \in LogThreads, h[t] # None, NEW h2, h2 = [h EXCEPT ![t] = None]
  PROVE  Good(q, Append(b, h[t]), f, d, w, h2, E)
<1> DEFINE G == Has(q, b, f, d, w, h)
           H == Has(q, Append(b, h[t]), f, d, w, h2)
<1>1. /\ q \in Seq(Lines) /\ b \in Seq(Lines) /\ f \in Seq(Lines)
      /\ w \in [LogThreads -> Seq(Lines)] /\ h \in [LogThreads -> Lines \cup {None}]
      /\ Once(q) /\ Once(b) /\ Once(f) /\ \A u \in LogThreads : Once(w[u])
      /\ Parted(G, Places, E)
  BY Zenon DEF Good
<1>2. G = Has(q, b, f, d, w, h) /\ H = Has(q, Append(b, h[t]), f, d, w, h2)
  OBVIOUS
<1> HIDE DEF G, H
<1>3. IsAt(G, q, b, f, d, w, h)
  BY Zenon, <1>2, HasAt
<1>4. IsAt(H, q, Append(b, h[t]), f, d, w, h2)
  BY Zenon, <1>2, HasAt
<1>5. \A u \in LogThreads : h2[u] = IF u = t THEN None ELSE h[u]
  BY <1>1
<1>6. h[t] \in Lines
  BY <1>1
<1>7. h[t] \notin In(b)
  <2>1. <<"hand", t>> \in Places /\ <<"buffer", None>> \in Places
        /\ <<"buffer", None>> # <<"hand", t>>
    BY ZenonT(30), PlacesAre, NamesDiffer
  <2>2. In(b) \cap ({h[t]} \ {None}) = {}
    BY Zenon, <1>1, <1>3, <2>1 DEF Parted, IsAt
  <2>3. QED BY <2>2
<1>8. /\ {h[t]} \subseteq G[<<"hand", t>>]
      /\ H[<<"hand", t>>] = G[<<"hand", t>>] \ {h[t]}
      /\ H[<<"buffer", None>>] = G[<<"buffer", None>>] \cup {h[t]}
  <2>1. In(Append(b, h[t])) = In(b) \cup {h[t]}
    BY Zenon, <1>1, <1>6, InAppend
  <2>2. H[<<"hand", t>>] = {None} \ {None} /\ G[<<"hand", t>>] = {h[t]} \ {None}
    BY Zenon, <1>3, <1>4, <1>5 DEF IsAt
  <2>3. QED BY <1>3, <1>4, <2>1, <2>2 DEF IsAt
<1>9. Moves(G, H, Places, {h[t]}, <<"hand", t>>, <<"buffer", None>>)
  <2>1. /\ <<"hand", t>> \in Places /\ <<"buffer", None>> \in Places
        /\ <<"hand", t>> # <<"buffer", None>>
    BY ZenonT(30), PlacesAre, NamesDiffer
  <2>2. /\ {h[t]} \subseteq G[<<"hand", t>>]
        /\ H[<<"hand", t>>] = G[<<"hand", t>>] \ {h[t]}
        /\ H[<<"buffer", None>>] = G[<<"buffer", None>>] \cup {h[t]}
    BY <1>8
  <2>3. ASSUME NEW z \in Places, z # <<"hand", t>>, z # <<"buffer", None>> PROVE H[z] = G[z]
    <3>1. CASE z \in {<<"queue", None>>, <<"buffer", None>>, <<"file", None>>, <<"dropped", None>>}
      BY Zenon, <2>3, <3>1, <1>3, <1>4 DEF IsAt
    <3>2. ASSUME NEW u \in LogThreads, z = <<"hand", u>> PROVE H[z] = G[z]
      <4>1. u # t
        BY Zenon, <2>3, <3>2
      <4>2. h2[u] = h[u]
        BY <1>5, <4>1
      <4>3. H[z] = {h2[u]} \ {None} /\ G[z] = {h[u]} \ {None}
        BY Zenon, <3>2, <1>3, <1>4 DEF IsAt
      <4>4. QED BY <4>2, <4>3
    <3>3. ASSUME NEW u \in LogThreads, z = <<"out", u>> PROVE H[z] = G[z]
      BY Zenon, <3>3, <1>3, <1>4 DEF IsAt
    <3>4. QED BY Zenon, <3>1, <3>2, <3>3, PlacesAre
  <2>4. QED BY Zenon, <2>1, <2>2, <2>3 DEF Moves
<1>10. Parted(H, Places, E)
  BY Zenon, <1>1, <1>9, MoveKeeps
<1>11. h2 \in [LogThreads -> Lines \cup {None}]
  BY <1>1
<1>12. Append(b, h[t]) \in Seq(Lines) /\ Once(Append(b, h[t]))
  BY Zenon, <1>1, <1>6, <1>7, InAppend
<1>13. QED BY Zenon, <1>2, <1>1, <1>10, <1>11, <1>12 DEF Good

LEMMA NewInQueue ==
  ASSUME NEW q, NEW b, NEW f, NEW d, NEW w, NEW h, NEW E, Good(q, b, f, d, w, h, E),
         NEW e \in Lines, e \notin E
  PROVE  Good(Append(q, e), b, f, d, w, h, E \cup {e})
<1> DEFINE G == Has(q, b, f, d, w, h)
           H == Has(Append(q, e), b, f, d, w, h)
<1>1. /\ q \in Seq(Lines) /\ b \in Seq(Lines) /\ f \in Seq(Lines)
      /\ w \in [LogThreads -> Seq(Lines)] /\ h \in [LogThreads -> Lines \cup {None}]
      /\ Once(q) /\ Once(b) /\ Once(f) /\ \A u \in LogThreads : Once(w[u])
      /\ Parted(G, Places, E)
  BY Zenon DEF Good
<1>2. G = Has(q, b, f, d, w, h) /\ H = Has(Append(q, e), b, f, d, w, h)
  OBVIOUS
<1> HIDE DEF G, H
<1>3. IsAt(G, q, b, f, d, w, h)
  BY Zenon, <1>2, HasAt
<1>4. IsAt(H, Append(q, e), b, f, d, w, h)
  BY Zenon, <1>2, HasAt
<1>5. e \notin In(q)
  BY <1>1, <1>3, PlacesAre DEF Parted, IsAt
<1>6. Append(q, e) \in Seq(Lines) /\ Once(Append(q, e)) /\ In(Append(q, e)) = In(q) \cup {e}
  BY Zenon, <1>1, <1>5, InAppend
<1>7. ASSUME NEW z \in Places, z # <<"queue", None>> PROVE H[z] = G[z]
  <2>1. CASE z \in {<<"queue", None>>, <<"buffer", None>>, <<"file", None>>, <<"dropped", None>>}
    BY Zenon, <1>7, <2>1, <1>3, <1>4 DEF IsAt
  <2>2. ASSUME NEW u \in LogThreads, z = <<"out", u>> \/ z = <<"hand", u>> PROVE H[z] = G[z]
    BY Zenon, <2>2, <1>3, <1>4 DEF IsAt
  <2>3. QED BY Zenon, <2>1, <2>2, PlacesAre
<1>8. <<"queue", None>> \in Places /\ H[<<"queue", None>>] = G[<<"queue", None>>] \cup {e}
  BY ZenonT(30), <1>3, <1>4, <1>6, PlacesAre DEF IsAt
<1>9. Parted(H, Places, E \cup {e})
  BY Zenon, <1>1, <1>7, <1>8, NewKeeps
<1>10. QED BY Zenon, <1>2, <1>1, <1>6, <1>9 DEF Good

-----------------------------------------------------------------------------
(* The steps by what they move, and how far the thread that takes one gets. *)

Outs == {"write", "write2", "write3"}
Busy == Outs \cup {"add"}

Still == UNCHANGED <<queue_, buffer_, file, dropped, to_write, popped, logged>>
Drains ==
  /\ queue_ # <<>> /\ queue_' = Tail(queue_) /\ buffer_' = Append(buffer_, Head(queue_))
  /\ UNCHANGED <<file, dropped, to_write, popped, logged>>
SwapsOut(t) ==
  /\ to_write' = [to_write EXCEPT ![t] = buffer_] /\ buffer_' = <<>>
  /\ UNCHANGED <<queue_, file, dropped, popped, logged>>
WritesOut(t) ==
  /\ file' = file \o to_write[t] /\ to_write' = [to_write EXCEPT ![t] = <<>>]
  /\ UNCHANGED <<queue_, buffer_, dropped, popped, logged>>
Pops(t) ==
  /\ queue_ # <<>> /\ popped' = [popped EXCEPT ![t] = Head(queue_)] /\ queue_' = Tail(queue_)
  /\ UNCHANGED <<buffer_, file, dropped, to_write, logged>>
Adds(t) ==
  /\ buffer_' = Append(buffer_, popped[t]) /\ popped' = [popped EXCEPT ![t] = None]
  /\ UNCHANGED <<queue_, file, dropped, to_write, logged>>

Turn(t, l) ==
  /\ at' = [at EXCEPT ![t] = l] /\ l # "idle"
  /\ \/ Still /\ at[t] \notin Busy /\ l \notin Busy
     \/ Drains /\ at[t] \in {"drain", "batch"} /\ l = at[t] /\ t \in {Writer, Owner}
     \/ SwapsOut(t) /\ at[t] \notin Busy /\ l \in Outs
     \/ WritesOut(t) /\ at[t] \in Outs /\ l \notin Busy
     \/ Pops(t) /\ at[t] \notin Busy /\ l = "add" /\ t # Owner
     \/ Adds(t) /\ at[t] = "add" /\ l \notin Busy

LEMMA DrainTurns ==
  ASSUME at = [u \in LogThreads |-> at[u]], NEW t \in {Writer, Owner}, NEW l,
         at[t] \in {"drain", "batch"}, l \in {"swap", "swap2"}, DrainLocked(t, l)
  PROVE  \E m : Turn(t, m)
<1>1. CASE /\ Ready /\ queue_' = Tail(queue_) /\ buffer_' = Append(buffer_, Head(queue_))
           /\ UNCHANGED at
  <2>1. at' = [at EXCEPT ![t] = at[t]] /\ at[t] # "idle"
    BY ZenonT(30), <1>1 DEF LogThreads
  <2>2. Drains
    BY <1>1 DEF DrainLocked, Drains, Ready
  <2>3. Turn(t, at[t])
    BY Zenon, <2>1, <2>2 DEF Turn
  <2>4. QED BY Zenon, <2>3
<1>2. CASE ~Ready /\ Goto(t, l) /\ UNCHANGED <<queue_, buffer_>>
  <2>1. Still /\ at' = [at EXCEPT ![t] = l]
    BY <1>2 DEF DrainLocked, Still, Goto
  <2>2. at[t] \notin Busy /\ l \notin Busy /\ l # "idle"
    BY DEF Busy, Outs
  <2>3. QED BY Zenon, <2>1, <2>2 DEF Turn
<1>3. QED BY <1>1, <1>2 DEF DrainLocked

LEMMA SwapTurns ==
  ASSUME NEW t \in LogThreads, NEW w \in Outs, NEW l \in {"wait", "check", "done"},
         at[t] \in {"swap", "swap2", "last"},
         \/ Goto(t, l) /\ UNCHANGED <<buffer_, to_write>>
         \/ to_write' = [to_write EXCEPT ![t] = buffer_] /\ buffer_' = <<>> /\ Goto(t, w),
         UNCHANGED <<queue_, file, dropped, popped, logged>>
  PROVE  \E m : Turn(t, m)
<1>1. at[t] \notin Busy /\ l \notin Busy /\ l # "idle" /\ w # "idle"
  BY DEF Busy, Outs
<1>2. CASE Goto(t, l) /\ UNCHANGED <<buffer_, to_write>>
  <2>1. Still /\ at' = [at EXCEPT ![t] = l]
    BY <1>2 DEF Still, Goto
  <2>2. QED BY Zenon, <1>1, <2>1 DEF Turn
<1>3. CASE to_write' = [to_write EXCEPT ![t] = buffer_] /\ buffer_' = <<>> /\ Goto(t, w)
  <2>1. SwapsOut(t) /\ at' = [at EXCEPT ![t] = w]
    BY <1>3 DEF SwapsOut, Goto
  <2>2. QED BY Zenon, <1>1, <2>1 DEF Turn
<1>4. QED BY Zenon, <1>2, <1>3

LEMMA WriteTurns ==
  ASSUME NEW t \in LogThreads, NEW l \in {"wait", "check", "done"}, at[t] \in Outs, WriteOut(t, l)
  PROVE  \E m : Turn(t, m)
<1>1. l \notin Busy /\ l # "idle"
  BY DEF Busy, Outs
<1>2. WritesOut(t) /\ at' = [at EXCEPT ![t] = l]
  BY DEF WriteOut, WritesOut, Goto
<1>3. QED BY Zenon, <1>1, <1>2 DEF Turn

LEMMA PopTurns ==
  ASSUME NEW t \in LogThreads, t # Owner, at[t] \in {"wait", "pop"}, PopEntry(t, "add")
  PROVE  \E m : Turn(t, m)
<1>1. at[t] \notin Busy /\ "add" # "idle"
  BY DEF Busy, Outs
<1>2. Pops(t) /\ at' = [at EXCEPT ![t] = "add"]
  BY DEF PopEntry, Pops, Goto, Ready
<1>3. QED BY Zenon, <1>1, <1>2 DEF Turn

LEMMA AddTurns ==
  ASSUME NEW t \in LogThreads, NEW holder, NEW l \in {"batch", "pop"}, at[t] = "add",
         Add(t, holder, l)
  PROVE  \E m : Turn(t, m)
<1>1. l \notin Busy /\ l # "idle"
  BY DEF Busy, Outs
<1>2. Adds(t) /\ at' = [at EXCEPT ![t] = l]
  BY DEF Add, Adds, Goto
<1>3. QED BY Zenon, <1>1, <1>2 DEF Turn

LEMMA JumpTurns ==
  ASSUME NEW t \in LogThreads, NEW l, at[t] \notin Busy, l \notin Busy, l # "idle",
         at' = [at EXCEPT ![t] = l],
         UNCHANGED <<queue_, buffer_, file, dropped, to_write, popped, logged>>
  PROVE  \E m : Turn(t, m)
BY Zenon DEF Turn, Still

LEMMA EveryTurn ==
  ASSUME at = [u \in LogThreads |-> at[u]], LogNext
  PROVE  \/ \E p \in Loggers : Log(p)
         \/ \E t \in LogThreads : \E l : Turn(t, l)
         \/ Still /\ UNCHANGED at
<1>1. Writer \in LogThreads /\ Owner \in LogThreads /\ Writer # Owner /\ Flushers \subseteq LogThreads
      /\ Owner \notin Flushers
  BY LoggerAssumption DEF LogThreads, Writer, Owner
<1>2. ASSUME WriterStep PROVE \E l : Turn(Writer, l)
  <2>1. CASE at[Writer] = "check" /\ Jump(Writer, IF LoopEnds THEN "last" ELSE "drain")
    <3>1. \E l \in {"last", "drain"} : Jump(Writer, l)
      BY <2>1
    <3>2. QED BY <1>1, <2>1, <3>1, JumpTurns DEF Jump, Goto, Busy, Outs
  <2>2. CASE at[Writer] = "drain" /\ DrainLocked(Writer, "swap")
    BY <2>2, DrainTurns
  <2>3. CASE at[Writer] = "swap" /\ SwapOut(Writer, KeepBuffer, "write", "wait")
    BY <1>1, <2>3, SwapTurns DEF SwapOut, Outs
  <2>4. CASE at[Writer] = "write" /\ WriteOut(Writer, "wait")
    BY <1>1, <2>4, WriteTurns DEF Outs
  <2>5. CASE at[Writer] = "wait" /\ WaitPop
    <3>1. CASE PopEntry(Writer, "add")
      BY <1>1, <2>5, <3>1, PopTurns
    <3>2. CASE Jump(Writer, "swap2")
      BY <1>1, <2>5, <3>2, JumpTurns DEF Jump, Goto, Busy, Outs
    <3>3. QED BY Zenon, <2>5, <3>1, <3>2 DEF WaitPop
  <2>6. CASE at[Writer] = "add" /\ Add(Writer, Writer, "batch")
    BY <1>1, <2>6, AddTurns
  <2>7. CASE at[Writer] = "batch" /\ DrainLocked(Writer, "swap2")
    BY <2>7, DrainTurns
  <2>8. CASE at[Writer] = "swap2" /\ SwapOut(Writer, KeepBuffer, "write2", "check")
    BY <1>1, <2>8, SwapTurns DEF SwapOut, Outs
  <2>9. CASE at[Writer] = "write2" /\ WriteOut(Writer, "check")
    BY <1>1, <2>9, WriteTurns DEF Outs
  <2>10. CASE at[Writer] = "last" /\ SwapOut(Writer, KeepBuffer, "write3", "done")
    BY <1>1, <2>10, SwapTurns DEF SwapOut, Outs
  <2>11. CASE at[Writer] = "write3" /\ WriteOut(Writer, "done")
    BY <1>1, <2>11, WriteTurns DEF Outs
  <2>12. QED BY ZenonT(30), <1>2, <2>1, <2>2, <2>3, <2>4, <2>5, <2>6, <2>7, <2>8, <2>9, <2>10, <2>11
            DEF WriterStep
<1>3. ASSUME NEW f \in Flushers, FlushStep(f) PROVE \E l : Turn(f, l)
  <2> f \in LogThreads /\ f # Owner
    BY <1>1
  <2>1. CASE /\ at[f] = "idle" /\ Goto(f, "pop")
             /\ UNCHANGED <<queue_, stopped_, running_, buffer_, file, dropped, line_mu_, popped,
                            to_write, logged, pushing>>
    BY <2>1, JumpTurns DEF Goto, Busy, Outs
  <2>2. CASE at[f] = "pop" /\ PopEntry(f, "add")
    BY <2>2, PopTurns
  <2>3. CASE at[f] = "pop" /\ Jump(f, "swap")
    BY <2>3, JumpTurns DEF Jump, Goto, Busy, Outs
  <2>4. CASE at[f] = "add" /\ Add(f, None, "pop")
    BY <2>4, AddTurns
  <2>5. CASE at[f] = "swap" /\ SwapOut(f, FALSE, "write", "done")
    BY <2>5, SwapTurns DEF SwapOut, Outs
  <2>6. CASE at[f] = "write" /\ WriteOut(f, "done")
    BY <2>6, WriteTurns DEF Outs
  <2>7. QED BY Zenon, <1>3, <2>1, <2>2, <2>3, <2>4, <2>5, <2>6 DEF FlushStep
<1>4. ASSUME DestructorStep PROVE \E l : Turn(Owner, l)
  <2>1. CASE /\ at[Owner] = "idle" /\ Goto(Owner, "stop")
             /\ UNCHANGED <<queue_, stopped_, buffer_, file, dropped, line_mu_, popped, to_write,
                            logged, pushing>>
    BY <1>1, <2>1, JumpTurns DEF Goto, Busy, Outs
  <2>2. CASE /\ at[Owner] = "stop" /\ Goto(Owner, "join")
             /\ UNCHANGED <<queue_, running_, buffer_, file, dropped, line_mu_, popped, to_write,
                            due, logged, pushing>>
    BY <1>1, <2>2, JumpTurns DEF Goto, Busy, Outs
  <2>3. CASE at[Owner] = "join" /\ Jump(Owner, "drain")
    BY <1>1, <2>3, JumpTurns DEF Jump, Goto, Busy, Outs
  <2>4. CASE at[Owner] = "drain" /\ DrainLocked(Owner, "swap")
    BY <2>4, DrainTurns
  <2>5. CASE at[Owner] = "swap" /\ SwapOut(Owner, KeepBuffer, "write", "done")
    BY <1>1, <2>5, SwapTurns DEF SwapOut, Outs
  <2>6. CASE at[Owner] = "write" /\ WriteOut(Owner, "done")
    BY <1>1, <2>6, WriteTurns DEF Outs
  <2>7. QED BY Zenon, <1>4, <2>1, <2>2, <2>3, <2>4, <2>5, <2>6 DEF DestructorStep
<1>5. ASSUME NEW p \in Loggers, LogCheck(p) \/ LogStored(p) PROVE Still /\ UNCHANGED at
  BY <1>5 DEF LogCheck, LogStored, Still
<1>6. QED BY Zenon, <1>1, <1>2, <1>3, <1>4, <1>5 DEF LogNext

(* The inductive invariant: a thread holds an entry, or a buffer it has swapped out,
   only where its next step passes it on. *)
HandsInv ==
  /\ at = [t \in LogThreads |-> at[t]]
  /\ \A t \in LogThreads : /\ popped[t] # None <=> at[t] = "add"
                           /\ to_write[t] # <<>> => at[t] \in Outs
LogInv ==
  /\ logged \in [Loggers -> Nat] /\ HandsInv
  /\ Good(queue_, buffer_, file, dropped, to_write, popped, Entries)

LEMMA NoneIsNoLine == None \notin Lines
BY LoggerAssumption DEF Lines

LEMMA LogKeeps ==
  ASSUME LogInv, NEW p \in Loggers, Log(p)
  PROVE  LogInv'
<1> DEFINE e == <<p, logged[p] + 1>>
<1>1. /\ logged \in [Loggers -> Nat] /\ logged[p] \in Nat /\ logged[p] < MaxLog
      /\ MaxLog \in Nat /\ LogCapacity \in Nat \ {0}
  BY LoggerAssumption DEF LogInv, Log
<1>2. logged' \in [Loggers -> Nat]
      /\ \A r \in Loggers : logged'[r] = IF r = p THEN logged[p] + 1 ELSE logged[r]
  BY <1>1 DEF Log
<1>3. e \in Lines /\ e \notin Entries /\ e \in Loggers \X (1..MaxLog)
  BY <1>1 DEF Lines, Entries
<1>4. Entries' = Entries \cup {e}
  <2>1. ASSUME NEW x \in Loggers \X (1..MaxLog)
        PROVE  x[2] <= logged'[x[1]] <=> x[2] <= logged[x[1]] \/ x = e
    <3>1. x[1] \in Loggers /\ x[2] \in 1..MaxLog /\ x = <<x[1], x[2]>> /\ logged[x[1]] \in Nat
      BY <1>1
    <3>2. CASE x[1] # p
      BY <1>2, <3>1, <3>2
    <3>3. CASE x[1] = p
      <4>1. logged'[x[1]] = logged[p] + 1
        BY <1>2, <3>3
      <4>2. x = e <=> x[2] = logged[p] + 1
        BY <3>1, <3>3
      <4>3. QED BY <1>1, <3>1, <3>3, <4>1, <4>2
    <3>4. QED BY <3>2, <3>3
  <2>2. QED BY <1>3, <2>1 DEF Entries
<1> HIDE DEF e
<1>5. Good(queue_, buffer_, file, dropped, to_write, popped, Entries)
  BY DEF LogInv
<1>6. UNCHANGED <<buffer_, file, to_write, popped, at>>
  BY DEF Log
<1>7. Good(queue_', buffer_, file, dropped', to_write, popped, Entries \cup {e})
  <2>1. CASE Full
    <3>1. queue_ # <<>>
      BY <2>1, <1>1 DEF Full
    <3>2. queue_' = Append(Tail(queue_), e) /\ dropped' = dropped \cup {Head(queue_)}
      BY <2>1 DEF Log, e
    <3>3. Good(Tail(queue_), buffer_, file, dropped \cup {Head(queue_)}, to_write, popped, Entries)
      BY Zenon, <1>5, <3>1, QueueToDropped
    <3>4. Good(Append(Tail(queue_), e), buffer_, file, dropped \cup {Head(queue_)}, to_write, popped,
               Entries \cup {e})
      BY Zenon, <1>3, <3>3, NewInQueue
    <3>5. QED BY Zenon, <3>2, <3>4
  <2>2. CASE ~Full
    <3>1. queue_' = Append(queue_, e) /\ dropped' = dropped
      BY <2>2 DEF Log, e
    <3>2. Good(Append(queue_, e), buffer_, file, dropped, to_write, popped, Entries \cup {e})
      BY Zenon, <1>3, <1>5, NewInQueue
    <3>3. QED BY Zenon, <3>1, <3>2
  <2>3. QED BY <2>1, <2>2
<1>8. Good(queue_', buffer_', file', dropped', to_write', popped', Entries')
  <2>1. buffer_' = buffer_ /\ file' = file /\ to_write' = to_write /\ popped' = popped
    BY <1>6
  <2>2. QED BY Zenon, <1>4, <1>7, <2>1
<1>9. HandsInv'
  BY <1>6 DEF LogInv, HandsInv
<1>10. QED BY <1>2, <1>8, <1>9 DEF LogInv

LEMMA TurnKeeps ==
  ASSUME LogInv, NEW t \in LogThreads, NEW l, Turn(t, l)
  PROVE  LogInv'
<1>1. Good(queue_, buffer_, file, dropped, to_write, popped, Entries)
  BY DEF LogInv
<1>2. /\ to_write \in [LogThreads -> Seq(Lines)] /\ popped \in [LogThreads -> Lines \cup {None}]
      /\ queue_ \in Seq(Lines)
  BY Zenon, <1>1 DEF Good
<1>3. /\ popped[t] # None <=> at[t] = "add"
      /\ to_write[t] # <<>> => at[t] \in Outs
  BY DEF LogInv, HandsInv
<1>4. /\ at' = [u \in LogThreads |-> at'[u]]
      /\ at'[t] = l /\ \A u \in LogThreads : u # t => at'[u] = at[u]
  BY DEF Turn, LogInv, HandsInv
<1>5. Entries' = Entries /\ logged' = logged
  BY DEF Turn, Still, Drains, SwapsOut, WritesOut, Pops, Adds, Entries
<1>6. "add" \notin Outs
  BY DEF Outs
<1> DEFINE Passed == /\ popped'[t] # None <=> l = "add"
                     /\ to_write'[t] # <<>> => l \in Outs
                     /\ \A u \in LogThreads : u # t => /\ popped'[u] = popped[u]
                                                  /\ to_write'[u] = to_write[u]
           GoodNext == Good(queue_', buffer_', file', dropped', to_write', popped', Entries)
<1>7. SUFFICES GoodNext /\ Passed
  <2>1. HandsInv'
    BY <1>3, <1>4, <1>7 DEF HandsInv, LogInv
  <2>2. Good(queue_, buffer_, file, dropped, to_write, popped, Entries)'
    BY ZenonT(30), <1>5, <1>7
  <2>3. (logged \in [Loggers -> Nat])'
    BY <1>5 DEF LogInv
  <2>4. QED BY Zenon, <2>1, <2>2, <2>3 DEF LogInv
<1>8. CASE Still /\ at[t] \notin Busy /\ l \notin Busy
  <2>1. /\ queue_' = queue_ /\ buffer_' = buffer_ /\ file' = file /\ dropped' = dropped
        /\ to_write' = to_write /\ popped' = popped
    BY <1>8 DEF Still
  <2>2. at[t] # "add" /\ at[t] \notin Outs /\ l # "add" /\ l \notin Outs
    BY <1>8 DEF Busy
  <2>3. QED BY Zenon, <1>1, <1>3, <2>1, <2>2
<1>9. CASE Drains /\ l = at[t]
  <2>1. /\ queue_ # <<>> /\ queue_' = Tail(queue_) /\ buffer_' = Append(buffer_, Head(queue_))
        /\ file' = file /\ dropped' = dropped /\ to_write' = to_write /\ popped' = popped
    BY <1>9 DEF Drains
  <2>2. GoodNext
    BY Zenon, <1>1, <2>1, QueueToBuffer
  <2>3. QED BY Zenon, <1>3, <1>9, <2>1, <2>2
<1>10. CASE SwapsOut(t) /\ at[t] \notin Busy /\ l \in Outs
  <2>1. /\ queue_' = queue_ /\ buffer_' = <<>> /\ file' = file /\ dropped' = dropped
        /\ to_write' = [to_write EXCEPT ![t] = buffer_] /\ popped' = popped
    BY <1>10 DEF SwapsOut
  <2>2. to_write[t] = <<>> /\ popped[t] = None /\ l # "add"
    BY <1>3, <1>6, <1>10 DEF Busy
  <2>3. Good(queue_, <<>>, file, dropped, to_write', popped, Entries)
    BY Zenon, <1>1, <2>1, <2>2, BufferToOut
  <2>4. \A u \in LogThreads : u # t => to_write'[u] = to_write[u]
    BY <1>2, <2>1
  <2>5. QED BY Zenon, <1>10, <2>1, <2>2, <2>3, <2>4
<1>11. CASE WritesOut(t) /\ at[t] \in Outs /\ l \notin Busy
  <2>1. /\ queue_' = queue_ /\ buffer_' = buffer_ /\ file' = file \o to_write[t] /\ dropped' = dropped
        /\ to_write' = [to_write EXCEPT ![t] = <<>>] /\ popped' = popped
    BY <1>11 DEF WritesOut
  <2>2. popped[t] = None /\ l # "add"
    BY <1>3, <1>6, <1>11 DEF Busy
  <2>3. Good(queue_, buffer_, file \o to_write[t], dropped, to_write', popped, Entries)
    BY Zenon, <1>1, <2>1, OutToFile
  <2>4. to_write'[t] = <<>> /\ \A u \in LogThreads : u # t => to_write'[u] = to_write[u]
    BY <1>2, <2>1
  <2>5. QED BY Zenon, <2>1, <2>2, <2>3, <2>4
<1>12. CASE Pops(t) /\ at[t] \notin Busy /\ l = "add"
  <2>1. /\ queue_ # <<>> /\ queue_' = Tail(queue_) /\ buffer_' = buffer_ /\ file' = file
        /\ dropped' = dropped /\ to_write' = to_write
        /\ popped' = [popped EXCEPT ![t] = Head(queue_)]
    BY <1>12 DEF Pops
  <2>2. to_write[t] = <<>> /\ popped[t] = None
    BY <1>3, <1>12 DEF Busy
  <2>3. Good(Tail(queue_), buffer_, file, dropped, to_write, popped', Entries)
    BY Zenon, <1>1, <2>1, <2>2, QueueToHand, NoneIsNoLine
  <2>4. popped'[t] = Head(queue_) /\ \A u \in LogThreads : u # t => popped'[u] = popped[u]
    BY <1>2, <2>1
  <2>5. Head(queue_) # None
    <3>1. Head(queue_) \in Lines
      BY Zenon, <1>2, <2>1, InTail
    <3>2. QED BY <3>1, NoneIsNoLine
  <2>6. QED BY Zenon, <1>12, <2>1, <2>2, <2>3, <2>4, <2>5
<1>13. CASE Adds(t) /\ at[t] = "add" /\ l \notin Busy
  <2>1. /\ queue_' = queue_ /\ buffer_' = Append(buffer_, popped[t]) /\ file' = file
        /\ dropped' = dropped /\ to_write' = to_write /\ popped' = [popped EXCEPT ![t] = None]
    BY <1>13 DEF Adds
  <2>2. to_write[t] = <<>> /\ popped[t] # None /\ l # "add"
    BY <1>3, <1>6, <1>13 DEF Busy
  <2>3. Good(queue_, Append(buffer_, popped[t]), file, dropped, to_write, popped', Entries)
    BY Zenon, <1>1, <2>1, <2>2, HandToBuffer
  <2>4. popped'[t] = None /\ \A u \in LogThreads : u # t => popped'[u] = popped[u]
    BY <1>2, <2>1
  <2>5. QED BY Zenon, <2>1, <2>2, <2>3, <2>4
<1>14. QED BY Zenon, <1>8, <1>9, <1>10, <1>11, <1>12, <1>13 DEF Turn

LEMMA LogInvStep ==
  ASSUME LogInv, [LogNext]_log_vars
  PROVE  LogInv'
<1>1. CASE UNCHANGED log_vars
  BY <1>1 DEF log_vars, LogInv, HandsInv, Entries
<1>2. CASE LogNext
  <2>1. at = [u \in LogThreads |-> at[u]]
    BY Zenon DEF LogInv, HandsInv
  <2>2. CASE Still /\ UNCHANGED at
    BY <2>2 DEF Still, LogInv, HandsInv, Entries
  <2>3. QED BY Zenon, <1>2, <2>1, <2>2, EveryTurn, LogKeeps, TurnKeeps
<1>3. QED BY <1>1, <1>2

LEMMA LogInvStart ==
  ASSUME LogInit
  PROVE  LogInv
<1>1. logged \in [Loggers -> Nat] /\ HandsInv
  BY DEF LogInit, HandsInv
<1>2. Entries = {}
  BY DEF LogInit, Entries
<1>3. /\ queue_ = <<>> /\ buffer_ = <<>> /\ file = <<>> /\ dropped = {}
      /\ to_write \in [LogThreads -> Seq(Lines)] /\ popped \in [LogThreads -> Lines \cup {None}]
      /\ \A t \in LogThreads : to_write[t] = <<>> /\ popped[t] = None
  BY DEF LogInit
<1> DEFINE G == Has(queue_, buffer_, file, dropped, to_write, popped)
<1>4. IsAt(G, queue_, buffer_, file, dropped, to_write, popped)
  BY Zenon, HasAt
<1> HIDE DEF G
<1>5. \A t \in LogThreads : {popped[t]} \ {None} = {}
  BY <1>3
<1>6. \A x \in Places : G[x] = {}
  BY ZenonT(30), <1>3, <1>4, <1>5, PlacesAre, OfEmpty DEF IsAt
<1>7. Parted(G, Places, Entries)
  BY <1>2, <1>6 DEF Parted
<1>8. QED BY Zenon, <1>1, <1>3, <1>7, OfEmpty DEF LogInv, Good, G

LEMMA LogInvariance == LogSpec => []LogInv
BY LogInvStart, LogInvStep, PTL DEF LogSpec

(* The logger loses and doubles no entry: whatever the writer, the callers of
   flush() and the destructor do between a pop and the append, or between the
   swap and the write, each entry logged is in exactly one place. *)
THEOREM EntriesAreKept == LogSpec => []EachEntryOnce
<1>1. ASSUME LogInv PROVE EachEntryOnce
  <2> DEFINE G == Has(queue_, buffer_, file, dropped, to_write, popped)
  <2>1. /\ Once(queue_) /\ Once(buffer_) /\ Once(file) /\ \A t \in LogThreads : Once(to_write[t])
        /\ Parted(G, Places, Entries)
    BY Zenon, <1>1 DEF LogInv, Good
  <2>2. \A x \in Places : G[x] = Held(x)
    BY ZenonT(30) DEF Has, Held
  <2> HIDE DEF G
  <2>3. \A x, y \in Places : x # y => Held(x) \cap Held(y) = {}
    BY Zenon, <2>1, <2>2 DEF Parted
  <2>4. UNION {Held(x) : x \in Places} = UNION {G[x] : x \in Places}
    BY <2>2
  <2>5. QED BY Zenon, <2>1, <2>3, <2>4 DEF EachEntryOnce, Parted
<1>2. QED BY <1>1, LogInvariance, PTL

-----------------------------------------------------------------------------
(* Until somebody calls flush(), the entries of a producer stand in line: the file,
   what is swapped out, the buffer, what the writer has popped, the queue. *)

NoFlush == \A f \in Flushers : at[f] = "idle"
Chain(F, O, B, H, Q) ==
  /\ Precede(F, O) /\ Precede(F, B) /\ Precede(F, H) /\ Precede(F, Q)
  /\ Precede(O, B) /\ Precede(O, H) /\ Precede(O, Q)
  /\ Precede(B, H) /\ Precede(B, Q)
  /\ Precede(H, Q)

LEMMA ChainMoves ==
  ASSUME NEW F, NEW O, NEW B, NEW H, NEW Q, Chain(F, O, B, H, Q)
  PROVE  /\ \A h, R : H = {} /\ Q = {h} \cup R /\ Precede({h}, R) =>
                        Chain(F, O, B \cup {h}, {}, R) /\ Chain(F, O, B, {h}, R)
         /\ Chain(F, O \cup B, {}, H, Q)
         /\ Chain(F \cup O, {}, B, H, Q)
         /\ Chain(F, O, B \cup H, {}, Q)
BY Zenon DEF Chain, Precede

LEMMA ChainEnds ==
  ASSUME NEW F, NEW O, NEW B, NEW H, NEW Q, NEW R, NEW e, Chain(F, O, B, H, Q), R \subseteq Q,
         Precede(F \cup O \cup B \cup H, {e})
  PROVE  Chain(F, O, B, H, R \cup {e})
<1>1. /\ \A x \in F : Before(x, e)
      /\ \A x \in O : Before(x, e)
      /\ \A x \in B : Before(x, e)
      /\ \A x \in H : Before(x, e)
  BY Zenon DEF Precede
<1>2. \A x \in R : x \in Q
  OBVIOUS
<1>3. QED BY Zenon, <1>1, <1>2 DEF Chain, Precede

InLine(q, b, f, w, h) ==
  /\ InOrder(q) /\ InOrder(b) /\ InOrder(f) /\ InOrder(w[Writer]) /\ InOrder(w[Owner])
  /\ Chain(In(f), In(w[Writer]) \cup In(w[Owner]), In(b), {h[Writer]} \ {None}, In(q))

(* The destructor drains only after it has joined the writer, and pops nothing that
   it has to add later. *)
JoinInv ==
  /\ at[Owner] \in {"idle", "stop", "join", "drain", "swap", "write", "done"}
  /\ at[Owner] \in {"drain", "swap", "write", "done"} => at[Writer] = "done"
LineInv == NoFlush => InLine(queue_, buffer_, file, to_write, popped)

LEMMA JoinStep ==
  ASSUME at = [u \in LogThreads |-> at[u]], JoinInv, [LogNext]_log_vars
  PROVE  JoinInv'
<1>1. Writer \in LogThreads /\ Owner \in LogThreads /\ Writer # Owner /\ Owner \notin Flushers
      /\ Writer \notin Flushers /\ Flushers \subseteq LogThreads
  BY LoggerAssumption DEF LogThreads, Writer, Owner
<1>2. CASE UNCHANGED at
  BY <1>2 DEF JoinInv
<1>3. ASSUME WriterStep, ~UNCHANGED at PROVE JoinInv'
  <2>1. at[Writer] # "done" /\ at'[Owner] = at[Owner]
    BY ZenonT(30), <1>1, <1>3 DEF WriterStep, WaitPop, Jump, Goto, DrainLocked, SwapOut, WriteOut, PopEntry, Add
  <2>2. QED BY ZenonT(30), <2>1 DEF JoinInv
<1>4. ASSUME NEW f \in Flushers, FlushStep(f), ~UNCHANGED at PROVE JoinInv'
  <2>1. \E l : at' = [at EXCEPT ![f] = l]
    BY <1>4 DEF FlushStep, Jump, Goto, SwapOut, WriteOut, PopEntry, Add
  <2>2. at'[Owner] = at[Owner] /\ at'[Writer] = at[Writer]
    BY <1>1, <2>1
  <2>3. QED BY Zenon, <2>2 DEF JoinInv
<1>5. ASSUME DestructorStep, ~UNCHANGED at PROVE JoinInv'
  <2>1. at'[Writer] = at[Writer]
    BY <1>1, <1>5 DEF DestructorStep, Jump, Goto, DrainLocked, SwapOut, WriteOut
  <2>2. CASE at[Owner] \in {"idle", "stop"}
    <3>1. at'[Owner] \in {"stop", "join"}
      BY <1>1, <1>5, <2>2 DEF DestructorStep, Goto
    <3>2. QED BY <3>1 DEF JoinInv
  <2>3. CASE at[Owner] \in {"join", "drain", "swap", "write"}
    <3>1. at[Writer] = "done"
      BY SMTT(30), <1>5, <2>3 DEF DestructorStep, JoinInv
    <3>2. at'[Owner] \in {"drain", "swap", "write", "done"}
      BY <1>1, <1>5, <2>3 DEF DestructorStep, Jump, Goto, DrainLocked, SwapOut, WriteOut
    <3>3. QED BY <2>1, <3>1, <3>2 DEF JoinInv
  <2>4. QED BY SMTT(30), <1>5, <2>2, <2>3 DEF DestructorStep
<1>6. CASE LogNext
  <2>1. ASSUME NEW p \in Loggers, LogCheck(p) \/ Log(p) \/ LogStored(p) PROVE UNCHANGED at
    BY <2>1 DEF LogCheck, Log, LogStored
  <2>2. QED BY Zenon, <1>2, <1>3, <1>4, <1>5, <1>6, <2>1 DEF LogNext
<1>7. CASE UNCHANGED log_vars
  BY <1>2, <1>7 DEF log_vars
<1>8. QED BY <1>6, <1>7

LEMMA LogLines ==
  ASSUME LogInv, LineInv, NEW p \in Loggers, Log(p)
  PROVE  LineInv'
<1> DEFINE e == <<p, logged[p] + 1>>
<1>1. /\ logged \in [Loggers -> Nat] /\ MaxLog \in Nat /\ LogCapacity \in Nat \ {0}
      /\ Good(queue_, buffer_, file, dropped, to_write, popped, Entries)
  BY LoggerAssumption DEF LogInv
<1>2. \A d \in Entries : Before(d, e)
  BY <1>1 DEF Entries, Before
<1>3. e \in Lines
  BY <1>1 DEF Lines
<1>4. Writer \in LogThreads /\ Owner \in LogThreads
  BY DEF LogThreads
<1>5. /\ In(queue_) \subseteq Entries /\ In(buffer_) \subseteq Entries /\ In(file) \subseteq Entries
      /\ In(to_write[Writer]) \subseteq Entries /\ In(to_write[Owner]) \subseteq Entries
      /\ {popped[Writer]} \ {None} \subseteq Entries
  <2> DEFINE G == Has(queue_, buffer_, file, dropped, to_write, popped)
  <2>1. Parted(G, Places, Entries)
    BY Zenon, <1>1 DEF Good
  <2>2. IsAt(G, queue_, buffer_, file, dropped, to_write, popped)
    BY Zenon, HasAt
  <2> HIDE DEF G
  <2>3. \A x \in Places : G[x] \subseteq Entries
    BY <2>1 DEF Parted
  <2>4. /\ <<"queue", None>> \in Places /\ <<"buffer", None>> \in Places
        /\ <<"file", None>> \in Places /\ <<"out", Writer>> \in Places
        /\ <<"out", Owner>> \in Places /\ <<"hand", Writer>> \in Places
    BY ZenonT(30), <1>4, PlacesAre
  <2>5. /\ G[<<"queue", None>>] \subseteq Entries /\ G[<<"buffer", None>>] \subseteq Entries
        /\ G[<<"file", None>>] \subseteq Entries /\ G[<<"out", Writer>>] \subseteq Entries
        /\ G[<<"out", Owner>>] \subseteq Entries /\ G[<<"hand", Writer>>] \subseteq Entries
    BY Zenon, <2>3, <2>4
  <2>6. /\ G[<<"queue", None>>] = In(queue_) /\ G[<<"buffer", None>>] = In(buffer_)
        /\ G[<<"file", None>>] = In(file) /\ G[<<"out", Writer>>] = In(to_write[Writer])
        /\ G[<<"out", Owner>>] = In(to_write[Owner])
        /\ G[<<"hand", Writer>>] = {popped[Writer]} \ {None}
    BY Zenon, <1>4, <2>2 DEF IsAt
  <2>7. QED BY <2>5, <2>6
<1>6. SUFFICES ASSUME NoFlush' PROVE InLine(queue_, buffer_, file, to_write, popped)'
  BY DEF LineInv
<1>7. InLine(queue_, buffer_, file, to_write, popped)
  BY <1>6 DEF LineInv, NoFlush, Log
<1>8. /\ buffer_' = buffer_ /\ file' = file /\ to_write' = to_write /\ popped' = popped
      /\ queue_' = Append(IF Full THEN Tail(queue_) ELSE queue_, e)
  BY DEF Log
<1> DEFINE r == IF Full THEN Tail(queue_) ELSE queue_
<1>9. queue_ \in Seq(Lines) /\ InOrder(queue_)
  BY Zenon, <1>1, <1>7 DEF Good, InLine
<1>10. r \in Seq(Lines) /\ InOrder(r) /\ In(r) \subseteq In(queue_)
  <2>1. CASE Full
    <3>1. queue_ # <<>>
      BY <2>1, <1>1 DEF Full
    <3>2. /\ Tail(queue_) \in Seq(Lines) /\ InOrder(Tail(queue_))
          /\ In(queue_) = {Head(queue_)} \cup In(Tail(queue_))
      BY Zenon, <1>9, <3>1, InTail
    <3>3. QED BY <2>1, <3>2
  <2>2. CASE ~Full
    BY <1>9, <2>2
  <2>3. QED BY <2>1, <2>2
<1>11. queue_' = Append(r, e)
  BY <1>8
<1> HIDE DEF e, r
<1>12. Precede(In(r), {e})
  BY <1>2, <1>5, <1>10 DEF Precede
<1>13. InOrder(Append(r, e)) /\ In(Append(r, e)) = In(r) \cup {e}
  BY ZenonT(30), <1>3, <1>10, <1>12, InAppend
<1> DEFINE O == In(to_write[Writer]) \cup In(to_write[Owner])
           H == {popped[Writer]} \ {None}
<1>14. Precede(In(file) \cup O \cup In(buffer_) \cup H, {e})
  BY <1>2, <1>5 DEF Precede
<1>15. Chain(In(file), O, In(buffer_), H, In(queue_))
  BY Zenon, <1>7 DEF InLine
<1> HIDE DEF O, H
<1>16. Chain(In(file), O, In(buffer_), H, In(r) \cup {e})
  BY Zenon, <1>10, <1>14, <1>15, ChainEnds
<1>17. InLine(queue_', buffer_, file, to_write, popped)
  BY Zenon, <1>7, <1>11, <1>13, <1>16 DEF InLine, O, H
<1>18. QED BY Zenon, <1>8, <1>17

LEMMA TurnLines ==
  ASSUME LogInv, JoinInv, LineInv, NEW t \in LogThreads, NEW l, Turn(t, l)
  PROVE  LineInv'
<1>1. /\ Writer \in LogThreads /\ Owner \in LogThreads /\ Writer # Owner /\ Flushers \subseteq LogThreads
      /\ \A u \in LogThreads : u \in Flushers \/ u = Writer \/ u = Owner
  BY DEF LogThreads, Writer, Owner
<1>2. SUFFICES ASSUME NoFlush' PROVE InLine(queue_, buffer_, file, to_write, popped)'
  BY DEF LineInv
<1>3. at'[t] = l /\ l # "idle" /\ \A u \in LogThreads : u # t => at'[u] = at[u]
  BY DEF Turn, LogInv, HandsInv
<1>4. t \in {Writer, Owner} /\ InLine(queue_, buffer_, file, to_write, popped)
  <2>1. t \notin Flushers
    BY <1>2, <1>3 DEF NoFlush
  <2>2. \A f \in Flushers : at'[f] = at[f]
    BY Zenon, <1>1, <1>3, <2>1
  <2>3. NoFlush
    BY Zenon, <1>2, <2>2 DEF NoFlush
  <2>4. QED BY <1>1, <2>1, <2>3 DEF LineInv
<1>5. /\ Good(queue_, buffer_, file, dropped, to_write, popped, Entries)
      /\ \A u \in LogThreads : /\ popped[u] # None <=> at[u] = "add"
                               /\ to_write[u] # <<>> => at[u] \in Outs
  BY Zenon DEF LogInv, HandsInv
<1>6. /\ queue_ \in Seq(Lines) /\ buffer_ \in Seq(Lines) /\ file \in Seq(Lines)
      /\ to_write \in [LogThreads -> Seq(Lines)] /\ popped \in [LogThreads -> Lines \cup {None}]
  BY Zenon, <1>5 DEF Good
<1> DEFINE F == In(file)
           O == In(to_write[Writer]) \cup In(to_write[Owner])
           B == In(buffer_)
           H == {popped[Writer]} \ {None}
           Q == In(queue_)
<1>7. /\ InOrder(queue_) /\ InOrder(buffer_) /\ InOrder(file)
      /\ InOrder(to_write[Writer]) /\ InOrder(to_write[Owner])
      /\ Chain(F, O, B, H, Q)
  BY Zenon, <1>4 DEF InLine
<1>8. SUFFICES InLine(queue_', buffer_', file', to_write', popped')
  BY Zenon
<1>9. /\ Chain(F, O \cup B, {}, H, Q) /\ Chain(F \cup O, {}, B, H, Q)
      /\ Chain(F, O, B \cup H, {}, Q)
      /\ \A h, R : H = {} /\ Q = {h} \cup R /\ Precede({h}, R) =>
                     Chain(F, O, B \cup {h}, {}, R) /\ Chain(F, O, B, {h}, R)
  BY Zenon, <1>7, ChainMoves
<1>10. CASE Still
  <2>1. /\ queue_' = queue_ /\ buffer_' = buffer_ /\ file' = file
        /\ to_write' = to_write /\ popped' = popped
    BY <1>10 DEF Still
  <2>2. QED BY Zenon, <1>4, <2>1
<1>11. CASE Drains /\ at[t] \in {"drain", "batch"}
  <2>1. /\ queue_ # <<>> /\ queue_' = Tail(queue_) /\ buffer_' = Append(buffer_, Head(queue_))
        /\ file' = file /\ to_write' = to_write /\ popped' = popped
    BY SMTT(30), <1>11 DEF Drains
  <2>2. popped[Writer] = None
    BY <1>1, <1>4, <1>5, <1>11 DEF JoinInv
  <2>3. H = {}
    BY <2>2
  <2>4. /\ Head(queue_) \in Lines /\ Q = {Head(queue_)} \cup In(Tail(queue_))
        /\ InOrder(Tail(queue_)) /\ Precede({Head(queue_)}, In(Tail(queue_)))
    BY Zenon, <1>6, <1>7, <2>1, InTail
  <2>5. Precede(B, {Head(queue_)})
    <3>1. Precede(B, Q)
      BY Zenon, <1>7 DEF Chain
    <3>2. QED BY <3>1, <2>4 DEF Precede
  <2>6. InOrder(buffer_') /\ In(buffer_') = B \cup {Head(queue_)}
    BY Zenon, <1>6, <1>7, <2>1, <2>4, <2>5, InAppend
  <2>7. Chain(F, O, B \cup {Head(queue_)}, {}, In(Tail(queue_)))
    BY ZenonT(30), <1>9, <2>3, <2>4
  <2>8. Chain(In(file'), In(to_write'[Writer]) \cup In(to_write'[Owner]), In(buffer_'),
              {popped'[Writer]} \ {None}, In(queue_'))
    BY ZenonT(30), <2>1, <2>3, <2>6, <2>7
  <2>9. QED BY Zenon, <1>7, <2>1, <2>4, <2>6, <2>8 DEF InLine
<1>12. CASE SwapsOut(t) /\ at[t] \notin Busy
  <2>1. /\ queue_' = queue_ /\ buffer_' = <<>> /\ file' = file
        /\ to_write' = [to_write EXCEPT ![t] = buffer_] /\ popped' = popped
    BY <1>12 DEF SwapsOut
  <2>2. to_write[t] = <<>>
    BY <1>5, <1>12 DEF Busy
  <2>3. to_write'[t] = buffer_ /\ \A u \in LogThreads : u # t => to_write'[u] = to_write[u]
    BY <1>6, <2>1
  <2>4. InOrder(to_write'[Writer]) /\ InOrder(to_write'[Owner])
    BY ZenonT(30), <1>1, <1>7, <2>3
  <2>5. In(to_write'[Writer]) \cup In(to_write'[Owner]) = O \cup B
    <3>1. In(to_write[t]) = {}
      BY Zenon, <2>2, OfEmpty
    <3>2. CASE t = Writer
      BY <1>1, <2>3, <3>1, <3>2
    <3>3. CASE t = Owner
      BY <1>1, <2>3, <3>1, <3>3
    <3>4. QED BY <1>4, <3>2, <3>3
  <2>6. In(buffer_') = {} /\ InOrder(buffer_')
    BY ZenonT(30), <2>1, OfEmpty
  <2>7. Chain(In(file'), In(to_write'[Writer]) \cup In(to_write'[Owner]), In(buffer_'),
              {popped'[Writer]} \ {None}, In(queue_'))
    BY ZenonT(30), <1>9, <2>1, <2>5, <2>6
  <2>8. QED BY Zenon, <1>7, <2>1, <2>4, <2>6, <2>7 DEF InLine
<1>13. CASE WritesOut(t) /\ at[t] \in Outs
  <2>1. /\ queue_' = queue_ /\ buffer_' = buffer_ /\ file' = file \o to_write[t]
        /\ to_write' = [to_write EXCEPT ![t] = <<>>] /\ popped' = popped
    BY <1>13 DEF WritesOut
  <2>2. to_write'[t] = <<>> /\ \A u \in LogThreads : u # t => to_write'[u] = to_write[u]
    BY SMTT(30), <1>6, <2>1
  <2>3. ASSUME NEW u \in {Writer, Owner}, u # t PROVE to_write[u] = <<>>
    <3>1. at[u] \notin Outs
      BY <1>1, <1>4, <1>13, <2>3 DEF JoinInv, Outs
    <3>2. QED BY <1>1, <1>5, <3>1
  <2>4. to_write'[Writer] = <<>> /\ to_write'[Owner] = <<>>
    BY <1>1, <2>2, <2>3
  <2>5. O = In(to_write[t])
    <3>1. In(<<>>) = {}
      BY OfEmpty
    <3>2. CASE t = Writer
      BY <1>1, <2>3, <3>1, <3>2
    <3>3. CASE t = Owner
      BY <1>1, <2>3, <3>1, <3>3
    <3>4. QED BY <1>4, <3>2, <3>3
  <2>6. InOrder(file') /\ In(file') = F \cup O
    <3>1. Precede(In(file), In(to_write[t])) /\ InOrder(to_write[t])
      BY Zenon, <1>4, <1>7, <2>5 DEF Chain
    <3>2. to_write[t] \in Seq(Lines)
      BY <1>6
    <3>3. /\ InOrder(file \o to_write[t])
          /\ In(file \o to_write[t]) = In(file) \cup In(to_write[t])
      BY Zenon, <1>6, <1>7, <3>1, <3>2, InJoined
    <3>4. QED BY <2>1, <2>5, <3>3
  <2>7. In(to_write'[Writer]) \cup In(to_write'[Owner]) = {}
    BY SMTT(30), <2>4, OfEmpty
  <2>8. Chain(In(file'), In(to_write'[Writer]) \cup In(to_write'[Owner]), In(buffer_'),
              {popped'[Writer]} \ {None}, In(queue_'))
    BY ZenonT(30), <1>9, <2>1, <2>6, <2>7
  <2>9. InOrder(to_write'[Writer]) /\ InOrder(to_write'[Owner])
    BY Zenon, <2>4, OfEmpty
  <2>10. QED BY Zenon, <1>7, <2>1, <2>6, <2>8, <2>9 DEF InLine
<1>14. CASE Pops(t) /\ at[t] \notin Busy /\ t # Owner
  <2>1. /\ queue_ # <<>> /\ queue_' = Tail(queue_) /\ buffer_' = buffer_ /\ file' = file
        /\ to_write' = to_write /\ popped' = [popped EXCEPT ![t] = Head(queue_)]
    BY SMTT(30), <1>14 DEF Pops
  <2>2. t = Writer /\ popped[Writer] = None
    BY <1>4, <1>5, <1>14 DEF Busy
  <2>3. H = {}
    BY <2>2
  <2>4. /\ Head(queue_) \in Lines /\ Q = {Head(queue_)} \cup In(Tail(queue_))
        /\ InOrder(Tail(queue_)) /\ Precede({Head(queue_)}, In(Tail(queue_)))
    BY Zenon, <1>6, <1>7, <2>1, InTail
  <2>5. Chain(F, O, B, {Head(queue_)}, In(Tail(queue_)))
    BY Zenon, <1>9, <2>3, <2>4
  <2>6. {popped'[Writer]} \ {None} = {Head(queue_)}
    BY SMTT(30), <1>1, <1>6, <2>1, <2>2, <2>4, NoneIsNoLine
  <2>7. Chain(In(file'), In(to_write'[Writer]) \cup In(to_write'[Owner]), In(buffer_'),
              {popped'[Writer]} \ {None}, In(queue_'))
    BY ZenonT(30), <2>1, <2>5, <2>6
  <2>8. QED BY Zenon, <1>7, <2>1, <2>4, <2>7 DEF InLine
<1>15. CASE Adds(t) /\ at[t] = "add"
  <2>1. /\ queue_' = queue_ /\ buffer_' = Append(buffer_, popped[t]) /\ file' = file
        /\ to_write' = to_write /\ popped' = [popped EXCEPT ![t] = None]
    BY <1>15 DEF Adds
  <2>2. t = Writer /\ popped[Writer] # None
    BY <1>1, <1>4, <1>5, <1>15 DEF JoinInv
  <2>3. H = {popped[t]} /\ popped[t] \in Lines
    BY <1>6, <2>2
  <2>4. Precede(B, {popped[t]})
    BY Zenon, <1>7, <2>3 DEF Chain
  <2>5. InOrder(buffer_') /\ In(buffer_') = B \cup H
    BY Zenon, <1>6, <1>7, <2>1, <2>3, <2>4, InAppend
  <2>6. {popped'[Writer]} \ {None} = {}
    BY SMTT(30), <1>1, <1>6, <2>1, <2>2
  <2>7. Chain(In(file'), In(to_write'[Writer]) \cup In(to_write'[Owner]), In(buffer_'),
              {popped'[Writer]} \ {None}, In(queue_'))
    BY ZenonT(30), <1>9, <2>1, <2>5, <2>6
  <2>8. QED BY Zenon, <1>7, <2>1, <2>5, <2>7 DEF InLine
<1>16. QED BY Zenon, <1>10, <1>11, <1>12, <1>13, <1>14, <1>15 DEF Turn

LEMMA LineStep ==
  ASSUME LogInv, JoinInv, LineInv, [LogNext]_log_vars
  PROVE  LineInv'
<1>1. CASE UNCHANGED log_vars
  BY <1>1 DEF log_vars, LineInv, NoFlush
<1>2. CASE LogNext
  <2>1. at = [u \in LogThreads |-> at[u]]
    BY Zenon DEF LogInv, HandsInv
  <2>2. CASE Still /\ UNCHANGED at
    BY <2>2 DEF Still, LineInv, NoFlush
  <2>3. QED BY Zenon, <1>2, <2>1, <2>2, EveryTurn, LogLines, TurnLines
<1>3. QED BY <1>1, <1>2

LEMMA LineStart ==
  ASSUME LogInit
  PROVE  JoinInv /\ LineInv
<1>1. /\ Writer \in LogThreads /\ Owner \in LogThreads /\ at[Owner] = "idle"
      /\ queue_ = <<>> /\ buffer_ = <<>> /\ file = <<>>
      /\ to_write[Writer] = <<>> /\ to_write[Owner] = <<>> /\ popped[Writer] = None
  BY DEF LogInit, LogThreads, Writer, Owner
<1>2. JoinInv
  BY SMTT(30), <1>1 DEF JoinInv
<1>3. In(to_write[Writer]) \cup In(to_write[Owner]) = {} /\ {popped[Writer]} \ {None} = {}
  BY <1>1, OfEmpty
<1>4. Chain({}, {}, {}, {}, {})
  BY SMTT(30) DEF Chain, Precede
<1>5. InLine(queue_, buffer_, file, to_write, popped)
  BY ZenonT(30), <1>1, <1>3, <1>4, OfEmpty DEF InLine
<1>6. QED BY <1>2, <1>5 DEF LineInv

(* As long as nobody calls flush(), the file has every producer's lines in the
   order they were logged: the writer and, once it is joined, the destructor pass
   entries on from the queue to the file without overtaking. *)
THEOREM LinesStayInOrder == LogSpec => []FileInOrder
<1>1. ASSUME LogInv PROVE at = [u \in LogThreads |-> at[u]]
  BY <1>1 DEF LogInv, HandsInv
<1>2. LineInv => FileInOrder
  BY DEF LineInv, InLine, FileInOrder, NoFlush
<1>3. QED BY <1>1, <1>2, LogInvariance, LineStart, JoinStep, LineStep, PTL DEF LogSpec
=============================================================================
