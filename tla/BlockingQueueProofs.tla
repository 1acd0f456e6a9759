------------------------ MODULE BlockingQueueProofs ------------------------
(***************************************************************************)
(* The queue of the Block policy is a bounded FIFO and loses no wakeup,    *)
(* for every number of threads, every capacity and every number of calls.  *)
(***************************************************************************)
EXTENDS BlockingQueue, FiniteSetTheorems, SequenceTheorems, TLAPS

USE DEF Threads

(* What makes the claims inductive: who sleeps is inside a call, producers only in
   push(), whose call is one of the first MaxPush; and nobody sleeps after stop(). *)
SleepInv ==
  /\ \A p \in not_full : call[p] = "push"
  /\ \A c \in not_empty : call[c] # "idle"
  /\ \A p \in Producers :
       /\ calls[p] <= MaxPush
       /\ call[p] # "idle" => call[p] = "push" /\ calls[p] >= 1
  /\ \A c \in Consumers : call[c] # "push"
  /\ stopped => not_full = {} /\ not_empty = {}

-----------------------------------------------------------------------------
(* The critical sections, one outcome at a time. *)

(* A push() that returns because the queue was stopped. *)
PushStopped(p) == stopped /\ Return(p) /\ UNCHANGED <<buffer, stopped, not_full, not_empty>>
(* A push() that stores its item and wakes a consumer. *)
PushStores(p) ==
  /\ ~stopped /\ HasRoom /\ Return(p)
  /\ buffer' = Append(buffer, <<p, calls'[p]>>)
  /\ not_empty' \in AfterNotifyOne(not_empty)
  /\ UNCHANGED <<stopped, not_full>>
(* A push() that finds no room. *)
PushSleeps(p) ==
  /\ ~stopped /\ ~HasRoom
  /\ not_full' = not_full \cup {p}
  /\ call' = [call EXCEPT ![p] = "push"]
  /\ UNCHANGED <<buffer, stopped, not_empty>>
(* A pop that takes an item and wakes a producer. *)
PopTakes(c) ==
  /\ buffer # <<>> /\ buffer' = Tail(buffer) /\ Return(c)
  /\ not_full' \in AfterNotifyOne(not_full)
  /\ UNCHANGED <<stopped, not_empty>>
(* A pop that gives up. *)
PopEmpty(c) == buffer = <<>> /\ Return(c) /\ UNCHANGED <<buffer, stopped, not_full, not_empty>>
(* A pop that finds nothing. *)
PopSleeps(c) ==
  /\ buffer = <<>> /\ ~stopped
  /\ not_empty' = not_empty \cup {c}
  /\ \E m \in {"wait", "wait_for"} : call' = [call EXCEPT ![c] = m]
  /\ UNCHANGED <<buffer, stopped, not_full>>

(* Who runs the critical section of push(): a new call, or one that woke up. *)
InPush(p) ==
  /\ p \notin not_full
  /\ \/ call[p] = "idle" /\ calls[p] < MaxPush /\ calls' = [calls EXCEPT ![p] = @ + 1]
     \/ call[p] = "push" /\ calls' = calls
InPop(c) ==
  /\ c \notin not_empty
  /\ calls' = calls \/ calls' = [calls EXCEPT ![c] = @ + 1]

(* Every step is one of these outcomes. *)
LEMMA PushOutcomes ==
  ASSUME TypeOK, SleepInv, NEW p \in Producers, Push(p) \/ PushResume(p)
  PROVE  InPush(p) /\ (PushStopped(p) \/ PushStores(p) \/ PushSleeps(p))
<1>1. CASE Push(p)
  <2>1. p \notin not_full
    BY <1>1 DEF Push, SleepInv
  <2>2. QED
    BY <1>1, <2>1 DEF Push, PushBody, InPush, PushStopped, PushStores, PushSleeps, WakeConsumer
<1>2. CASE PushResume(p)
  BY <1>2 DEF PushResume, PushBody, InPush, PushStopped, PushStores, PushSleeps, WakeConsumer
<1>3. QED BY <1>1, <1>2

LEMMA PopOutcomes ==
  ASSUME TypeOK, SleepInv, NEW c \in Consumers, Pop(c) \/ PopResume(c)
  PROVE  InPop(c) /\ (PopTakes(c) \/ PopEmpty(c) \/ PopSleeps(c))
<1>0. c \in Threads /\ c \notin Producers
  BY BlockingAssumption
<1>1. CASE Pop(c)
  <2>1. c \notin not_empty /\ InPop(c) /\ UNCHANGED stopped
    BY <1>1 DEF Pop, SleepInv, InPop
  <2>2. PICK m \in {"wait", "wait_for", "last"} : PopBody(c, m)
    BY <1>1 DEF Pop
  <2>3. QED BY <2>1, <2>2 DEF PopBody, PopTakes, PopEmpty, PopSleeps
<1>2. CASE PopResume(c)
  <2>1. c \notin not_empty /\ InPop(c) /\ UNCHANGED stopped
    BY <1>2 DEF PopResume, InPop
  <2>2. PopBody(c, call[c]) /\ call[c] \in {"wait", "wait_for", "last"}
    BY <1>0, <1>2 DEF PopResume, TypeOK, SleepInv
  <2>3. QED BY <2>1, <2>2 DEF PopBody, PopTakes, PopEmpty, PopSleeps
<1>3. QED BY <1>1, <1>2

(* notify_one() leaves a subset of the sleepers. *)
LEMMA NotifyShrinks ==
  ASSUME NEW S, NEW R \in AfterNotifyOne(S)
  PROVE  R \subseteq S
BY DEF AfterNotifyOne

-----------------------------------------------------------------------------
(* Types, and SleepInv *)

LEMMA TypeInit ==
  Init => TypeOK /\ SleepInv
<1> SUFFICES ASSUME Init PROVE TypeOK /\ SleepInv
  OBVIOUS
<1>1. buffer \in Seq(Producers \X Nat) /\ Len(buffer) <= Capacity
  BY BlockingAssumption DEF Init
<1>2. TypeOK
  BY ZenonT(30), <1>1 DEF Init, TypeOK
<1>3. SleepInv
  BY BlockingAssumption DEF Init, SleepInv
<1>4. QED BY <1>2, <1>3

LEMMA TypeStep ==
  ASSUME TypeOK, SleepInv, [Next]_vars
  PROVE  TypeOK'
<1>1. ASSUME NEW p \in Producers, Push(p) \/ PushResume(p) PROVE TypeOK'
  <2>1. InPush(p) /\ (PushStopped(p) \/ PushStores(p) \/ PushSleeps(p))
    BY <1>1, PushOutcomes
  <2>2. calls' \in [Threads -> Nat]
    BY <2>1 DEF InPush, TypeOK
  <2>3. CASE PushStopped(p)
    BY <2>2, <2>3 DEF PushStopped, Return, TypeOK
  <2>4. CASE PushStores(p)
    <3>1. buffer' \in Seq(Producers \X Nat) /\ Len(buffer') = Len(buffer) + 1
      BY <2>2, <2>4, AppendProperties DEF PushStores, TypeOK
    <3>2. Len(buffer') <= Capacity
      BY <2>4, <3>1, BlockingAssumption DEF PushStores, HasRoom, TypeOK
    <3>3. not_empty' \subseteq Consumers
      BY <2>4, NotifyShrinks DEF PushStores, TypeOK
    <3>4. QED BY <2>2, <2>4, <3>1, <3>2, <3>3 DEF PushStores, Return, TypeOK
  <2>5. CASE PushSleeps(p)
    BY <2>2, <2>5 DEF PushSleeps, TypeOK
  <2>6. QED BY <2>1, <2>3, <2>4, <2>5
<1>2. ASSUME NEW c \in Consumers, Pop(c) \/ PopResume(c) PROVE TypeOK'
  <2>1. InPop(c) /\ (PopTakes(c) \/ PopEmpty(c) \/ PopSleeps(c))
    BY <1>2, PopOutcomes
  <2>2. calls' \in [Threads -> Nat]
    BY <2>1 DEF InPop, TypeOK
  <2>3. CASE PopTakes(c)
    <3>1. buffer' \in Seq(Producers \X Nat) /\ Len(buffer') = Len(buffer) - 1
      BY <2>3, HeadTailProperties DEF PopTakes, TypeOK
    <3>2. Len(buffer') <= Capacity
      BY <3>1, BlockingAssumption, LenProperties DEF TypeOK
    <3>3. not_full' \subseteq Producers
      BY <2>3, NotifyShrinks DEF PopTakes, TypeOK
    <3>4. QED BY <2>2, <2>3, <3>1, <3>2, <3>3 DEF PopTakes, Return, TypeOK
  <2>4. CASE PopEmpty(c)
    BY <2>2, <2>4 DEF PopEmpty, Return, TypeOK
  <2>5. CASE PopSleeps(c)
    BY <2>2, <2>5 DEF PopSleeps, TypeOK
  <2>6. QED BY <2>1, <2>3, <2>4, <2>5
<1>3. ASSUME NEW c \in Consumers, Timeout(c) PROVE TypeOK'
  BY <1>3 DEF Timeout, TypeOK
<1>4. ASSUME NEW t \in Threads, SpuriousWakeup(t) PROVE TypeOK'
  BY <1>4 DEF SpuriousWakeup, TypeOK
<1>5. CASE Stop
  BY <1>5 DEF Stop, TypeOK, AfterNotifyAll
<1>6. CASE UNCHANGED vars
  BY <1>6 DEF vars, TypeOK
<1>7. QED BY <1>1, <1>2, <1>3, <1>4, <1>5, <1>6 DEF Next

LEMMA SleepStep ==
  ASSUME TypeOK, SleepInv, [Next]_vars
  PROVE  SleepInv'
<1>0. /\ call \in [Threads -> {"idle", "push", "wait", "wait_for", "last"}]
      /\ calls \in [Threads -> Nat] /\ MaxPush \in Nat
      /\ not_full \subseteq Producers /\ not_empty \subseteq Consumers
      /\ Producers \cap Consumers = {}
  BY BlockingAssumption DEF TypeOK
<1>1. ASSUME NEW p \in Producers, Push(p) \/ PushResume(p) PROVE SleepInv'
  <2>1. InPush(p) /\ (PushStopped(p) \/ PushStores(p) \/ PushSleeps(p))
    BY <1>1, PushOutcomes
  <2>2. \A r \in Producers : calls'[r] <= MaxPush /\ calls'[r] >= calls[r]
    BY <1>0, <2>1 DEF InPush, SleepInv
  <2>3. calls'[p] >= 1
    BY <1>0, <2>1 DEF InPush, SleepInv
  <2>4. CASE PushStopped(p)
    BY <1>0, <2>1, <2>2, <2>4 DEF PushStopped, Return, SleepInv, InPush
  <2>5. CASE PushStores(p)
    <3>1. not_empty' \subseteq not_empty
      BY <2>5, NotifyShrinks DEF PushStores
    <3>2. QED BY <1>0, <2>1, <2>2, <2>5, <3>1 DEF PushStores, Return, SleepInv, InPush
  <2>6. CASE PushSleeps(p)
    <3>1. \A r \in Producers : call'[r] # "idle" => call'[r] = "push" /\ calls'[r] >= 1
      BY SMTT(30), <1>0, <2>1, <2>3, <2>6 DEF PushSleeps, SleepInv, InPush
    <3>2. \A r \in not_full' : call'[r] = "push"
      BY <1>0, <2>6 DEF PushSleeps, SleepInv
    <3>3. \A c \in Consumers : call'[c] = call[c]
      BY <1>0, <2>6 DEF PushSleeps
    <3>4. QED BY <1>0, <2>2, <2>6, <3>1, <3>2, <3>3 DEF PushSleeps, SleepInv
  <2>7. QED BY <2>1, <2>4, <2>5, <2>6
<1>2. ASSUME NEW c \in Consumers, Pop(c) \/ PopResume(c) PROVE SleepInv'
  <2>1. InPop(c) /\ (PopTakes(c) \/ PopEmpty(c) \/ PopSleeps(c))
    BY <1>2, PopOutcomes
  <2>2. \A r \in Producers : calls'[r] = calls[r] /\ r # c
    BY <1>0, <2>1 DEF InPop
  <2>3. CASE PopTakes(c)
    <3>1. not_full' \subseteq not_full
      BY <2>3, NotifyShrinks DEF PopTakes
    <3>2. QED BY <1>0, <2>1, <2>2, <2>3, <3>1 DEF PopTakes, Return, SleepInv, InPop
  <2>4. CASE PopEmpty(c)
    BY <1>0, <2>1, <2>2, <2>4 DEF PopEmpty, Return, SleepInv, InPop
  <2>5. CASE PopSleeps(c)
    BY <1>0, <2>1, <2>2, <2>5 DEF PopSleeps, SleepInv
  <2>6. QED BY <2>1, <2>3, <2>4, <2>5
<1>3. ASSUME NEW c \in Consumers, Timeout(c) PROVE SleepInv'
  BY <1>0, <1>3 DEF Timeout, SleepInv
<1>4. ASSUME NEW t \in Threads, SpuriousWakeup(t) PROVE SleepInv'
  BY <1>0, <1>4 DEF SpuriousWakeup, SleepInv
<1>5. CASE Stop
  BY <1>0, <1>5 DEF Stop, SleepInv, AfterNotifyAll
<1>6. CASE UNCHANGED vars
  BY <1>6 DEF vars, SleepInv
<1>7. QED BY <1>1, <1>2, <1>3, <1>4, <1>5, <1>6 DEF Next

-----------------------------------------------------------------------------
(* Wakeups.  Each outcome adds a thread to the woken ones, takes one away, or
   leaves them as they are. *)

LEMMA WokenFinite ==
  /\ IsFiniteSet(WokenProducers) /\ Cardinality(WokenProducers) \in Nat
  /\ IsFiniteSet(WokenConsumers) /\ Cardinality(WokenConsumers) \in Nat
BY BlockingAssumption, FS_Subset, FS_CardinalityType DEF WokenProducers, WokenConsumers

LEMMA OneMore ==
  ASSUME NEW S, IsFiniteSet(S), NEW x, x \notin S
  PROVE  Cardinality(S \cup {x}) = Cardinality(S) + 1
BY FS_AddElement

LEMMA OneLess ==
  ASSUME NEW S, IsFiniteSet(S), NEW x
  PROVE  Cardinality(S \ {x}) >= Cardinality(S) - 1
<1>1. Cardinality(S) \in Nat
  BY FS_CardinalityType
<1>2. Cardinality(S \ {x}) = Cardinality(S) - 1 \/ Cardinality(S \ {x}) = Cardinality(S)
  BY FS_RemoveElement
<1>3. QED BY <1>1, <1>2

(* notify_one() on a condition variable with more than one sleeper wakes one. *)
LEMMA NotifyWakes ==
  ASSUME NEW S, NEW R \in AfterNotifyOne(S), R # {}
  PROVE  \E x \in S : R = S \ {x}
BY DEF AfterNotifyOne

LEMMA ConsumersNotLost ==
  ASSUME TypeOK, SleepInv, NoLostWakeup, TypeOK', [Next]_vars
  PROVE  not_empty' # {} => Cardinality(WokenConsumers') >= Len(buffer')
<1> SUFFICES ASSUME not_empty' # {} PROVE Cardinality(WokenConsumers') >= Len(buffer')
  OBVIOUS
<1> DEFINE W == WokenConsumers
           n == Len(buffer)
<1>0. /\ call \in [Threads -> {"idle", "push", "wait", "wait_for", "last"}]
      /\ not_empty \subseteq Consumers /\ Producers \cap Consumers = {}
      /\ n \in Nat /\ buffer \in Seq(Producers \X Nat)
      /\ IsFiniteSet(W) /\ Cardinality(W) \in Nat /\ Cardinality(W') \in Nat
      /\ not_empty # {} => Cardinality(W) >= n
  <2>1. Cardinality(W') \in Nat
    BY BlockingAssumption, FS_Subset, FS_CardinalityType DEF WokenConsumers
  <2>2. n \in Nat
    BY LenProperties DEF TypeOK
  <2>3. QED BY <2>1, <2>2, BlockingAssumption, WokenFinite DEF TypeOK, NoLostWakeup
<1>1. ASSUME W' = W, n' <= n, n' \in Nat, not_empty # {} PROVE Cardinality(W') >= n'
  BY <1>0, <1>1
<1>2. ASSUME NEW c \in Consumers, c \notin W, W' = W \cup {c}, n' \in {n, n + 1}, not_empty # {}
      PROVE  Cardinality(W') >= n'
  BY <1>0, <1>2, OneMore
<1>3. ASSUME NEW p \in Producers, Push(p) \/ PushResume(p)
      PROVE  Cardinality(W') >= n'
  <2>1. InPush(p) /\ (PushStopped(p) \/ PushStores(p) \/ PushSleeps(p))
    BY <1>3, PushOutcomes
  <2>2. CASE PushStopped(p) \/ PushSleeps(p)
    <3>1. W' = W /\ n' = n /\ not_empty # {}
      BY <1>0, <2>2 DEF PushStopped, PushSleeps, Return, WokenConsumers
    <3>2. QED BY <1>0, <1>1, <3>1
  <2>3. CASE PushStores(p)
    <3>1. PICK c \in not_empty : not_empty' = not_empty \ {c}
      BY <2>3, NotifyWakes DEF PushStores
    <3>2. c \notin W /\ W' = W \cup {c}
      BY <1>0, <2>3, <3>1 DEF PushStores, Return, WokenConsumers, SleepInv
    <3>3. n' = n + 1
      <4>1. <<p, calls'[p]>> \in Producers \X Nat
        BY DEF TypeOK
      <4>2. QED BY <1>0, <2>3, <4>1, AppendProperties DEF PushStores
    <3>4. QED BY ZenonT(30), <1>0, <1>2, <3>1, <3>2, <3>3
  <2>4. QED BY <2>1, <2>2, <2>3
<1>4. ASSUME NEW c \in Consumers, Pop(c) \/ PopResume(c)
      PROVE  Cardinality(W') >= n'
  <2>1. InPop(c) /\ (PopTakes(c) \/ PopEmpty(c) \/ PopSleeps(c))
    BY <1>4, PopOutcomes
  <2>2. CASE PopTakes(c)
    <3>1. n' = n - 1 /\ n' \in Nat
      BY <1>0, <2>2, HeadTailProperties DEF PopTakes, TypeOK
    <3>2. not_empty # {} /\ W' = W \ {c}
      BY <1>0, <2>1, <2>2 DEF PopTakes, Return, WokenConsumers, InPop
    <3>3. Cardinality(W \ {c}) >= Cardinality(W) - 1
      BY ZenonT(30), <1>0, OneLess
    <3>4. QED BY <1>0, <3>1, <3>2, <3>3
  <2>3. CASE PopEmpty(c) \/ PopSleeps(c)
    <3>1. n' = 0
      BY <2>3 DEF PopEmpty, PopSleeps
    <3>2. QED BY <1>0, <3>1
  <2>4. QED BY <2>1, <2>2, <2>3
<1>5. ASSUME NEW c \in Consumers, Timeout(c) PROVE Cardinality(W') >= n'
  <2>1. c \notin W /\ W' = W \cup {c} /\ n' = n /\ not_empty # {}
    BY <1>0, <1>5 DEF Timeout, WokenConsumers
  <2>2. QED BY ZenonT(30), <1>0, <1>2, <2>1
<1>6. ASSUME NEW t \in Threads, SpuriousWakeup(t) PROVE Cardinality(W') >= n'
  <2>1. n' = n /\ not_empty # {}
    BY <1>6 DEF SpuriousWakeup
  <2>2. CASE t \in not_empty
    <3>1. t \in Consumers /\ t \notin W /\ W' = W \cup {t}
      BY <1>0, <1>6, <2>2 DEF SpuriousWakeup, WokenConsumers, SleepInv
    <3>2. QED BY ZenonT(30), <1>0, <1>2, <2>1, <3>1
  <2>3. CASE t \notin not_empty
    <3>1. W' = W
      BY <1>0, <1>6, <2>3 DEF SpuriousWakeup, WokenConsumers
    <3>2. QED BY <1>0, <1>1, <2>1, <3>1
  <2>4. QED BY <2>2, <2>3
<1>7. CASE Stop
  BY <1>7 DEF Stop, AfterNotifyAll
<1>8. CASE UNCHANGED vars
  BY <1>0, <1>8 DEF vars, WokenConsumers
<1>9. QED BY <1>3, <1>4, <1>5, <1>6, <1>7, <1>8 DEF Next

LEMMA ProducersNotLost ==
  ASSUME TypeOK, SleepInv, NoLostWakeup, TypeOK', [Next]_vars
  PROVE  not_full' # {} => Cardinality(WokenProducers') >= Capacity - Len(buffer')
<1> SUFFICES ASSUME not_full' # {}
             PROVE  Cardinality(WokenProducers') >= Capacity - Len(buffer')
  OBVIOUS
<1> DEFINE W == WokenProducers
           n == Len(buffer)
<1>0. /\ call \in [Threads -> {"idle", "push", "wait", "wait_for", "last"}]
      /\ not_full \subseteq Producers /\ Producers \cap Consumers = {}
      /\ n \in Nat /\ buffer \in Seq(Producers \X Nat) /\ Capacity \in Nat /\ n <= Capacity
      /\ IsFiniteSet(W) /\ Cardinality(W) \in Nat /\ Cardinality(W') \in Nat
      /\ not_full # {} => Cardinality(W) >= Capacity - n
  <2>1. Cardinality(W') \in Nat
    BY BlockingAssumption, FS_Subset, FS_CardinalityType DEF WokenProducers
  <2>2. n \in Nat
    BY LenProperties DEF TypeOK
  <2>3. QED BY <2>1, <2>2, BlockingAssumption, WokenFinite DEF TypeOK, NoLostWakeup
<1>1. ASSUME W' = W, n' = n, not_full # {} PROVE Cardinality(W') >= Capacity - n'
  BY <1>0, <1>1
<1>2. ASSUME NEW p \in Producers, p \notin W, W' = W \cup {p}, n' \in {n, n - 1}, not_full # {}
      PROVE  Cardinality(W') >= Capacity - n'
  BY SMTT(30), <1>0, <1>2, OneMore
<1>3. ASSUME NEW p \in Producers, Push(p) \/ PushResume(p)
      PROVE  Cardinality(W') >= Capacity - n'
  <2>1. InPush(p) /\ (PushStopped(p) \/ PushStores(p) \/ PushSleeps(p))
    BY <1>3, PushOutcomes
  <2>2. CASE PushStopped(p)
    BY <2>2 DEF PushStopped, SleepInv
  <2>3. CASE PushStores(p)
    <3>1. n' = n + 1
      <4>1. <<p, calls'[p]>> \in Producers \X Nat
        BY DEF TypeOK
      <4>2. QED BY <1>0, <2>3, <4>1, AppendProperties DEF PushStores
    <3>2. not_full # {} /\ W' = W \ {p}
      BY <1>0, <2>1, <2>3 DEF PushStores, Return, WokenProducers, InPush
    <3>3. Cardinality(W \ {p}) >= Cardinality(W) - 1
      BY ZenonT(30), <1>0, OneLess
    <3>4. QED BY <1>0, <3>1, <3>2, <3>3
  <2>4. CASE PushSleeps(p)
    BY <1>0, <2>4 DEF PushSleeps, HasRoom
  <2>5. QED BY <2>1, <2>2, <2>3, <2>4
<1>4. ASSUME NEW c \in Consumers, Pop(c) \/ PopResume(c)
      PROVE  Cardinality(W') >= Capacity - n'
  <2>1. InPop(c) /\ (PopTakes(c) \/ PopEmpty(c) \/ PopSleeps(c))
    BY <1>4, PopOutcomes
  <2>2. CASE PopTakes(c)
    <3>1. PICK p \in not_full : not_full' = not_full \ {p}
      BY <2>2, NotifyWakes DEF PopTakes
    <3>2. p \in Producers /\ p \notin W /\ W' = W \cup {p}
      BY <1>0, <2>2, <3>1 DEF PopTakes, Return, WokenProducers, SleepInv
    <3>3. n' = n - 1
      BY <1>0, <2>2, HeadTailProperties DEF PopTakes, TypeOK
    <3>4. QED BY ZenonT(30), <1>0, <1>2, <3>1, <3>2, <3>3
  <2>3. CASE PopEmpty(c) \/ PopSleeps(c)
    <3>1. W' = W /\ n' = n /\ not_full # {}
      BY <1>0, <2>3 DEF PopEmpty, PopSleeps, Return, WokenProducers
    <3>2. QED BY <1>0, <1>1, <3>1
  <2>4. QED BY <2>1, <2>2, <2>3
<1>5. ASSUME NEW c \in Consumers, Timeout(c) PROVE Cardinality(W') >= Capacity - n'
  <2>1. W' = W /\ n' = n /\ not_full # {}
    BY <1>0, <1>5 DEF Timeout, WokenProducers
  <2>2. QED BY <1>0, <1>1, <2>1
<1>6. ASSUME NEW t \in Threads, SpuriousWakeup(t) PROVE Cardinality(W') >= Capacity - n'
  <2>1. n' = n /\ not_full # {}
    BY <1>6 DEF SpuriousWakeup
  <2>2. CASE t \in not_full
    <3>1. t \in Producers /\ t \notin W /\ W' = W \cup {t}
      BY <1>0, <1>6, <2>2 DEF SpuriousWakeup, WokenProducers, SleepInv
    <3>2. QED BY ZenonT(30), <1>0, <1>2, <2>1, <3>1
  <2>3. CASE t \notin not_full
    <3>1. W' = W
      BY <1>0, <1>6, <2>3 DEF SpuriousWakeup, WokenProducers
    <3>2. QED BY <1>0, <1>1, <2>1, <3>1
  <2>4. QED BY <2>2, <2>3
<1>7. CASE Stop
  BY <1>7 DEF Stop, AfterNotifyAll
<1>8. CASE UNCHANGED vars
  BY <1>0, <1>8 DEF vars, WokenProducers
<1>9. QED BY <1>3, <1>4, <1>5, <1>6, <1>7, <1>8 DEF Next

(* No consumer sleeps in wait_pop() beside an item nobody was woken for, and no
   producer in push() beside a free place nobody was woken for, with any number of
   threads, spurious wakeups, timeouts and a stop() at any moment. *)
THEOREM NoWakeupIsLost == Spec => []NoLostWakeup
<1>1. Init => NoLostWakeup
  BY DEF Init, NoLostWakeup
<1>2. TypeOK /\ SleepInv /\ NoLostWakeup /\ [Next]_vars => NoLostWakeup'
  BY TypeStep, ConsumersNotLost, ProducersNotLost DEF NoLostWakeup
<1>3. QED BY <1>1, <1>2, TypeInit, TypeStep, SleepStep, PTL DEF Spec

-----------------------------------------------------------------------------
(* Items enter and leave as in module Fifo. *)
LEMMA FifoStep ==
  ASSUME TypeOK, SleepInv, SleepInv', TypeOK', [Next]_vars
  PROVE  [Queue!Next]_buffer
<1>1. ASSUME NEW p \in Producers, Push(p) \/ PushResume(p) PROVE [Queue!Next]_buffer
  <2>1. InPush(p) /\ (PushStopped(p) \/ PushStores(p) \/ PushSleeps(p))
    BY <1>1, PushOutcomes
  <2>2. CASE PushStores(p)
    <3>1. calls'[p] \in 1..MaxPush
      BY <2>1, BlockingAssumption DEF InPush, SleepInv, TypeOK
    <3>2. Queue!Put(<<p, calls'[p]>>)
      BY <2>2 DEF PushStores, HasRoom, Queue!Put
    <3>3. QED BY <3>1, <3>2 DEF Queue!Next
  <2>3. QED BY <2>1, <2>2 DEF PushStopped, PushSleeps
<1>2. ASSUME NEW c \in Consumers, Pop(c) \/ PopResume(c) PROVE [Queue!Next]_buffer
  BY <1>2, PopOutcomes DEF PopTakes, PopEmpty, PopSleeps, Queue!Next, Queue!Take
<1>3. ASSUME NEW t \in Threads, Timeout(t) \/ SpuriousWakeup(t) PROVE [Queue!Next]_buffer
  BY <1>3 DEF Timeout, SpuriousWakeup
<1>4. CASE Stop \/ UNCHANGED vars
  BY <1>4 DEF Stop, vars
<1>5. QED BY <1>1, <1>2, <1>3, <1>4 DEF Next

(* The queue is the bounded FIFO of module Fifo with room for capacity_ items, for
   every number of threads and calls. *)
THEOREM BlockingIsFifo == Spec => ImplementsFifo
<1>1. Init => Queue!Init
  BY DEF Init, Queue!Init
<1>2. TypeOK /\ SleepInv /\ [Next]_vars => [Queue!Next]_buffer
  BY TypeStep, SleepStep, FifoStep
<1>3. QED BY <1>1, <1>2, TypeInit, TypeStep, SleepStep, PTL DEF Spec, ImplementsFifo, Queue!Spec
=============================================================================
