--------------------------- MODULE BlockingQueue ---------------------------
(***************************************************************************)
(* BoundedQueue<T> under the Block policy (src/muses/bounded_queue.hpp,    *)
(* BlockingImpl): a deque under one mutex and two condition variables.     *)
(*                                                                         *)
(* One step is one critical section, from taking mutex_ to giving it up or *)
(* to falling asleep in a wait().                                          *)
(***************************************************************************)
EXTENDS Naturals, Sequences, FiniteSets, CondVar

CONSTANTS
  Producers,  \* threads that call push()
  Consumers,  \* threads that call try_pop() and wait_pop()
  Capacity,   \* capacity_
  MaxPush,    \* bound: calls of push() per producer
  MaxPop      \* bound: calls of try_pop()/wait_pop() per consumer

ASSUME BlockingAssumption ==
  /\ Producers \cap Consumers = {} /\ IsFiniteSet(Producers) /\ IsFiniteSet(Consumers)
  /\ Capacity \in Nat \ {0} /\ MaxPush \in Nat /\ MaxPop \in Nat

VARIABLES
  buffer,     \* buffer_
  stopped,    \* stopped_
  not_full,   \* producers asleep on not_full_
  not_empty,  \* consumers asleep on not_empty_
  call,       \* "idle", or the call a thread is in: "push"; "wait",
              \* "wait_for" or "last", a pop that does not sleep (any more)
  calls       \* calls each thread has begun

vars == <<buffer, stopped, not_full, not_empty, call, calls>>

Threads == Producers \cup Consumers

Init ==
  /\ buffer = <<>> /\ stopped = FALSE
  /\ not_full = {} /\ not_empty = {}
  /\ call = [t \in Threads |-> "idle"]
  /\ calls = [t \in Threads |-> 0]

Return(t) == call' = [call EXCEPT ![t] = "idle"]

-----------------------------------------------------------------------------
(* The predicate producers wait for, and push()'s notification; before each
   the slip a property has to notice. *)
HasRoomForOneMore == Len(buffer) <= Capacity
HasRoom == Len(buffer) < Capacity
WakeNobody == UNCHANGED not_empty
WakeConsumer == not_empty' \in AfterNotifyOne(not_empty)

(* push() from the moment it holds the mutex. *)
PushBody(p) ==
  \/ /\ stopped
     /\ Return(p)
     /\ UNCHANGED <<buffer, not_full, not_empty>>
  \/ /\ ~stopped /\ HasRoom
     /\ buffer' = Append(buffer, <<p, calls'[p]>>)
     /\ WakeConsumer
     /\ Return(p)
     /\ UNCHANGED not_full
  \/ /\ ~stopped /\ ~HasRoom
     /\ not_full' = not_full \cup {p}
     /\ call' = [call EXCEPT ![p] = "push"]
     /\ UNCHANGED <<buffer, not_empty>>

Push(p) ==
  /\ call[p] = "idle" /\ calls[p] < MaxPush
  /\ calls' = [calls EXCEPT ![p] = @ + 1]
  /\ PushBody(p)
  /\ UNCHANGED stopped

PushResume(p) ==
  /\ call[p] = "push" /\ p \notin not_full
  /\ UNCHANGED <<stopped, calls>>
  /\ PushBody(p)

(* try_pop() and wait_pop() from the moment they hold the mutex.  The
   predicate of the waits is stopped_ || !buffer_.empty(). *)
PopBody(c, m) ==
  \/ /\ buffer # <<>>
     /\ buffer' = Tail(buffer)
     /\ not_full' \in AfterNotifyOne(not_full)
     /\ Return(c)
     /\ UNCHANGED not_empty
  \/ /\ buffer = <<>> /\ (stopped \/ m = "last")
     /\ Return(c)
     /\ UNCHANGED <<buffer, not_full, not_empty>>
  \/ /\ buffer = <<>> /\ ~stopped /\ m # "last"
     /\ not_empty' = not_empty \cup {c}
     /\ call' = [call EXCEPT ![c] = m]
     /\ UNCHANGED <<buffer, not_full>>

Pop(c) ==
  /\ call[c] = "idle" /\ calls[c] < MaxPop
  /\ calls' = [calls EXCEPT ![c] = @ + 1]
  /\ \E m \in {"wait", "wait_for", "last"} : PopBody(c, m)
  /\ UNCHANGED stopped

PopResume(c) ==
  /\ call[c] # "idle" /\ c \notin not_empty
  /\ PopBody(c, call[c])
  /\ UNCHANGED <<stopped, calls>>

(* wait_for() runs out of time: it looks at the predicate once more. *)
Timeout(c) ==
  /\ c \in not_empty /\ call[c] = "wait_for"
  /\ not_empty' = not_empty \ {c}
  /\ call' = [call EXCEPT ![c] = "last"]
  /\ UNCHANGED <<buffer, stopped, not_full, calls>>

(* A wait may end without a notification. *)
SpuriousWakeup(t) ==
  /\ t \in not_full \cup not_empty
  /\ not_full' = not_full \ {t}
  /\ not_empty' = not_empty \ {t}
  /\ UNCHANGED <<buffer, stopped, call, calls>>

(* stop(); the slip forgets the producers. *)
StopConsumersOnly ==
  /\ ~stopped /\ stopped' = TRUE
  /\ not_empty' \in AfterNotifyAll(not_empty)
  /\ UNCHANGED <<buffer, not_full, call, calls>>

Stop ==
  /\ ~stopped /\ stopped' = TRUE
  /\ not_full' \in AfterNotifyAll(not_full)
  /\ not_empty' \in AfterNotifyAll(not_empty)
  /\ UNCHANGED <<buffer, call, calls>>

Next ==
  \/ \E p \in Producers : Push(p) \/ PushResume(p)
  \/ \E c \in Consumers : Pop(c) \/ PopResume(c) \/ Timeout(c)
  \/ \E t \in Threads : SpuriousWakeup(t)
  \/ Stop

Spec == Init /\ [][Next]_vars

(* A woken thread gets the mutex at last. *)
Fairness ==
  /\ \A p \in Producers : WF_vars(PushResume(p))
  /\ \A c \in Consumers : WF_vars(PopResume(c))
FairSpec == Spec /\ Fairness

-----------------------------------------------------------------------------
(* buffer_ holds at most capacity_ items, and producers sleep on not_full_ only,
   consumers on not_empty_ only. *)
TypeOK ==
  /\ buffer \in Seq(Producers \X Nat) /\ Len(buffer) <= Capacity /\ stopped \in BOOLEAN
  /\ not_full \subseteq Producers /\ not_empty \subseteq Consumers
  /\ call \in [Threads -> {"idle", "push", "wait", "wait_for", "last"}]
  /\ calls \in [Threads -> Nat]

WokenProducers == {p \in Producers : call[p] = "push" /\ p \notin not_full}
WokenConsumers == {c \in Consumers : call[c] # "idle" /\ c \notin not_empty}

(* No wakeup is lost: while a consumer sleeps in wait_pop() there are as many
   consumers on their way to the mutex as items in the buffer, and while a
   producer sleeps in push(), as many producers as free places. *)
NoLostWakeup ==
  /\ not_empty # {} => Cardinality(WokenConsumers) >= Len(buffer)
  /\ not_full # {} => Cardinality(WokenProducers) >= Capacity - Len(buffer)

(* The queue is a bounded FIFO. *)
Queue == INSTANCE Fifo
           WITH q <- buffer, Items <- Producers \X (1..MaxPush), Room <- Capacity
ImplementsFifo == Queue!Spec

(* Nobody sleeps for ever: a push() under way with a free place, and a pop under
   way with an item in the buffer, returns unless others take the place or the
   item; and stop() gets everybody out of push() and wait_pop(). *)
CallsReturn ==
  /\ \A p \in Producers :
       call[p] # "idle" /\ Len(buffer) < Capacity ~>
         call[p] = "idle" \/ Len(buffer) = Capacity
  /\ \A c \in Consumers :
       call[c] # "idle" /\ buffer # <<>> ~> call[c] = "idle" \/ buffer = <<>>
  /\ \A t \in Threads : stopped /\ call[t] # "idle" ~> call[t] = "idle"

=============================================================================
