-------------------------- MODULE ThreadSafeQueue --------------------------
(***************************************************************************)
(* ThreadSafeQueue<T> (src/muses/queue.hpp): a std::queue under one mutex  *)
(* and ONE condition variable that producers and consumers share.          *)
(*                                                                         *)
(* One step is one critical section, as in BlockingQueue.                  *)
(***************************************************************************)
EXTENDS Naturals, Sequences, FiniteSets, CondVar

CONSTANTS
  Producers,   \* threads that call push()
  Consumers,   \* threads that call try_pop() and wait_and_pop()
  PopModes,    \* pops the clients use: "wait" is wait_and_pop(), "try" try_pop()
  Capacities,  \* values set_capacity() may be given
  Unlimited,   \* numeric_limits<unsigned int>::max(), the default capacity
  MaxPush,     \* bound: calls of push() per producer
  MaxPop       \* bound: calls of try_pop()/wait_and_pop() per consumer

(* What is assumed of them. *)
QueueAssumption ==
  /\ Producers \cap Consumers = {} /\ PopModes \subseteq {"wait", "try"}
  /\ Unlimited \in Nat /\ Capacities \subseteq 0..Unlimited
  /\ MaxPush \in Nat /\ MaxPop \in Nat

VARIABLES
  data_queue,  \* data_queue
  capacity,    \* capacity
  stopped,     \* stopped
  sleepers,    \* threads asleep on data_control_condition
  call,        \* the call each thread is in: "idle", "push", "wait"
  calls        \* calls each thread has begun

vars == <<data_queue, capacity, stopped, sleepers, call, calls>>

Threads == Producers \cup Consumers

Init ==
  /\ data_queue = <<>> /\ capacity = Unlimited /\ stopped = FALSE
  /\ sleepers = {}
  /\ call = [t \in Threads |-> "idle"]
  /\ calls = [t \in Threads |-> 0]

Return(t) == call' = [call EXCEPT ![t] = "idle"]
Sleep(t, c) == sleepers' = sleepers \cup {t} /\ call' = [call EXCEPT ![t] = c]

SetCapacity(cap) ==
  /\ capacity' = cap
  /\ UNCHANGED <<data_queue, stopped, sleepers, call, calls>>

(* notify_one(), and the slip that forgets it. *)
NotifyNobody == UNCHANGED sleepers
Notify == sleepers' \in AfterNotifyOne(sleepers)

(* push() from the moment it holds the mutex. *)
PushBody(p) ==
  \/ /\ stopped
     /\ Return(p)
     /\ UNCHANGED <<data_queue, sleepers>>
  \/ /\ ~stopped /\ capacity > Len(data_queue)
     /\ data_queue' = Append(data_queue, <<p, calls'[p]>>)
     /\ Notify
     /\ Return(p)
  \/ /\ ~stopped /\ capacity <= Len(data_queue)
     /\ Sleep(p, "push")
     /\ UNCHANGED data_queue

Push(p) ==
  /\ call[p] = "idle" /\ calls[p] < MaxPush
  /\ calls' = [calls EXCEPT ![p] = @ + 1]
  /\ PushBody(p)
  /\ UNCHANGED <<capacity, stopped>>

PushResume(p) ==
  /\ call[p] = "push" /\ p \notin sleepers
  /\ UNCHANGED <<capacity, stopped, calls>>
  /\ PushBody(p)

(* data_queue.pop(), and the slip that takes the newest item. *)
PopNewest == SubSeq(data_queue, 1, Len(data_queue) - 1)
PopFront == Tail(data_queue)

(* try_pop() takes what there is and tells nobody. *)
TryPop(c) ==
  /\ "try" \in PopModes /\ call[c] = "idle" /\ calls[c] < MaxPop
  /\ calls' = [calls EXCEPT ![c] = @ + 1]
  /\ data_queue' = IF data_queue = <<>> THEN <<>> ELSE PopFront
  /\ UNCHANGED <<capacity, stopped, sleepers, call>>

(* wait_and_pop() from the moment it holds the mutex. *)
PopBody(c) ==
  \/ /\ data_queue # <<>>
     /\ data_queue' = PopFront
     /\ Notify
     /\ Return(c)
  \/ /\ data_queue = <<>> /\ stopped
     /\ Return(c)
     /\ UNCHANGED <<data_queue, sleepers>>
  \/ /\ data_queue = <<>> /\ ~stopped
     /\ Sleep(c, "wait")
     /\ UNCHANGED data_queue

WaitAndPop(c) ==
  /\ "wait" \in PopModes /\ call[c] = "idle" /\ calls[c] < MaxPop
  /\ calls' = [calls EXCEPT ![c] = @ + 1]
  /\ PopBody(c)
  /\ UNCHANGED <<capacity, stopped>>

PopResume(c) ==
  /\ call[c] = "wait" /\ c \notin sleepers
  /\ PopBody(c)
  /\ UNCHANGED <<capacity, stopped, calls>>

SpuriousWakeup(t) ==
  /\ t \in sleepers
  /\ sleepers' = sleepers \ {t}
  /\ UNCHANGED <<data_queue, capacity, stopped, call, calls>>

(* stop(); the slip tells nobody. *)
StopSilent ==
  /\ ~stopped /\ stopped' = TRUE
  /\ UNCHANGED <<data_queue, capacity, sleepers, call, calls>>

Stop ==
  /\ ~stopped /\ stopped' = TRUE
  /\ sleepers' \in AfterNotifyAll(sleepers)
  /\ UNCHANGED <<data_queue, capacity, call, calls>>

Next ==
  \/ \E cap \in Capacities : SetCapacity(cap)
  \/ \E p \in Producers : Push(p) \/ PushResume(p)
  \/ \E c \in Consumers : TryPop(c) \/ WaitAndPop(c) \/ PopResume(c)
  \/ \E t \in Threads : SpuriousWakeup(t)
  \/ Stop

Spec == Init /\ [][Next]_vars

(* A woken thread gets the mutex at last. *)
Fairness ==
  /\ \A p \in Producers : WF_vars(PushResume(p))
  /\ \A c \in Consumers : WF_vars(PopResume(c))
FairSpec == Spec /\ Fairness

-----------------------------------------------------------------------------
(* data_queue holds what was pushed and nothing else: no pop() of an empty
   queue. *)
TypeOK ==
  /\ data_queue \in Seq(Producers \X Nat) /\ capacity \in Nat
  /\ stopped \in BOOLEAN /\ sleepers \subseteq Threads
  /\ call \in [Threads -> {"idle", "push", "wait"}]
  /\ calls \in [Threads -> Nat]

Woken == {t \in Threads : call[t] # "idle" /\ t \notin sleepers}

(* As long as nobody has set a capacity, one condition variable is enough: a
   consumer asleep in wait_and_pop() while the queue holds an item has somebody
   awake inside the queue who will pass it on, whoever takes items by try_pop()
   in between.  (With a capacity it is not: see PushUnblocks.) *)
SomebodyIsAwake ==
  capacity = Unlimited /\ sleepers # {} /\ data_queue # <<>> => Woken # {}

(* "push() blocks when the number of elements reaches the capacity, and
   unblocks as consumers drain it": a producer in push() gets out, or the
   queue fills up again. *)
PushUnblocks ==
  \A p \in Producers :
    call[p] = "push" /\ capacity > Len(data_queue) ~>
      call[p] = "idle" \/ capacity <= Len(data_queue)

(* As long as nobody has set a capacity, a consumer in wait_and_pop() beside an
   item comes back, or others empty the queue before it. *)
PopReturns ==
  \A c \in Consumers :
    call[c] = "wait" /\ data_queue # <<>> /\ capacity = Unlimited ~>
      call[c] = "idle" \/ data_queue = <<>> \/ capacity # Unlimited

(* stop() gets everybody out of push() and wait_and_pop(). *)
StopReleasesAll ==
  \A t \in Threads : stopped /\ call[t] # "idle" ~> call[t] = "idle"

(* The queue is a FIFO. *)
Queue == INSTANCE Fifo
           WITH q <- data_queue, Items <- Producers \X (1..MaxPush),
                Room <- Unlimited
ImplementsFifo == Queue!Spec

=============================================================================
