----------------------------- MODULE RingQueue -----------------------------
(***************************************************************************)
(* The lock-free ring behind BoundedQueue<T> under the DropNew and         *)
(* DropOldest policies (src/muses/bounded_queue.hpp, RingImpl): the queue  *)
(* the logger writes into and the outbox workers hand responses back on.   *)
(*                                                                         *)
(* One step is one access to shared memory: a load or store of an atomic,  *)
(* a compare-exchange, a semaphore operation, or the construction, move or *)
(* reset of a payload.  What a thread does between two accesses is folded  *)
(* into the earlier one, and so is the fetch_add on dropped_, a counter    *)
(* the algorithm never reads.  Atomics are sequentially consistent.        *)
(***************************************************************************)
EXTENDS Integers, Sequences, FiniteSets

CONSTANTS
  Producers,    \* threads that call push()
  Consumers,    \* threads that call try_pop() and wait_pop()
  Cells,        \* capacity() == mask_ + 1, the number of slots of the ring
  Policy,       \* policy_: "DropNew" or "DropOldest"
  PopModes,     \* pops the clients use: "last" is try_pop(), "wait" is
                \* wait_pop(out), "wait_for" is wait_pop(out, timeout)
  MaxPush,      \* bound: calls of push() per producer
  MaxPop,       \* bound: calls of try_pop()/wait_pop() per consumer
  StopPermits,  \* permits stop() releases (numeric_limits<int>::max() / 4)
  None          \* an empty std::optional

ASSUME ThreadsAssumption == Producers \cap Consumers = {}
ASSUME CellsAssumption == Cells \in Nat \ {0}
ASSUME PolicyAssumption == Policy \in {"DropNew", "DropOldest"}
ASSUME PopModesAssumption == PopModes \subseteq {"last", "wait", "wait_for"}
ASSUME BoundsAssumption ==
  MaxPush \in Nat /\ MaxPop \in Nat /\ StopPermits \in Nat

VARIABLES
  seq,          \* ring_[i].sequence
  data,         \* ring_[i].data
  enqueue_pos,  \* enqueue_pos_
  dequeue_pos,  \* dequeue_pos_
  dropped,      \* dropped_
  stopped,      \* stopped_
  sem,          \* permits of sem_
  stopper,      \* progress of stop(): "ready", "release", "done"
  pc,           \* where each thread is; "idle" is outside the queue
  pos,          \* the local variable pos of push/evict_one/try_pop
  mode,         \* of a pop: "wait", "wait_for", or "last" when a failing
                \* try_pop makes the call return false
  calls,        \* calls each thread has begun
  claimed,      \* history: items by the position push() claimed for them
  removed       \* history: what was taken out of which position, by whom

cells == <<seq, data>>
control == <<dropped, stopped, sem, stopper>>
history == <<claimed, removed>>
vars == <<cells, enqueue_pos, dequeue_pos, control, pc, pos, mode, calls,
          history>>

Threads == Producers \cup Consumers

(* The item of a producer's current call. *)
Item(p) == <<p, calls[p]>>

(* pos & mask_ *)
Idx(n) == n % Cells

(* The three expressions the algorithm turns on: how far a cell is from being
   ready for the producer, or the consumer, at position n; and the sequence
   number that hands an emptied cell to the next round.  Before each come
   the slips a property has to notice. *)
PushDiffOffByOne(n) == seq[Idx(n)] - (n + 1)
PushDiff(n) == seq[Idx(n)] - n
FrontDiffOffByOne(n) == seq[Idx(n)] - n
FrontDiff(n) == seq[Idx(n)] - (n + 1)
NextRoundEarly(n) == n + Cells - 1
NextRoundLate(n) == n + Cells + 1
NextRound(n) == n + Cells

(* What compare_exchange_weak(pos, pos + 1) compares. *)
PlainStore(cursor, n) == TRUE
CasMatches(cursor, n) == cursor = n

(* The constructor's rounding of the requested capacity. *)
RoundUpPow2(cap) ==
  LET powers == {2^k : k \in 0..cap}
  IN  CHOOSE p \in powers :
        p >= cap /\ \A q \in powers : q >= cap => p <= q

Goto(t, from, to) == pc[t] = from /\ pc' = [pc EXCEPT ![t] = to]

Init ==
  /\ seq = [i \in 0..Cells-1 |-> i]
  /\ data = [i \in 0..Cells-1 |-> None]
  /\ enqueue_pos = 0 /\ dequeue_pos = 0
  /\ dropped = 0 /\ stopped = FALSE /\ sem = 0 /\ stopper = "ready"
  /\ pc = [t \in Threads |-> "idle"]
  /\ pos = [t \in Threads |-> 0]
  /\ mode = [c \in Consumers |-> "last"]
  /\ calls = [t \in Threads |-> 0]
  /\ claimed = <<>> /\ removed = {}

-----------------------------------------------------------------------------
(* push() *)

(* The call and its only look at stopped_; a stopped queue refuses. *)
PushCall(p) ==
  /\ calls[p] < MaxPush
  /\ calls' = [calls EXCEPT ![p] = @ + 1]
  /\ Goto(p, "idle", IF stopped THEN "idle" ELSE "enq_load")
  /\ UNCHANGED <<cells, enqueue_pos, dequeue_pos, control, pos, mode, history>>

PushLoadPos(p) ==
  /\ Goto(p, "enq_load", "enq_seq")
  /\ pos' = [pos EXCEPT ![p] = enqueue_pos]
  /\ UNCHANGED <<cells, enqueue_pos, dequeue_pos, control, mode, calls, history>>

(* Load the cell's sequence and branch on diff = seq - pos.  On a full ring
   DropNew counts the drop and returns false, DropOldest calls evict_one. *)
PushLoadSeq(p) ==
  LET diff == PushDiff(pos[p])
      full == diff < 0 /\ Policy = "DropNew"
  IN  /\ \/ diff = 0 /\ Goto(p, "enq_seq", "enq_cas")
         \/ diff > 0 /\ Goto(p, "enq_seq", "enq_load")
         \/ diff < 0 /\ full /\ Goto(p, "enq_seq", "idle")
         \/ diff < 0 /\ ~full /\ Goto(p, "enq_seq", "ev_load")
      /\ dropped' = IF full THEN dropped + 1 ELSE dropped
      /\ UNCHANGED <<cells, enqueue_pos, dequeue_pos, stopped, sem, stopper,
                     pos, mode, calls, history>>

(* The compare-exchange on enqueue_pos_: claim the position, or retry. *)
PushCas(p) ==
  /\ \/ /\ CasMatches(enqueue_pos, pos[p])
        /\ enqueue_pos' = pos[p] + 1
        /\ claimed' = Append(claimed, Item(p))
        /\ Goto(p, "enq_cas", "emplace")
     \/ /\ ~CasMatches(enqueue_pos, pos[p])
        /\ Goto(p, "enq_cas", "enq_load")
        /\ UNCHANGED <<enqueue_pos, claimed>>
  /\ UNCHANGED <<cells, dequeue_pos, control, pos, mode, calls, removed>>

PushEmplace(p) ==
  /\ Goto(p, "emplace", "publish")
  /\ data' = [data EXCEPT ![Idx(pos[p])] = Item(p)]
  /\ UNCHANGED <<seq, enqueue_pos, dequeue_pos, control, pos, mode, calls,
                 history>>

PushPublish(p) ==
  /\ Goto(p, "publish", "signal")
  /\ seq' = [seq EXCEPT ![Idx(pos[p])] = pos[p] + 1]
  /\ UNCHANGED <<data, enqueue_pos, dequeue_pos, control, pos, mode, calls,
                 history>>

(* sem_.release(), and return true; the slip forgets the permit. *)
PushNoSignal(p) ==
  /\ Goto(p, "signal", "idle")
  /\ UNCHANGED <<cells, enqueue_pos, dequeue_pos, control, pos, mode, calls,
                 history>>

PushSignal(p) ==
  /\ Goto(p, "signal", "idle")
  /\ sem' = sem + 1
  /\ UNCHANGED <<cells, enqueue_pos, dequeue_pos, dropped, stopped, stopper,
                 pos, mode, calls, history>>

-----------------------------------------------------------------------------
(* The removal of the front item: try_pop() by a consumer at "pop_*",
   evict_one() by a producer at "ev_*". *)

FrontLoadPos(t) ==
  /\ \/ Goto(t, "pop_load", "pop_seq")
     \/ Goto(t, "ev_load", "ev_seq")
  /\ pos' = [pos EXCEPT ![t] = dequeue_pos]
  /\ UNCHANGED <<cells, enqueue_pos, dequeue_pos, control, mode, calls, history>>

(* diff < 0 is an empty queue: evict_one returns and push retries; try_pop
   returns to its caller, or to wait_pop. *)
FrontLoadSeq(t) ==
  LET diff == FrontDiff(pos[t])
  IN  /\ \/ diff = 0 /\ Goto(t, "pop_seq", "pop_cas")
         \/ diff = 0 /\ Goto(t, "ev_seq", "ev_cas")
         \/ diff > 0 /\ Goto(t, "pop_seq", "pop_load")
         \/ diff > 0 /\ Goto(t, "ev_seq", "ev_load")
         \/ diff < 0 /\ Goto(t, "ev_seq", "enq_load")
         \/ diff < 0 /\ Goto(t, "pop_seq", IF mode[t] = "last" THEN "idle"
                                                          ELSE "check_stop")
      /\ UNCHANGED <<cells, enqueue_pos, dequeue_pos, control, pos, mode, calls,
                     history>>

(* The compare-exchange on dequeue_pos_. *)
FrontCas(t) ==
  /\ \/ /\ CasMatches(dequeue_pos, pos[t])
        /\ dequeue_pos' = pos[t] + 1
        /\ Goto(t, "pop_cas", "take") \/ Goto(t, "ev_cas", "take")
     \/ /\ ~CasMatches(dequeue_pos, pos[t])
        /\ Goto(t, "pop_cas", "pop_load") \/ Goto(t, "ev_cas", "ev_load")
        /\ UNCHANGED dequeue_pos
  /\ UNCHANGED <<cells, enqueue_pos, control, pos, mode, calls, history>>

(* Move the payload out (evict_one discards it) and reset the optional. *)
FrontTake(t) ==
  /\ Goto(t, "take", "free")
  /\ removed' = removed \cup
       {[pos |-> pos[t], item |-> data[Idx(pos[t])], by |-> t]}
  /\ data' = [data EXCEPT ![Idx(pos[t])] = None]
  /\ UNCHANGED <<seq, enqueue_pos, dequeue_pos, control, pos, mode, calls,
                 claimed>>

(* Hand the cell to the next round.  A pop returns true; an eviction is
   counted and push retries. *)
FrontFree(t) ==
  /\ Goto(t, "free", IF t \in Producers THEN "enq_load" ELSE "idle")
  /\ seq' = [seq EXCEPT ![Idx(pos[t])] = NextRound(pos[t])]
  /\ dropped' = IF t \in Producers THEN dropped + 1 ELSE dropped
  /\ UNCHANGED <<data, enqueue_pos, dequeue_pos, stopped, sem, stopper, pos,
                 mode, calls, history>>

(* compare_exchange_weak may fail although the value matches. *)
SpuriousCasFailure(t) ==
  /\ \/ Goto(t, "enq_cas", "enq_load")
     \/ Goto(t, "ev_cas", "ev_load")
     \/ Goto(t, "pop_cas", "pop_load")
  /\ UNCHANGED <<cells, enqueue_pos, dequeue_pos, control, pos, mode, calls,
                 history>>

-----------------------------------------------------------------------------
(* The consumer's calls, and the parking of wait_pop() on the semaphore *)

(* try_pop() is a pop whose first failure is the last, wait_pop(out) waits
   for ever and wait_pop(out, timeout) for a while. *)
PopCall(c) ==
  /\ calls[c] < MaxPop
  /\ calls' = [calls EXCEPT ![c] = @ + 1]
  /\ \E m \in PopModes : mode' = [mode EXCEPT ![c] = m]
  /\ Goto(c, "idle", "pop_load")
  /\ UNCHANGED <<cells, enqueue_pos, dequeue_pos, control, pos, history>>

(* The loop condition of both wait_pop(): once stopped, one last try. *)
WaitCheckStop(c) ==
  /\ Goto(c, "check_stop", IF stopped THEN "pop_load" ELSE "acquire")
  /\ mode' = [mode EXCEPT ![c] = IF stopped THEN "last" ELSE @]
  /\ UNCHANGED <<cells, enqueue_pos, dequeue_pos, control, pos, calls, history>>

WaitAcquire(c) ==
  /\ sem > 0
  /\ sem' = sem - 1
  /\ Goto(c, "acquire", "pop_load")
  /\ UNCHANGED <<cells, enqueue_pos, dequeue_pos, dropped, stopped, stopper,
                 pos, mode, calls, history>>

(* try_acquire_for() ran out of time: one last lock-free try. *)
WaitTimeout(c) ==
  /\ mode[c] = "wait_for"
  /\ mode' = [mode EXCEPT ![c] = "last"]
  /\ Goto(c, "acquire", "pop_load")
  /\ UNCHANGED <<cells, enqueue_pos, dequeue_pos, control, pos, calls, history>>

-----------------------------------------------------------------------------
(* stop(), called once by the owner: set the flag, then flood the semaphore;
   the slip only sets the flag. *)
StopFlagOnly ==
  /\ stopper = "ready" /\ stopper' = "done"
  /\ stopped' = TRUE
  /\ UNCHANGED <<cells, enqueue_pos, dequeue_pos, dropped, sem, pc, pos, mode,
                 calls, history>>

Stop ==
  /\ \/ /\ stopper = "ready" /\ stopper' = "release"
        /\ stopped' = TRUE /\ UNCHANGED sem
     \/ /\ stopper = "release" /\ stopper' = "done"
        /\ sem' = sem + StopPermits /\ UNCHANGED stopped
  /\ UNCHANGED <<cells, enqueue_pos, dequeue_pos, dropped, pc, pos, mode, calls,
                 history>>

-----------------------------------------------------------------------------
RemovalStep(t) ==
  FrontLoadPos(t) \/ FrontLoadSeq(t) \/ FrontCas(t) \/ FrontTake(t) \/ FrontFree(t)

ProducerStep(p) ==
  \/ PushLoadPos(p) \/ PushLoadSeq(p) \/ PushCas(p) \/ PushEmplace(p)
  \/ PushPublish(p) \/ PushSignal(p) \/ RemovalStep(p)

ConsumerStep(c) ==
  RemovalStep(c) \/ WaitCheckStop(c) \/ WaitAcquire(c) \/ WaitTimeout(c)

Next ==
  \/ \E p \in Producers : PushCall(p) \/ ProducerStep(p)
  \/ \E c \in Consumers : PopCall(c) \/ ConsumerStep(c)
  \/ \E t \in Threads : SpuriousCasFailure(t)
  \/ Stop

Spec == Init /\ [][Next]_vars

(* Every thread inside the queue is eventually scheduled, and a weak
   compare-exchange that keeps being tried does not fail spuriously for ever.
   Nobody has to call the queue or to stop it. *)
FairSpec ==
  /\ Spec
  /\ \A p \in Producers :
       WF_vars(ProducerStep(p)) /\ SF_vars(PushCas(p)) /\ SF_vars(FrontCas(p))
  /\ \A c \in Consumers : WF_vars(ConsumerStep(c)) /\ SF_vars(FrontCas(c))
  /\ WF_vars(stopped /\ Stop)

(* The same with consumers that may be descheduled at any point. *)
ProducersFairSpec ==
  /\ Spec
  /\ \A p \in Producers :
       WF_vars(ProducerStep(p)) /\ SF_vars(PushCas(p)) /\ SF_vars(FrontCas(p))

-----------------------------------------------------------------------------
(* Between its compare-exchange and its store of the cell's sequence a thread
   has the cell of its position to itself. *)
Producing(t) == pc[t] \in {"emplace", "publish"}
Removing(t) == pc[t] \in {"take", "free"}
Owns(t) == Producing(t) \/ Removing(t)

Items == Producers \X Nat
Slots == Items \cup {None}
Removals == [pos : Nat, item : Slots, by : Threads]
Locations ==
  {"idle", "enq_load", "enq_seq", "enq_cas", "emplace", "publish", "signal",
   "ev_load", "ev_seq", "ev_cas", "pop_load", "pop_seq", "pop_cas", "take",
   "free", "check_stop", "acquire"}

(* Cursors and sequence numbers stay natural numbers, every thread is at one of
   the locations of its calls, and cells hold items or nothing. *)
TypeOK ==
  /\ seq \in [0..Cells-1 -> Nat]
  /\ data \in [0..Cells-1 -> Slots]
  /\ enqueue_pos \in Nat /\ dequeue_pos \in Nat /\ dropped \in Nat
  /\ stopped \in BOOLEAN /\ sem \in Nat
  /\ stopper \in {"ready", "release", "done"}
  /\ pc \in [Threads -> Locations]
  /\ pos \in [Threads -> Nat]
  /\ mode \in [Consumers -> {"last", "wait", "wait_for"}]
  /\ calls \in [Threads -> Nat]
  /\ claimed \in Seq(Items)
  /\ removed \subseteq Removals

(* No data race on a payload: push(), try_pop() and evict_one() touch
   Cell::data, which is not atomic, only while no other thread does. *)
CellExclusive ==
  \A t, u \in Threads :
    t # u /\ Owns(t) /\ Owns(u) => Idx(pos[t]) # Idx(pos[u])

(* The cursors never part by more than the ring holds: push() claims a
   position only when the cell of the previous round has been emptied. *)
Bounded == dequeue_pos <= enqueue_pos /\ enqueue_pos - dequeue_pos <= Cells

(* Items leave in the order push() claimed positions for them, each once,
   whoever takes them: consumers through try_pop() or producers through
   evict_one(). *)
FifoOnce ==
  /\ \A r \in removed : r.pos < Len(claimed) /\ r.item = claimed[r.pos + 1]
  /\ \A r, s \in removed : r.pos = s.pos => r = s

(* An item push() has claimed a position for is in the hands of its producer,
   in its cell, or was removed: it is never overwritten. *)
NothingLost ==
  \A n \in 0..Len(claimed)-1 :
    \/ \E p \in Producers : pc[p] = "emplace" /\ pos[p] = n
    \/ data[Idx(n)] = claimed[n + 1]
    \/ \E r \in removed : r.pos = n

(* push() drops (DropNew) or starts evicting (DropOldest) only when the cell
   it needs still belongs to the previous round: the item is in the queue or
   somebody is in the middle of taking it out. *)
DropsOnlyWhenCellInUse ==
  [][\A p \in Producers :
       pc[p] = "enq_seq" /\ pc'[p] \in {"idle", "ev_load"} =>
         \/ dequeue_pos <= pos[p] - Cells
         \/ \E t \in Threads : Removing(t) /\ pos[t] = pos[p] - Cells]_vars

(* What a cell's sequence says about the position of the current round.  A
   position between the cursors is being filled (seq = n) or is ready
   (seq = n + 1); one after them is free (seq = n) or still being emptied for
   the round before. *)
CellsInv ==
  /\ dequeue_pos <= enqueue_pos /\ enqueue_pos <= dequeue_pos + Cells
  /\ \A n \in dequeue_pos..enqueue_pos-1 : seq[Idx(n)] \in {n, n + 1}
  /\ \A n \in enqueue_pos..dequeue_pos+Cells-1 :
       seq[Idx(n)] \in {n, n - Cells + 1}

(* The owners are where their position says, and a thread that is about to
   win its compare-exchange has seen the current sequence. *)
ThreadInv(t) ==
  /\ Producing(t) => /\ t \in Producers
                     /\ dequeue_pos <= pos[t] /\ pos[t] < enqueue_pos
                     /\ seq[Idx(pos[t])] = pos[t]
  /\ Removing(t) => /\ pos[t] < dequeue_pos
                    /\ enqueue_pos <= pos[t] + Cells
                    /\ seq[Idx(pos[t])] = pos[t] + 1
  /\ pc[t] \in {"enq_seq", "enq_cas"} => pos[t] <= enqueue_pos
  /\ pc[t] \in {"ev_seq", "ev_cas", "pop_seq", "pop_cas"} =>
       pos[t] <= dequeue_pos
  /\ pc[t] = "enq_cas" /\ pos[t] = enqueue_pos =>
       seq[Idx(pos[t])] = pos[t]
  /\ pc[t] \in {"ev_cas", "pop_cas"} /\ pos[t] = dequeue_pos =>
       seq[Idx(pos[t])] = pos[t] + 1

OnePerPosition ==
  \A t, u \in Threads :
    /\ t # u /\ Producing(t) /\ Producing(u) => pos[t] # pos[u]
    /\ t # u /\ Removing(t) /\ Removing(u) => pos[t] # pos[u]

(* The inductive invariant behind CellExclusive and Bounded: cells, threads
   and positions agree. *)
RingInv == CellsInv /\ (\A t \in Threads : ThreadInv(t)) /\ OnePerPosition

(* What the payloads are: a ready cell, and a cell about to be emptied, holds
   the item claimed for its position; a position that is not ready yet has a
   producer; one below dequeue_pos_ has been emptied once or is about to be. *)
ReadyCells ==
  \A n \in dequeue_pos..enqueue_pos-1 :
    \/ seq[Idx(n)] = n + 1 /\ data[Idx(n)] = claimed[n + 1]
    \/ \E p \in Producers : Producing(p) /\ pos[p] = n

PayloadInv(t) ==
  /\ pc[t] = "emplace" => Item(t) = claimed[pos[t] + 1]
  /\ pc[t] \in {"publish", "take"} => data[Idx(pos[t])] = claimed[pos[t] + 1]

RemovedInv ==
  /\ \A n \in 0..dequeue_pos-1 :
       \/ \E r \in removed : r.pos = n
       \/ \E t \in Threads : pc[t] = "take" /\ pos[t] = n
  /\ \A r \in removed :
       /\ r.pos \in 0..dequeue_pos-1
       /\ r.item = claimed[r.pos + 1]
       /\ \A t \in Threads : pc[t] = "take" => pos[t] # r.pos
  /\ \A r, s \in removed : r.pos = s.pos => r = s

(* With RingInv, the inductive invariant behind FifoOnce and NothingLost. *)
DataInv ==
  /\ Len(claimed) = enqueue_pos
  /\ ReadyCells
  /\ \A t \in Threads : PayloadInv(t)
  /\ RemovedInv

(* Both together, which is what the proofs carry from step to step. *)
RingDataInv == RingInv /\ DataInv

(* The ring is a bounded FIFO of as many items as it has cells.  The queue is what
   has been claimed and not yet been taken or evicted: an item enters when push()
   wins its compare-exchange, and the oldest leaves when try_pop() or evict_one()
   wins theirs; everything else a thread does leaves the queue as it is. *)
Ring == INSTANCE Fifo
          WITH q <- SubSeq(claimed, dequeue_pos + 1, enqueue_pos),
               Items <- Producers \X (1..MaxPush), Room <- Cells
ImplementsFifo == Ring!Spec

(* No consumer stays parked in wait_pop() on a semaphore without permits while
   an item is in the queue and no other thread is inside it. *)
NoStrandedItem ==
  /\ \A t \in Threads : pc[t] \in {"idle", "acquire"}
  /\ \E c \in Consumers : pc[c] = "acquire"
  /\ sem = 0
  => enqueue_pos = dequeue_pos

(* push() drops only when the queue is full: what the policy is for.  The code
   keeps to DropsOnlyWhenCellInUse, not to this (README, "Where comments and
   code part"). *)
DropsOnlyWhenFull ==
  [][\A p \in Producers :
       pc[p] = "enq_seq" /\ pc'[p] \in {"idle", "ev_load"} =>
         enqueue_pos - dequeue_pos >= Cells]_vars

(* stop() gets every consumer out of try_pop() and wait_pop(), and push()
   returns whatever it has to evict. *)
RingCallsReturn ==
  /\ \A c \in Consumers : stopped /\ pc[c] # "idle" ~> pc[c] = "idle"
  /\ \A p \in Producers : pc[p] # "idle" ~> pc[p] = "idle"

=============================================================================
