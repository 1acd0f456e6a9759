-------------------------- MODULE RingQueueProofs --------------------------
(***************************************************************************)
(* Types, exclusive cells and bounded cursors of the ring, for any number  *)
(* of threads, cells and calls; that it is a FIFO queue that neither loses *)
(* nor repeats an item, and implements the bounded FIFO of module Fifo;    *)
(* that it refuses or evicts only when it has to; and that a single        *)
(* consumer is never left waiting for an item that is there.  RingInv      *)
(* carries the first argument; DataInv, EmptiedInv and ParkedInv, each     *)
(* inductive on top of those before, the others.                           *)
(***************************************************************************)
EXTENDS RingQueue, TLAPS

(* Division with remainder by the number of cells. *)
LEMMA DivMod ==
  ASSUME NEW n \in Nat
  PROVE  /\ n \div Cells \in Nat
         /\ Idx(n) \in 0..Cells-1
         /\ n = Cells * (n \div Cells) + Idx(n)
BY CellsAssumption DEF Idx

(* Every position has a cell. *)
LEMMA IdxType ==
  ASSUME NEW n \in Nat
  PROVE  Idx(n) \in 0..Cells-1
BY Zenon, DivMod

(* A round later is at least Cells positions later. *)
LEMMA Times ==
  ASSUME NEW a \in Nat, NEW b \in Nat, a < b
  PROVE  Cells * a + Cells <= Cells * b
<1>1. Cells * (b - a - 1) >= 0
  BY CellsAssumption
<1>2. QED BY <1>1, CellsAssumption

(* The cell of a position is its remainder, however it is written. *)
LEMMA IdxUnique ==
  ASSUME NEW q \in Nat, NEW r \in 0..Cells-1
  PROVE  Idx(Cells * q + r) = r
<1> DEFINE n == Cells * q + r
           d == n \div Cells
<1>1. n \in Nat
  BY CellsAssumption
<1> HIDE DEF n
<1>2. d \in Nat /\ Idx(n) \in 0..Cells-1 /\ n = Cells * d + Idx(n)
  BY Zenon, <1>1, DivMod
<1> HIDE DEF d
<1>3. n = Cells * q + r
  BY Zenon DEF n
<1>4. ~(q < d)
  BY <1>2, <1>3, Times, CellsAssumption
<1>5. ~(d < q)
  BY <1>2, <1>3, Times, CellsAssumption
<1>6. q = d
  BY <1>2, <1>4, <1>5
<1>7. Idx(n) = r
  BY <1>2, <1>3, <1>6, CellsAssumption
<1>8. QED BY Zenon, <1>7 DEF n

(* Two positions with the same cell are at least one round apart. *)
LEMMA IdxApart ==
  ASSUME NEW m \in Nat, NEW n \in Nat, m < n, Idx(m) = Idx(n)
  PROVE  m + Cells <= n
<1> DEFINE a == m \div Cells
           b == n \div Cells
<1>1. a \in Nat /\ Idx(m) \in 0..Cells-1 /\ m = Cells * a + Idx(m)
  BY Zenon, DivMod
<1>2. b \in Nat /\ n = Cells * b + Idx(m)
  BY Zenon, DivMod
<1> HIDE DEF a, b
<1>3. ~(b < a)
  BY <1>1, <1>2, Times, CellsAssumption
<1>4. a # b
  BY <1>1, <1>2
<1>5. Cells * a + Cells <= Cells * b
  BY <1>1, <1>2, <1>3, <1>4, Times
<1>6. QED BY <1>1, <1>2, <1>5, CellsAssumption

(* The position one round later has the same cell. *)
LEMMA IdxShift ==
  ASSUME NEW n \in Nat
  PROVE  Idx(n + Cells) = Idx(n)
<1> DEFINE q == n \div Cells
<1>1. q \in Nat /\ Idx(n) \in 0..Cells-1 /\ n = Cells * q + Idx(n)
  BY Zenon, DivMod
<1> HIDE DEF q
<1>2. Cells * (q + 1) + Idx(n) = n + Cells
  BY <1>1, CellsAssumption
<1>3. QED BY <1>1, <1>2, IdxUnique

(* The positions of the first round are the cells themselves. *)
LEMMA IdxSmall ==
  ASSUME NEW n \in 0..Cells-1
  PROVE  Idx(n) = n
BY SMTT(30), CellsAssumption DEF Idx

-----------------------------------------------------------------------------
(* Every step of push(), evict_one(), try_pop(), wait_pop() and stop() keeps the
   types. *)
LEMMA TypeStep == TypeOK /\ [Next]_vars => TypeOK'
<1> SUFFICES ASSUME TypeOK, [Next]_vars PROVE TypeOK'
  OBVIOUS
<1> USE CellsAssumption, BoundsAssumption, PopModesAssumption
    DEF TypeOK, cells, control, history
<1>0. /\ \A p \in Producers : p \in Threads
      /\ \A c \in Consumers : c \in Threads
      /\ \A p \in Producers : Item(p) \in Items /\ Item(p) \in Slots
  BY Zenon DEF Threads, Item, Items, Slots
<1>1. ASSUME NEW p \in Producers, PushCall(p) PROVE TypeOK'
  BY SMTT(30), <1>0, <1>1 DEF PushCall, Goto, Locations
<1>2. ASSUME NEW p \in Producers, PushLoadPos(p) PROVE TypeOK'
  BY SMTT(30), <1>0, <1>2 DEF PushLoadPos, Goto, Locations
<1>3. ASSUME NEW p \in Producers, PushLoadSeq(p) PROVE TypeOK'
  <2>1. dropped' \in Nat /\ pos[p] \in Nat
    BY <1>0, <1>3 DEF PushLoadSeq
  <2>2. pc' \in [Threads -> Locations]
    BY ZenonT(30), <1>3 DEF PushLoadSeq, Goto, Locations
  <2>3. QED BY SMTT(30), <1>3, <2>1, <2>2 DEF PushLoadSeq
<1>4. ASSUME NEW p \in Producers, PushCas(p) PROVE TypeOK'
  <2>1. enqueue_pos' \in Nat
    BY <1>0, <1>4 DEF PushCas
  <2>2. claimed' \in Seq(Items)
    <3>1. Append(claimed, Item(p)) \in Seq(Items)
      BY <1>0
    <3>2. QED BY ZenonT(30), <1>4, <3>1 DEF PushCas
  <2>3. pc' \in [Threads -> Locations]
    BY ZenonT(30), <1>4 DEF PushCas, Goto, Locations
  <2>4. QED BY SMTT(30), <1>4, <2>1, <2>2, <2>3 DEF PushCas
<1>5. ASSUME NEW p \in Producers, PushEmplace(p) PROVE TypeOK'
  BY ZenonT(30), <1>0, <1>5 DEF PushEmplace, Goto, Locations
<1>6. ASSUME NEW p \in Producers, PushPublish(p) PROVE TypeOK'
  <2>1. pos[p] + 1 \in Nat
    BY <1>0
  <2>2. seq' \in [0..Cells-1 -> Nat]
    BY ZenonT(30), <1>6, <2>1 DEF PushPublish
  <2>3. QED BY ZenonT(30), <1>6, <2>2 DEF PushPublish, Goto, Locations
<1>7. ASSUME NEW p \in Producers, PushSignal(p) PROVE TypeOK'
  BY SMTT(30), <1>0, <1>7 DEF PushSignal, Goto, Locations
<1>8. ASSUME NEW t \in Threads, RemovalStep(t) PROVE TypeOK'
  <2>1. CASE FrontLoadPos(t)
    BY ZenonT(30), <1>0, <2>1 DEF FrontLoadPos, Goto, Locations
  <2>2. CASE FrontLoadSeq(t)
    BY ZenonT(30), <1>0, <2>2 DEF FrontLoadSeq, Goto, Locations
  <2>3. CASE FrontCas(t)
    <3>1. dequeue_pos' \in Nat
      BY <2>3 DEF FrontCas
    <3>2. pc' \in [Threads -> Locations]
      BY ZenonT(30), <2>3 DEF FrontCas, Goto, Locations
    <3>3. QED BY SMTT(30), <2>3, <3>1, <3>2 DEF FrontCas
  <2>4. CASE FrontTake(t)
    <3>1. None \in Slots /\ data[Idx(pos[t])] \in Slots
      BY ZenonT(30), IdxType DEF Slots
    <3>2. [pos |-> pos[t], item |-> data[Idx(pos[t])], by |-> t] \in Removals
      BY Zenon, <3>1 DEF Removals
    <3>3. QED BY ZenonT(30), <2>4, <3>1, <3>2 DEF FrontTake, Goto, Locations
  <2>5. CASE FrontFree(t)
    <3>1. NextRound(pos[t]) \in Nat /\ dropped' \in Nat
      BY SMTT(30), <2>5 DEF FrontFree, NextRound
    <3>2. seq' \in [0..Cells-1 -> Nat]
      BY ZenonT(30), <2>5, <3>1 DEF FrontFree
    <3>3. pc' \in [Threads -> Locations]
      BY Zenon, <2>5 DEF FrontFree, Goto, Locations
    <3>4. QED BY SMTT(30), <2>5, <3>1, <3>2, <3>3 DEF FrontFree
  <2>6. QED BY ZenonT(30), <1>8, <2>1, <2>2, <2>3, <2>4, <2>5 DEF RemovalStep
<1>9. ASSUME NEW c \in Consumers, PopCall(c) PROVE TypeOK'
  BY SMTT(30), <1>0, <1>9 DEF PopCall, Goto, Locations
<1>10. ASSUME NEW c \in Consumers, WaitCheckStop(c) PROVE TypeOK'
  BY SMTT(30), <1>0, <1>10 DEF WaitCheckStop, Goto, Locations
<1>11. ASSUME NEW c \in Consumers, WaitAcquire(c) PROVE TypeOK'
  BY SMTT(30), <1>0, <1>11 DEF WaitAcquire, Goto, Locations
<1>12. ASSUME NEW c \in Consumers, WaitTimeout(c) PROVE TypeOK'
  BY SMTT(30), <1>0, <1>12 DEF WaitTimeout, Goto, Locations
<1>13. ASSUME NEW t \in Threads, SpuriousCasFailure(t) PROVE TypeOK'
  BY ZenonT(30), <1>13 DEF SpuriousCasFailure, Goto, Locations
<1>14. CASE Stop
  <2>1. sem' \in Nat
    BY <1>14 DEF Stop
  <2>2. QED BY ZenonT(30), <1>14, <2>1 DEF Stop
<1>15. CASE UNCHANGED vars
  BY Zenon, <1>15 DEF vars
<1>16. QED
  BY ZenonT(30), <1>0, <1>1, <1>2, <1>3, <1>4, <1>5, <1>6, <1>7, <1>8, <1>9, <1>10, <1>11,
     <1>12, <1>13, <1>14, <1>15 DEF Next, ProducerStep, ConsumerStep

(* The constructor establishes the types. *)
LEMMA TypeInit == Init => TypeOK
<1> SUFFICES ASSUME Init PROVE TypeOK
  OBVIOUS
<1>1. seq \in [0..Cells-1 -> Nat]
  BY CellsAssumption DEF Init
<1>2. data \in [0..Cells-1 -> Slots]
  BY Zenon DEF Init, Slots
<1>3. pc \in [Threads -> Locations]
  BY Zenon DEF Init, Locations
<1>4. claimed \in Seq(Items) /\ removed \subseteq Removals
  BY DEF Init
<1>5. QED BY ZenonT(30), <1>1, <1>2, <1>3, <1>4 DEF Init, TypeOK

(* Every variable of the ring keeps its type, whatever the capacity. *)
THEOREM TypeCorrect == Spec => []TypeOK
BY TypeInit, TypeStep, PTL DEF Spec

-----------------------------------------------------------------------------
(* A step that leaves the cells and the cursors alone and gives no thread a
   cell: only the invariant of the thread that moves is to be checked. *)
LEMMA QuietStep ==
  ASSUME TypeOK, RingInv, NEW t \in Threads,
         UNCHANGED <<seq, enqueue_pos, dequeue_pos>>,
         \A u \in Threads : u # t => pc'[u] = pc[u] /\ pos'[u] = pos[u],
         Producing(t)' => Producing(t) /\ pos'[t] = pos[t],
         Removing(t)' => Removing(t) /\ pos'[t] = pos[t],
         ThreadInv(t)'
  PROVE  RingInv'
<1>1. CellsInv'
  BY Zenon DEF RingInv, CellsInv, Idx
<1>2. \A u \in Threads : ThreadInv(u)'
  <2> TAKE u \in Threads
  <2>1. CASE u = t
    BY Zenon, <2>1
  <2>2. CASE u # t
    BY <2>2 DEF RingInv, ThreadInv, Producing, Removing, Idx
  <2>3. QED BY Zenon, <2>1, <2>2
<1>3. OnePerPosition'
  BY DEF RingInv, OnePerPosition, Producing, Removing
<1>4. QED BY Zenon, <1>1, <1>2, <1>3 DEF RingInv

(* A won compare-exchange on enqueue_pos_.  The position is inside the ring
   because its cell would otherwise carry the sequence of an unread item, or
   of one being taken out: this is where two cells are needed. *)
LEMMA ClaimStep ==
  ASSUME Cells >= 2, TypeOK, RingInv, NEW p \in Producers,
         PushCas(p), enqueue_pos = pos[p], pc'[p] = "emplace"
  PROVE  RingInv'
<1> DEFINE e == enqueue_pos
           d == dequeue_pos
<1>0. /\ p \in Threads /\ Cells \in Nat /\ e \in Nat /\ d \in Nat
      /\ pos \in [Threads -> Nat] /\ pc \in [Threads -> Locations]
  BY Zenon, CellsAssumption DEF Threads, TypeOK
<1>1. /\ pc[p] = "enq_cas" /\ pos[p] = e
      /\ pc' = [pc EXCEPT ![p] = "emplace"] /\ enqueue_pos' = e + 1
      /\ UNCHANGED <<seq, dequeue_pos, pos>>
  BY Zenon, <1>0 DEF PushCas, Goto, CasMatches, cells
<1>2. /\ CellsInv /\ OnePerPosition /\ \A u \in Threads : ThreadInv(u)
      /\ seq[Idx(e)] = e
  BY Zenon, <1>0, <1>1 DEF RingInv, ThreadInv
<1>3. ASSUME NEW n \in Nat, seq[Idx(n)] \in {n, n + 1} PROVE e # n + Cells
  <2>1. Idx(n + Cells) = Idx(n)
    BY Zenon, IdxShift
  <2>2. QED BY <1>0, <1>2, <1>3, <2>1
<1>4. e < d + Cells
  <2>1. ASSUME e = d + Cells PROVE FALSE
    <3>1. d \in d..e-1
      BY <1>0, <2>1
    <3>2. seq[Idx(d)] \in {d, d + 1}
      BY Zenon, <1>2, <3>1 DEF CellsInv
    <3>3. QED BY Zenon, <1>0, <1>3, <2>1, <3>2
  <2>2. QED BY <1>0, <1>2, <2>1 DEF CellsInv
<1>5. CellsInv'
  BY <1>0, <1>1, <1>2, <1>4 DEF CellsInv
<1>6. ASSUME NEW u \in Threads PROVE ThreadInv(u)'
  <2>1. CASE u = p
    BY <1>0, <1>1, <1>2, <2>1 DEF ThreadInv, Producing, Removing, CellsInv
  <2>2. CASE u # p
    <3>1. pc'[u] = pc[u] /\ pos'[u] = pos[u] /\ pos[u] \in Nat
      BY SMTT(30), <1>0, <1>1, <2>2
    <3>2. Removing(u) => e # pos[u] + Cells
      BY Zenon, <1>2, <1>3, <3>1 DEF ThreadInv
    <3>3. QED BY <1>0, <1>1, <1>2, <3>1, <3>2 DEF ThreadInv, Producing, Removing
  <2>3. QED BY Zenon, <2>1, <2>2
<1>7. OnePerPosition'
  <2>1. \A u \in Threads : Producing(u) => pos[u] < e
    BY Zenon, <1>2 DEF ThreadInv
  <2>2. \A u \in Threads :
          /\ Producing(u)' <=> Producing(u) \/ u = p
          /\ Removing(u)' <=> Removing(u) /\ u # p
          /\ pos'[u] = pos[u]
    BY Zenon, <1>0, <1>1 DEF Producing, Removing
  <2>3. QED BY <1>0, <1>1, <1>2, <2>1, <2>2 DEF OnePerPosition
<1>8. QED BY Zenon, <1>5, <1>6, <1>7 DEF RingInv

(* A won compare-exchange on dequeue_pos_: the front cell is ready, so the
   queue is not empty and no producer is filling the position. *)
LEMMA TakeFrontStep ==
  ASSUME TypeOK, RingInv, NEW t \in Threads,
         FrontCas(t), dequeue_pos = pos[t], pc'[t] = "take"
  PROVE  RingInv'
<1> DEFINE e == enqueue_pos
           d == dequeue_pos
<1>0. /\ Cells \in Nat /\ Cells > 0 /\ e \in Nat /\ d \in Nat
      /\ pos \in [Threads -> Nat] /\ pc \in [Threads -> Locations]
  BY CellsAssumption DEF TypeOK
<1>1. /\ pc[t] \in {"pop_cas", "ev_cas"} /\ pos[t] = d
      /\ pc' = [pc EXCEPT ![t] = "take"] /\ dequeue_pos' = d + 1
      /\ UNCHANGED <<seq, enqueue_pos, pos>>
  BY Zenon, <1>0 DEF FrontCas, Goto, CasMatches, cells
<1>2. /\ CellsInv /\ OnePerPosition /\ \A u \in Threads : ThreadInv(u)
      /\ seq[Idx(d)] = d + 1 /\ Idx(d + Cells) = Idx(d)
  BY Zenon, <1>0, <1>1, IdxShift DEF RingInv, ThreadInv
<1>3. d < e
  <2>1. ASSUME d = e PROVE FALSE
    <3>1. d \in e..d+Cells-1
      BY <1>0, <2>1
    <3>2. seq[Idx(d)] \in {d, d - Cells + 1}
      BY Zenon, <1>2, <3>1 DEF CellsInv
    <3>3. QED BY <1>0, <1>2, <3>2
  <2>2. QED BY <1>0, <1>2, <2>1 DEF CellsInv
<1>4. CellsInv'
  <2>1. \A n \in e..d+Cells : n = d + Cells \/ n \in e..d+Cells-1
    BY <1>0
  <2>2. seq[Idx(d + Cells)] = (d + Cells) - Cells + 1
    BY <1>0, <1>2
  <2>3. \A n \in e..d+Cells : seq[Idx(n)] \in {n, n - Cells + 1}
    BY Zenon, <1>2, <2>1, <2>2 DEF CellsInv
  <2>4. QED BY <1>0, <1>1, <1>2, <1>3, <2>3 DEF CellsInv
<1>5. ASSUME NEW u \in Threads PROVE ThreadInv(u)'
  <2>1. CASE u = t
    BY SMTT(30), <1>0, <1>1, <1>2, <1>3, <2>1 DEF ThreadInv, Producing, Removing, CellsInv
  <2>2. CASE u # t
    <3>1. pc'[u] = pc[u] /\ pos'[u] = pos[u] /\ pos[u] \in Nat
      BY Zenon, <1>0, <1>1, <2>2
    <3>2. Producing(u) => pos[u] # d
      BY <1>0, <1>2, <3>1 DEF ThreadInv
    <3>3. QED BY <1>0, <1>1, <1>2, <3>1, <3>2 DEF ThreadInv, Producing, Removing
  <2>3. QED BY SMTT(30), <2>1, <2>2
<1>6. OnePerPosition'
  <2>1. \A u \in Threads : Removing(u) => pos[u] < d
    BY Zenon, <1>2 DEF ThreadInv
  <2>2. \A u \in Threads :
          /\ Removing(u)' <=> Removing(u) \/ u = t
          /\ Producing(u)' <=> Producing(u) /\ u # t
          /\ pos'[u] = pos[u]
    BY Zenon, <1>0, <1>1 DEF Producing, Removing
  <2>3. QED BY SMTT(30), <1>0, <1>1, <1>2, <2>1, <2>2 DEF OnePerPosition
<1>7. QED BY Zenon, <1>4, <1>5, <1>6 DEF RingInv

(* push()'s store of the cell's sequence: the positions within a round of n0,
   the producer's own, are served by other cells and keep their sequences. *)
LEMMA PublishStep ==
  ASSUME Cells >= 2, TypeOK, RingInv, NEW p \in Producers, PushPublish(p)
  PROVE  RingInv'
<1> DEFINE e == enqueue_pos
           d == dequeue_pos
           n0 == pos[p]
<1>0. /\ p \in Threads /\ Cells \in Nat /\ e \in Nat /\ d \in Nat /\ n0 \in Nat
      /\ pos \in [Threads -> Nat] /\ pc \in [Threads -> Locations]
      /\ seq \in [0..Cells-1 -> Nat] /\ Idx(n0) \in 0..Cells-1
  BY ZenonT(30), CellsAssumption, IdxType DEF Threads, TypeOK
<1>1. /\ pc[p] = "publish" /\ pc' = [pc EXCEPT ![p] = "signal"]
      /\ seq' = [seq EXCEPT ![Idx(n0)] = n0 + 1]
      /\ UNCHANGED <<enqueue_pos, dequeue_pos, pos>>
  BY SMTT(30) DEF PushPublish, Goto
<1>2. /\ CellsInv /\ OnePerPosition /\ \A u \in Threads : ThreadInv(u)
      /\ d <= n0 /\ n0 < e /\ e <= d + Cells /\ seq[Idx(n0)] = n0
  BY Zenon, <1>0, <1>1 DEF RingInv, ThreadInv, Producing, CellsInv
<1> HIDE DEF n0
<1>3. ASSUME NEW n \in Nat, n # n0, n < n0 + Cells, n0 < n + Cells
      PROVE  seq'[Idx(n)] = seq[Idx(n)]
  <2>1. Idx(n) # Idx(n0)
    BY <1>0, <1>3, IdxApart
  <2>2. Idx(n) \in 0..Cells-1
    BY Zenon, IdxType
  <2>3. QED BY Zenon, <1>0, <1>1, <2>1, <2>2
<1>4. seq'[Idx(n0)] = n0 + 1
  BY Zenon, <1>0, <1>1
<1>5. CellsInv'
  <2>1. ASSUME NEW n \in d..e-1 PROVE seq'[Idx(n)] \in {n, n + 1}
    <3>1. CASE n = n0
      BY Zenon, <1>4, <3>1
    <3>2. CASE n # n0
      <4>1. n \in Nat /\ n < n0 + Cells /\ n0 < n + Cells
        BY <1>0, <1>2
      <4>2. seq'[Idx(n)] = seq[Idx(n)]
        BY Zenon, <1>3, <3>2, <4>1
      <4>3. QED BY Zenon, <1>2, <4>2 DEF CellsInv
    <3>3. QED BY Zenon, <3>1, <3>2
  <2>2. ASSUME NEW n \in e..d+Cells-1 PROVE seq'[Idx(n)] \in {n, n - Cells + 1}
    BY SMTT(30), <1>0, <1>2, <1>3 DEF CellsInv
  <2>3. QED BY Zenon, <1>1, <1>2, <2>1, <2>2 DEF CellsInv
<1>6. ASSUME NEW u \in Threads PROVE ThreadInv(u)'
  <2>1. CASE u = p
    BY Zenon, <1>0, <1>1, <2>1 DEF ThreadInv, Producing, Removing
  <2>2. CASE u # p
    <3>1. pc'[u] = pc[u] /\ pos'[u] = pos[u] /\ pos[u] \in Nat /\ ThreadInv(u)
      BY Zenon, <1>0, <1>1, <1>2, <2>2
    <3>2. Producing(u) => seq'[Idx(pos[u])] = seq[Idx(pos[u])]
      <4>1. Producing(u) => pos[u] # n0
        BY Zenon, <1>0, <1>1, <1>2, <2>2 DEF OnePerPosition, Producing, n0
      <4>2. QED BY SMTT(30), <1>0, <1>2, <1>3, <3>1, <4>1 DEF ThreadInv
    <3>3. Removing(u) => seq'[Idx(pos[u])] = seq[Idx(pos[u])]
      BY SMTT(30), <1>0, <1>2, <1>3, <3>1 DEF ThreadInv
    <3>4. pc[u] = "enq_cas" /\ pos[u] = e =>
            seq'[Idx(pos[u])] = seq[Idx(pos[u])]
      <4>1. SUFFICES ASSUME pc[u] = "enq_cas", pos[u] = e
                     PROVE  seq'[Idx(e)] = seq[Idx(e)]
        OBVIOUS
      <4>2. seq[Idx(e)] = e
        BY Zenon, <3>1, <4>1 DEF ThreadInv
      <4>3. Idx(e) # Idx(n0)
        BY <1>0, <1>2, <4>2
      <4>4. Idx(e) \in 0..Cells-1
        BY ZenonT(30), <1>0, IdxType
      <4>5. QED BY Zenon, <1>0, <1>1, <4>3, <4>4
    <3>5. pc[u] \in {"ev_cas", "pop_cas"} /\ pos[u] = d =>
            seq'[Idx(pos[u])] = seq[Idx(pos[u])]
      <4>1. SUFFICES ASSUME pc[u] \in {"ev_cas", "pop_cas"}, pos[u] = d
                     PROVE  seq'[Idx(d)] = seq[Idx(d)]
        OBVIOUS
      <4>2. seq[Idx(d)] = d + 1
        BY Zenon, <3>1, <4>1 DEF ThreadInv
      <4>3. d # n0
        BY <1>0, <1>2, <4>2
      <4>4. QED BY <1>0, <1>2, <1>3, <4>3
    <3>6. QED BY SMTT(30), <1>0, <1>1, <3>1, <3>2, <3>3, <3>4, <3>5
              DEF ThreadInv, Producing, Removing
  <2>3. QED BY Zenon, <2>1, <2>2
<1>7. OnePerPosition'
  BY Zenon, <1>0, <1>1, <1>2 DEF OnePerPosition, Producing, Removing
<1>8. QED BY Zenon, <1>5, <1>6, <1>7 DEF RingInv

(* The store that ends try_pop() and evict_one(): the cell now serves the
   position one round later. *)
LEMMA FreeStep ==
  ASSUME Cells >= 2, TypeOK, RingInv, NEW t \in Threads, FrontFree(t)
  PROVE  RingInv'
<1> DEFINE e == enqueue_pos
           d == dequeue_pos
           n0 == pos[t]
<1>0. /\ Cells \in Nat /\ e \in Nat /\ d \in Nat /\ n0 \in Nat
      /\ pos \in [Threads -> Nat] /\ pc \in [Threads -> Locations]
      /\ seq \in [0..Cells-1 -> Nat] /\ Idx(n0) \in 0..Cells-1
  BY ZenonT(30), CellsAssumption, IdxType DEF TypeOK
<1>1. /\ pc[t] = "free" /\ pc'[t] \in {"enq_load", "idle"}
      /\ \A u \in Threads : u # t => pc'[u] = pc[u]
      /\ seq' = [seq EXCEPT ![Idx(n0)] = n0 + Cells]
      /\ UNCHANGED <<enqueue_pos, dequeue_pos, pos>>
  BY SMTT(30), <1>0 DEF FrontFree, Goto, NextRound
<1>2. /\ CellsInv /\ OnePerPosition /\ \A u \in Threads : ThreadInv(u)
      /\ n0 < d /\ d <= e /\ e <= n0 + Cells /\ seq[Idx(n0)] = n0 + 1
  BY Zenon, <1>0, <1>1 DEF RingInv, ThreadInv, Removing, CellsInv
<1> HIDE DEF n0
<1>3. ASSUME NEW n \in Nat, Idx(n) # Idx(n0)
      PROVE  seq'[Idx(n)] = seq[Idx(n)]
  BY Zenon, <1>0, <1>1, <1>3, IdxType
<1>4. ASSUME NEW n \in Nat, n # n0, n < n0 + Cells, n0 < n + Cells
      PROVE  seq'[Idx(n)] = seq[Idx(n)]
  BY SMTT(30), <1>0, <1>3, <1>4, IdxApart
<1>5. CellsInv'
  <2>1. ASSUME NEW n \in d..e-1 PROVE seq'[Idx(n)] \in {n, n + 1}
    BY <1>0, <1>2, <1>4 DEF CellsInv
  <2>2. ASSUME NEW n \in e..d+Cells-1 PROVE seq'[Idx(n)] \in {n, n - Cells + 1}
    <3>1. CASE n = n0 + Cells
      BY Zenon, <1>0, <1>1, <3>1, IdxShift
    <3>2. CASE n # n0 + Cells
      <4>1. Idx(n) # Idx(n0)
        <5>1. n < n0 + Cells => Idx(n) # Idx(n0)
          BY <1>0, <1>2, IdxApart
        <5>2. n > n0 + Cells => Idx(n) # Idx(n0 + Cells)
          BY <1>0, <1>2, IdxApart
        <5>3. QED BY <1>0, <3>2, <5>1, <5>2, IdxShift
      <4>2. QED BY SMTT(30), <1>0, <1>2, <1>3, <4>1 DEF CellsInv
    <3>3. QED BY Zenon, <3>1, <3>2
  <2>3. QED BY ZenonT(30), <1>1, <1>2, <2>1, <2>2 DEF CellsInv
<1>6. ASSUME NEW u \in Threads PROVE ThreadInv(u)'
  <2>1. CASE u = t
    BY SMTT(30), <1>0, <1>1, <2>1 DEF ThreadInv, Producing, Removing
  <2>2. CASE u # t
    <3>1. pc'[u] = pc[u] /\ pos'[u] = pos[u] /\ pos[u] \in Nat /\ ThreadInv(u)
      BY Zenon, <1>0, <1>1, <1>2, <2>2
    <3>2. Producing(u) => seq'[Idx(pos[u])] = seq[Idx(pos[u])]
      BY SMTT(30), <1>0, <1>2, <1>4, <3>1 DEF ThreadInv
    <3>3. Removing(u) => seq'[Idx(pos[u])] = seq[Idx(pos[u])]
      <4>1. Removing(u) => pos[u] # n0
        BY SMTT(30), <1>0, <1>1, <1>2, <2>2 DEF OnePerPosition, Removing, n0
      <4>2. Removing(u) => pos[u] < n0 + Cells /\ n0 < pos[u] + Cells
        BY SMTT(30), <1>0, <1>2, <3>1 DEF ThreadInv
      <4>3. QED BY SMTT(30), <1>4, <3>1, <4>1, <4>2
    <3>4. pc[u] = "enq_cas" /\ pos[u] = e =>
            seq'[Idx(pos[u])] = seq[Idx(pos[u])]
      <4>1. SUFFICES ASSUME pc[u] = "enq_cas", pos[u] = e
                     PROVE  seq'[Idx(e)] = seq[Idx(e)]
        OBVIOUS
      <4>2. seq[Idx(e)] = e
        BY Zenon, <3>1, <4>1 DEF ThreadInv
      <4>3. Idx(e) # Idx(n0)
        <5>1. ASSUME Idx(e) = Idx(n0) PROVE FALSE
          <6>1. n0 + Cells <= e
            BY <1>0, <1>2, <5>1, IdxApart
          <6>2. QED BY <1>0, <1>2, <4>2, <5>1, <6>1
        <5>2. QED BY Zenon, <5>1
      <4>4. QED BY Zenon, <1>0, <1>3, <4>3
    <3>5. pc[u] \in {"ev_cas", "pop_cas"} /\ pos[u] = d =>
            seq'[Idx(pos[u])] = seq[Idx(pos[u])]
      <4>1. SUFFICES ASSUME pc[u] \in {"ev_cas", "pop_cas"}, pos[u] = d
                     PROVE  seq'[Idx(d)] = seq[Idx(d)]
        OBVIOUS
      <4>2. seq[Idx(d)] = d + 1
        BY SMTT(30), <3>1, <4>1 DEF ThreadInv
      <4>3. Idx(d) # Idx(n0)
        BY <1>0, <1>2, <4>2
      <4>4. QED BY Zenon, <1>0, <1>3, <4>3
    <3>6. QED BY SMTT(30), <1>0, <1>1, <3>1, <3>2, <3>3, <3>4, <3>5
              DEF ThreadInv, Producing, Removing
  <2>3. QED BY Zenon, <2>1, <2>2
<1>7. OnePerPosition'
  BY SMTT(30), <1>0, <1>1, <1>2 DEF OnePerPosition, Producing, Removing
<1>8. QED BY Zenon, <1>5, <1>6, <1>7 DEF RingInv

(* RingInv is inductive. *)
LEMMA RingStep ==
  ASSUME Cells >= 2, TypeOK, RingInv, [Next]_vars
  PROVE  RingInv'
<1> USE DEF cells, control, history
<1>0. /\ Cells \in Nat /\ enqueue_pos \in Nat /\ dequeue_pos \in Nat
      /\ pos \in [Threads -> Nat] /\ pc \in [Threads -> Locations]
      /\ \A n \in Nat : Idx(n) \in 0..Cells-1
      /\ seq \in [0..Cells-1 -> Nat]
      /\ \A u \in Threads : ThreadInv(u) /\ pos[u] \in Nat
      /\ Producers \subseteq Threads /\ Consumers \subseteq Threads
  BY ZenonT(30), CellsAssumption, IdxType DEF TypeOK, RingInv, Threads
<1>1. ASSUME NEW p \in Producers, PushCall(p) PROVE RingInv'
  <2>1. ThreadInv(p)' /\ ~Producing(p)' /\ ~Removing(p)'
    BY Zenon, <1>0, <1>1 DEF PushCall, Goto, ThreadInv, Producing, Removing
  <2>2. QED BY Zenon, <1>0, <1>1, <2>1, QuietStep DEF PushCall, Goto
<1>2. ASSUME NEW p \in Producers, PushLoadPos(p) PROVE RingInv'
  <2>1. ThreadInv(p)' /\ ~Producing(p)' /\ ~Removing(p)'
    BY <1>0, <1>2 DEF PushLoadPos, Goto, ThreadInv, Producing, Removing
  <2>2. QED BY SMTT(30), <1>0, <1>2, <2>1, QuietStep DEF PushLoadPos, Goto
<1>3. ASSUME NEW p \in Producers, PushLoadSeq(p) PROVE RingInv'
  <2>1. pc'[p] = "enq_cas" => seq[Idx(pos[p])] = pos[p]
    <3>1. pc'[p] = "enq_cas" => PushDiff(pos[p]) = 0
      BY ZenonT(30), <1>0, <1>3 DEF PushLoadSeq, Goto
    <3>2. seq[Idx(pos[p])] \in Nat /\ pos[p] \in Nat
      BY ZenonT(30), <1>0
    <3>3. QED BY <3>1, <3>2 DEF PushDiff
  <2>2. ThreadInv(p)' /\ ~Producing(p)' /\ ~Removing(p)'
    BY ZenonT(30), <1>0, <1>3, <2>1 DEF PushLoadSeq, Goto, ThreadInv, Producing, Removing
  <2>3. QED BY ZenonT(30), <1>0, <1>3, <2>2, QuietStep DEF PushLoadSeq, Goto
<1>4. ASSUME NEW p \in Producers, PushCas(p) PROVE RingInv'
  <2>1. CASE enqueue_pos = pos[p]
    BY ZenonT(30), <1>0, <1>4, <2>1, ClaimStep DEF PushCas, CasMatches, Goto
  <2>2. CASE enqueue_pos # pos[p]
    <3>1. ThreadInv(p)' /\ ~Producing(p)' /\ ~Removing(p)'
      BY ZenonT(30), <1>0, <1>4, <2>2
         DEF PushCas, CasMatches, Goto, ThreadInv, Producing, Removing
    <3>2. QED BY Zenon, <1>0, <1>4, <2>2, <3>1, QuietStep DEF PushCas, CasMatches, Goto
  <2>3. QED BY Zenon, <2>1, <2>2
<1>5. ASSUME NEW p \in Producers, PushEmplace(p) PROVE RingInv'
  <2>1. /\ ThreadInv(p)' /\ Producing(p) /\ ~Removing(p)' /\ pos'[p] = pos[p]
    BY Zenon, <1>0, <1>5 DEF PushEmplace, Goto, ThreadInv, Producing, Removing
  <2>2. QED BY SMTT(30), <1>0, <1>5, <2>1, QuietStep DEF PushEmplace, Goto
<1>6. ASSUME NEW p \in Producers, PushPublish(p) PROVE RingInv'
  BY Zenon, <1>6, PublishStep
<1>7. ASSUME NEW p \in Producers, PushSignal(p) PROVE RingInv'
  <2>1. ThreadInv(p)' /\ ~Producing(p)' /\ ~Removing(p)'
    BY Zenon, <1>0, <1>7 DEF PushSignal, Goto, ThreadInv, Producing, Removing
  <2>2. QED BY SMTT(30), <1>0, <1>7, <2>1, QuietStep DEF PushSignal, Goto
<1>8. ASSUME NEW t \in Threads, FrontLoadPos(t) PROVE RingInv'
  <2>1. /\ pc'[t] \in {"pop_seq", "ev_seq"} /\ pos'[t] = dequeue_pos
        /\ pos'[t] <= dequeue_pos'
    BY SMTT(30), <1>0, <1>8 DEF FrontLoadPos, Goto
  <2>2. ThreadInv(t)' /\ ~Producing(t)' /\ ~Removing(t)'
    BY Zenon, <2>1 DEF ThreadInv, Producing, Removing
  <2>3. QED BY ZenonT(30), <1>0, <1>8, <2>2, QuietStep DEF FrontLoadPos, Goto
<1>9. ASSUME NEW t \in Threads, FrontLoadSeq(t) PROVE RingInv'
  <2>1. pc'[t] \in {"pop_cas", "ev_cas"} => seq[Idx(pos[t])] = pos[t] + 1
    <3>1. pc'[t] \in {"pop_cas", "ev_cas"} => FrontDiff(pos[t]) = 0
      <4>1. CASE FrontDiff(pos[t]) = 0
        BY Zenon, <4>1
      <4>2. CASE FrontDiff(pos[t]) # 0
        BY ZenonT(30), <1>0, <1>9, <4>2 DEF FrontLoadSeq, Goto
      <4>3. QED BY Zenon, <4>1, <4>2
    <3>2. seq[Idx(pos[t])] \in Nat /\ pos[t] \in Nat
      BY ZenonT(30), <1>0
    <3>3. QED BY <3>1, <3>2 DEF FrontDiff
  <2>2. ThreadInv(t)' /\ ~Producing(t)' /\ ~Removing(t)'
    BY ZenonT(30), <1>0, <1>9, <2>1 DEF FrontLoadSeq, Goto, ThreadInv, Producing, Removing
  <2>3. QED BY ZenonT(30), <1>0, <1>9, <2>2, QuietStep DEF FrontLoadSeq, Goto
<1>10. ASSUME NEW t \in Threads, FrontCas(t) PROVE RingInv'
  <2>1. CASE dequeue_pos = pos[t]
    BY ZenonT(30), <1>0, <1>10, <2>1, TakeFrontStep DEF FrontCas, CasMatches, Goto
  <2>2. CASE dequeue_pos # pos[t]
    <3>1. ThreadInv(t)' /\ ~Producing(t)' /\ ~Removing(t)'
      BY ZenonT(30), <1>0, <1>10, <2>2
         DEF FrontCas, CasMatches, Goto, ThreadInv, Producing, Removing
    <3>2. QED BY ZenonT(30), <1>0, <1>10, <2>2, <3>1, QuietStep DEF FrontCas, CasMatches, Goto
  <2>3. QED BY Zenon, <2>1, <2>2
<1>11. ASSUME NEW t \in Threads, FrontTake(t) PROVE RingInv'
  <2>1. ThreadInv(t)' /\ ~Producing(t)' /\ Removing(t) /\ pos'[t] = pos[t]
    BY Zenon, <1>0, <1>11 DEF FrontTake, Goto, ThreadInv, Producing, Removing
  <2>2. QED BY SMTT(30), <1>0, <1>11, <2>1, QuietStep DEF FrontTake, Goto
<1>12. ASSUME NEW t \in Threads, FrontFree(t) PROVE RingInv'
  BY Zenon, <1>12, FreeStep
<1>13. ASSUME NEW t \in Threads, SpuriousCasFailure(t) PROVE RingInv'
  <2>1. ThreadInv(t)' /\ ~Producing(t)' /\ ~Removing(t)'
    BY ZenonT(30), <1>0, <1>13 DEF SpuriousCasFailure, Goto, ThreadInv, Producing, Removing
  <2>2. QED BY ZenonT(30), <1>0, <1>13, <2>1, QuietStep DEF SpuriousCasFailure, Goto
<1>14. ASSUME NEW c \in Consumers,
              PopCall(c) \/ WaitCheckStop(c) \/ WaitAcquire(c) \/ WaitTimeout(c)
       PROVE  RingInv'
  <2> USE DEF PopCall, WaitCheckStop, WaitAcquire, WaitTimeout, Goto
  <2>1. ThreadInv(c)' /\ ~Producing(c)' /\ ~Removing(c)'
    BY ZenonT(30), <1>0, <1>14 DEF ThreadInv, Producing, Removing
  <2>2. QED BY ZenonT(30), <1>0, <1>14, <2>1, QuietStep
<1>15. ASSUME UNCHANGED <<seq, enqueue_pos, dequeue_pos, pc, pos>> PROVE RingInv'
  BY ZenonT(30), <1>15 DEF RingInv, CellsInv, ThreadInv, OnePerPosition, Producing, Removing
<1>16. CASE Stop \/ UNCHANGED vars
  BY SMTT(30), <1>15, <1>16 DEF Stop, vars
<1>17. QED
  BY ZenonT(30), <1>0, <1>1, <1>2, <1>3, <1>4, <1>5, <1>6, <1>7, <1>8, <1>9, <1>10, <1>11,
     <1>12, <1>13, <1>14, <1>16 DEF Next, ProducerStep, ConsumerStep, RemovalStep

(* The constructor establishes RingInv. *)
LEMMA RingInit == Init => RingInv
<1> SUFFICES ASSUME Init PROVE RingInv
  OBVIOUS
<1>1. CellsInv
  BY CellsAssumption, IdxSmall DEF Init, CellsInv
<1>2. QED
  BY Zenon, <1>1 DEF Init, RingInv, ThreadInv, OnePerPosition, Producing, Removing

(* Two owners are never a round apart. *)
LEMMA OwnersApart == TypeOK /\ RingInv => CellExclusive
<1> SUFFICES ASSUME TypeOK, RingInv, NEW t \in Threads, NEW u \in Threads,
                    t # u, Owns(t), Owns(u)
             PROVE  Idx(pos[t]) # Idx(pos[u])
  BY Zenon DEF CellExclusive
<1>1. /\ pos[t] \in Nat /\ pos[u] \in Nat /\ Cells \in Nat
      /\ enqueue_pos \in Nat /\ dequeue_pos \in Nat
  BY Zenon, CellsAssumption DEF TypeOK
<1>2. ThreadInv(t) /\ ThreadInv(u) /\ CellsInv
  BY SMTT(30) DEF RingInv
<1>3. /\ pos[t] < pos[u] + Cells /\ pos[u] < pos[t] + Cells
  BY SMTT(30), <1>1, <1>2 DEF Owns, ThreadInv, CellsInv
<1>4. pos[t] # pos[u]
  BY <1>1, <1>2 DEF Owns, ThreadInv, RingInv, OnePerPosition
<1>5. QED BY <1>1, <1>3, <1>4, IdxApart

(* No two threads ever own the same cell: two owners of one cell would be at
   positions a round or more apart, and RingInv keeps all owners within one. *)
THEOREM PayloadsNeverRace == Cells >= 2 => (Spec => []CellExclusive)
<1> SUFFICES ASSUME Cells >= 2 PROVE Spec => []CellExclusive
  OBVIOUS
<1>1. Init => TypeOK /\ RingInv
  BY Zenon, RingInit, TypeInit
<1>2. TypeOK /\ RingInv /\ [Next]_vars => TypeOK' /\ RingInv'
  BY Zenon, TypeStep, RingStep
<1>3. TypeOK /\ RingInv => CellExclusive
  BY Zenon, OwnersApart
<1>4. QED BY <1>1, <1>2, <1>3, PTL DEF Spec

(* push() never claims a position the ring has no room for. *)
THEOREM CursorsStayBounded == Cells >= 2 => (Spec => []Bounded)
<1> SUFFICES ASSUME Cells >= 2 PROVE Spec => []Bounded
  OBVIOUS
<1>1. Init => TypeOK /\ RingInv
  BY Zenon, RingInit, TypeInit
<1>2. TypeOK /\ RingInv /\ [Next]_vars => TypeOK' /\ RingInv'
  BY Zenon, TypeStep, RingStep
<1>3. TypeOK /\ RingInv => Bounded
  BY CellsAssumption DEF TypeOK, RingInv, CellsInv, Bounded
<1>4. QED BY <1>1, <1>2, <1>3, PTL DEF Spec

-----------------------------------------------------------------------------
(* Payloads and histories *)

(* A step that neither touches payloads, sequences, cursors and history nor
   moves a thread into or out of the states DataInv speaks about. *)
LEMMA QuietData ==
  ASSUME TypeOK, DataInv, NEW t \in Threads,
         UNCHANGED <<seq, data, enqueue_pos, dequeue_pos, claimed, removed>>,
         \A u \in Threads : u # t =>
           pc'[u] = pc[u] /\ pos'[u] = pos[u] /\ calls'[u] = calls[u],
         ~Producing(t), ~Producing(t)', pc[t] # "take", pc'[t] # "take"
  PROVE  DataInv'
<1>0. Producers \subseteq Threads
  BY Zenon DEF Threads
<1>1. ReadyCells'
  BY <1>0 DEF DataInv, ReadyCells, Producing
<1>2. \A u \in Threads : PayloadInv(u)'
  <2> TAKE u \in Threads
  <2>1. CASE u = t
    BY Zenon, <2>1 DEF PayloadInv, Producing
  <2>2. CASE u # t
    BY ZenonT(30), <2>2 DEF DataInv, PayloadInv, Item
  <2>3. QED BY Zenon, <2>1, <2>2
<1>3. RemovedInv'
  BY SMTT(30) DEF DataInv, RemovedInv
<1>4. QED BY Zenon, <1>1, <1>2, <1>3 DEF DataInv

(* A won compare-exchange on enqueue_pos_ claims the next position. *)
LEMMA ClaimData ==
  ASSUME TypeOK, RingInv, DataInv, NEW p \in Producers,
         PushCas(p), enqueue_pos = pos[p], pc'[p] = "emplace"
  PROVE  DataInv'
<1> DEFINE e == enqueue_pos
           d == dequeue_pos
<1>0. /\ p \in Threads /\ e \in Nat /\ d \in Nat /\ claimed \in Seq(Items)
      /\ Item(p) \in Items
      /\ pos \in [Threads -> Nat] /\ pc \in [Threads -> Locations]
      /\ Producers \subseteq Threads
  BY Zenon DEF Threads, TypeOK, Item, Items
<1>1. /\ pc[p] = "enq_cas" /\ pos[p] = e
      /\ pc' = [pc EXCEPT ![p] = "emplace"] /\ enqueue_pos' = e + 1
      /\ claimed' = Append(claimed, Item(p))
      /\ UNCHANGED <<seq, data, dequeue_pos, pos, calls, removed>>
  BY Zenon, <1>0 DEF PushCas, Goto, CasMatches, cells
<1>2. /\ Len(claimed) = e /\ ReadyCells /\ RemovedInv /\ CellsInv
      /\ \A u \in Threads : PayloadInv(u) /\ ThreadInv(u)
  BY Zenon DEF DataInv, RingInv
<1>3. /\ Len(claimed') = e + 1 /\ claimed'[e + 1] = Item(p)
      /\ \A n \in 0..e-1 : claimed'[n + 1] = claimed[n + 1]
  BY <1>0, <1>1, <1>2
<1>4. ReadyCells'
  <2>0. dequeue_pos'..enqueue_pos'-1 = d..e
    BY <1>0, <1>1
  <2> SUFFICES ASSUME NEW n \in d..e
               PROVE  \/ seq[Idx(n)] = n + 1 /\ data[Idx(n)] = claimed'[n + 1]
                      \/ \E q \in Producers : Producing(q)' /\ pos[q] = n
    BY ZenonT(30), <1>1, <2>0 DEF ReadyCells
  <2>1. CASE n = e
    BY Zenon, <1>0, <1>1, <2>1 DEF Producing
  <2>2. CASE n \in d..e-1
    <3>1. claimed'[n + 1] = claimed[n + 1]
      BY SMTT(30), <1>0, <1>3, <2>2
    <3>2. \A q \in Producers : Producing(q) => Producing(q)'
      BY Zenon, <1>0, <1>1 DEF Producing
    <3>3. QED BY Zenon, <1>2, <2>2, <3>1, <3>2 DEF ReadyCells
  <2>3. QED BY <1>0, <2>1, <2>2
<1>5. ASSUME NEW u \in Threads PROVE PayloadInv(u)'
  <2>1. CASE u = p
    BY Zenon, <1>0, <1>1, <1>3, <2>1 DEF PayloadInv, Item
  <2>2. CASE u # p
    <3>1. pc'[u] = pc[u] /\ pos'[u] = pos[u] /\ calls'[u] = calls[u]
      BY Zenon, <1>0, <1>1, <2>2
    <3>2. pc[u] \in {"emplace", "publish", "take"} =>
            claimed'[pos[u] + 1] = claimed[pos[u] + 1]
      <4>1. pc[u] \in {"emplace", "publish", "take"} => pos[u] \in 0..e-1
        BY <1>0, <1>2 DEF ThreadInv, Producing, Removing, CellsInv
      <4>2. QED BY Zenon, <1>3, <4>1
    <3>3. QED BY ZenonT(30), <1>1, <1>2, <3>1, <3>2 DEF PayloadInv, Item
  <2>3. QED BY Zenon, <2>1, <2>2
<1>6. RemovedInv'
  <2>1. \A r \in removed : claimed'[r.pos + 1] = claimed[r.pos + 1]
    <3>1. \A r \in removed : r.pos \in 0..e-1
      BY <1>0, <1>2 DEF RemovedInv, CellsInv
    <3>2. QED BY Zenon, <1>3, <3>1
  <2>2. \A u \in Threads : pc'[u] = "take" <=> pc[u] = "take"
    BY Zenon, <1>0, <1>1
  <2>3. QED BY ZenonT(30), <1>1, <1>2, <2>1, <2>2 DEF RemovedInv
<1>7. QED BY Zenon, <1>1, <1>3, <1>4, <1>5, <1>6 DEF DataInv

(* A won compare-exchange on dequeue_pos_: what the winner will take out is
   the item claimed for the position, because the cell is ready. *)
LEMMA TakeFrontData ==
  ASSUME TypeOK, RingInv, DataInv, NEW t \in Threads,
         FrontCas(t), dequeue_pos = pos[t], pc'[t] = "take",
         dequeue_pos < enqueue_pos
  PROVE  DataInv'
<1> DEFINE e == enqueue_pos
           d == dequeue_pos
<1>0. /\ e \in Nat /\ d \in Nat
      /\ pos \in [Threads -> Nat] /\ pc \in [Threads -> Locations]
      /\ Producers \subseteq Threads
  BY Zenon DEF Threads, TypeOK
<1>1. /\ pc[t] \in {"pop_cas", "ev_cas"} /\ pos[t] = d
      /\ pc' = [pc EXCEPT ![t] = "take"] /\ dequeue_pos' = d + 1
      /\ UNCHANGED <<seq, data, enqueue_pos, pos, calls, claimed, removed>>
  BY Zenon, <1>0 DEF FrontCas, Goto, CasMatches, cells, history
<1>2. /\ Len(claimed) = e /\ ReadyCells /\ RemovedInv
      /\ \A u \in Threads : PayloadInv(u) /\ ThreadInv(u)
  BY Zenon DEF DataInv, RingInv
<1>3. data[Idx(d)] = claimed[d + 1]
  <2>1. seq[Idx(d)] = d + 1
    BY Zenon, <1>1, <1>2 DEF ThreadInv
  <2>2. \A p \in Producers : Producing(p) => pos[p] # d
    BY <1>0, <1>2, <2>1 DEF ThreadInv
  <2>3. d \in d..e-1
    BY <1>0
  <2>4. QED BY Zenon, <1>2, <2>2, <2>3 DEF ReadyCells
<1>4. ReadyCells'
  <2>1. \A p \in Producers : Producing(p)' <=> Producing(p)
    BY Zenon, <1>0, <1>1 DEF Producing
  <2>2. \A n \in d+1..e-1 : n \in d..e-1
    BY <1>0
  <2>3. QED BY Zenon, <1>1, <1>2, <2>1, <2>2 DEF ReadyCells
<1>5. ASSUME NEW u \in Threads PROVE PayloadInv(u)'
  BY SMTT(30), <1>0, <1>1, <1>2, <1>3 DEF PayloadInv, Item
<1>6. RemovedInv'
  <2>1. \A u \in Threads : pc'[u] = "take" <=> pc[u] = "take" \/ u = t
    BY Zenon, <1>0, <1>1
  <2>2. 0..dequeue_pos'-1 = (0..d-1) \cup {d}
    BY <1>0, <1>1
  <2>3. \A r \in removed : r.pos # d
    BY <1>0, <1>2 DEF RemovedInv
  <2>4. \A n \in (0..d-1) \cup {d} :
          \/ \E r \in removed : r.pos = n
          \/ \E u \in Threads : pc'[u] = "take" /\ pos[u] = n
    BY ZenonT(30), <1>1, <1>2, <2>1 DEF RemovedInv
  <2>5. \A r \in removed :
          /\ r.pos \in (0..d-1) \cup {d} /\ r.item = claimed[r.pos + 1]
          /\ \A u \in Threads : pc'[u] = "take" => pos[u] # r.pos
    BY <1>1, <1>2, <2>1, <2>3 DEF RemovedInv
  <2>6. QED BY <1>1, <1>2, <2>2, <2>4, <2>5 DEF RemovedInv
<1>7. QED BY Zenon, <1>1, <1>2, <1>4, <1>5, <1>6 DEF DataInv

(* The payload is constructed in a cell nobody else owns. *)
LEMMA EmplaceData ==
  ASSUME TypeOK, RingInv, DataInv, NEW p \in Producers, PushEmplace(p)
  PROVE  DataInv'
<1> DEFINE e == enqueue_pos
           d == dequeue_pos
           n0 == pos[p]
<1>0. /\ p \in Threads /\ Cells \in Nat /\ e \in Nat /\ d \in Nat /\ n0 \in Nat
      /\ pos \in [Threads -> Nat] /\ pc \in [Threads -> Locations]
      /\ data \in [0..Cells-1 -> Slots] /\ Idx(n0) \in 0..Cells-1
      /\ Producers \subseteq Threads
  BY ZenonT(30), CellsAssumption, IdxType DEF Threads, TypeOK
<1>1. /\ pc[p] = "emplace" /\ pc' = [pc EXCEPT ![p] = "publish"]
      /\ data' = [data EXCEPT ![Idx(n0)] = Item(p)]
      /\ UNCHANGED <<seq, enqueue_pos, dequeue_pos, pos, calls, claimed, removed>>
  BY SMTT(30) DEF PushEmplace, Goto, history
<1>2. /\ Len(claimed) = e /\ ReadyCells /\ RemovedInv /\ CellsInv
      /\ \A u \in Threads : PayloadInv(u) /\ ThreadInv(u)
      /\ d <= n0 /\ n0 < e /\ e <= d + Cells
      /\ data'[Idx(n0)] = claimed[n0 + 1]
  BY <1>0, <1>1 DEF DataInv, RingInv, ThreadInv, PayloadInv, Producing, CellsInv
<1>3. CellExclusive
  BY Zenon, OwnersApart
<1>4. ReadyCells'
  <2> SUFFICES ASSUME NEW n \in d..e-1
               PROVE  \/ seq[Idx(n)] = n + 1 /\ data'[Idx(n)] = claimed[n + 1]
                      \/ \E q \in Producers : Producing(q)' /\ pos[q] = n
    BY Zenon, <1>1 DEF ReadyCells
  <2>1. \A q \in Producers : Producing(q)' <=> Producing(q)
    BY Zenon, <1>0, <1>1 DEF Producing
  <2>2. CASE n = n0
    BY Zenon, <1>1, <2>1, <2>2 DEF Producing
  <2>3. CASE n # n0
    <3>1. n \in Nat /\ n < n0 + Cells /\ n0 < n + Cells
      BY SMTT(30), <1>0, <1>2
    <3>2. Idx(n) # Idx(n0)
      BY <1>0, <2>3, <3>1, IdxApart
    <3>3. Idx(n) \in 0..Cells-1
      BY Zenon, <3>1, IdxType
    <3>4. data'[Idx(n)] = data[Idx(n)]
      BY Zenon, <1>0, <1>1, <3>2, <3>3
    <3>5. QED BY ZenonT(30), <1>2, <2>1, <3>4 DEF ReadyCells
  <2>4. QED BY Zenon, <2>2, <2>3
<1>5. ASSUME NEW u \in Threads PROVE PayloadInv(u)'
  <2>1. CASE u = p
    BY SMTT(30), <1>0, <1>1, <1>2, <2>1 DEF PayloadInv, Item
  <2>2. CASE u # p
    <3>1. pc'[u] = pc[u] /\ pos'[u] = pos[u] /\ calls'[u] = calls[u]
      BY Zenon, <1>0, <1>1, <2>2
    <3>2. pc[u] \in {"publish", "take"} => Idx(pos[u]) # Idx(n0)
      BY Zenon, <1>0, <1>1, <1>3, <2>2 DEF CellExclusive, Owns, Producing, Removing
    <3>3. pc[u] \in {"publish", "take"} => data'[Idx(pos[u])] = data[Idx(pos[u])]
      BY SMTT(30), <1>0, <1>1, <3>2, IdxType
    <3>4. QED BY Zenon, <1>1, <1>2, <3>1, <3>3 DEF PayloadInv, Item
  <2>3. QED BY Zenon, <2>1, <2>2
<1>6. RemovedInv'
  <2>1. \A u \in Threads : pc'[u] = "take" <=> pc[u] = "take"
    BY Zenon, <1>0, <1>1
  <2>2. QED BY <1>1, <1>2, <2>1 DEF RemovedInv
<1>7. QED BY Zenon, <1>1, <1>2, <1>4, <1>5, <1>6 DEF DataInv

(* The payload is moved out, recorded, and the optional reset. *)
LEMMA TakeData ==
  ASSUME TypeOK, RingInv, DataInv, NEW t \in Threads, FrontTake(t)
  PROVE  DataInv'
<1> DEFINE e == enqueue_pos
           d == dequeue_pos
           n0 == pos[t]
           new == [pos |-> n0, item |-> data[Idx(n0)], by |-> t]
<1>0. /\ Cells \in Nat /\ e \in Nat /\ d \in Nat /\ n0 \in Nat
      /\ pos \in [Threads -> Nat] /\ pc \in [Threads -> Locations]
      /\ data \in [0..Cells-1 -> Slots] /\ Idx(n0) \in 0..Cells-1
      /\ Producers \subseteq Threads
  BY ZenonT(30), CellsAssumption, IdxType DEF Threads, TypeOK
<1>1. /\ pc[t] = "take" /\ pc' = [pc EXCEPT ![t] = "free"]
      /\ data' = [data EXCEPT ![Idx(n0)] = None]
      /\ removed' = removed \cup {new}
      /\ UNCHANGED <<seq, enqueue_pos, dequeue_pos, pos, calls, claimed>>
  BY SMTT(30) DEF FrontTake, Goto
<1>2. /\ Len(claimed) = e /\ ReadyCells /\ RemovedInv
      /\ \A u \in Threads : PayloadInv(u) /\ ThreadInv(u)
      /\ n0 < d /\ e <= n0 + Cells /\ OnePerPosition
      /\ data[Idx(n0)] = claimed[n0 + 1]
  BY Zenon, <1>0, <1>1 DEF DataInv, RingInv, ThreadInv, PayloadInv, Removing
<1>3. CellExclusive
  BY SMTT(30), OwnersApart
<1>4. ReadyCells'
  <2> SUFFICES ASSUME NEW n \in d..e-1
               PROVE  \/ seq[Idx(n)] = n + 1 /\ data'[Idx(n)] = claimed[n + 1]
                      \/ \E q \in Producers : Producing(q)' /\ pos[q] = n
    BY Zenon, <1>1 DEF ReadyCells
  <2>1. \A q \in Producers : Producing(q)' <=> Producing(q)
    BY Zenon, <1>0, <1>1 DEF Producing
  <2>2. n \in Nat /\ n0 < n /\ n < n0 + Cells
    BY <1>0, <1>2
  <2>3. Idx(n) # Idx(n0)
    BY <1>0, <2>2, IdxApart
  <2>4. Idx(n) \in 0..Cells-1
    BY Zenon, <2>2, IdxType
  <2>5. data'[Idx(n)] = data[Idx(n)]
    BY Zenon, <1>0, <1>1, <2>3, <2>4
  <2>6. QED BY Zenon, <1>2, <2>1, <2>5 DEF ReadyCells
<1>5. ASSUME NEW u \in Threads PROVE PayloadInv(u)'
  <2>1. CASE u = t
    BY SMTT(30), <1>0, <1>1, <2>1 DEF PayloadInv
  <2>2. CASE u # t
    <3>1. pc'[u] = pc[u] /\ pos'[u] = pos[u] /\ calls'[u] = calls[u]
      BY Zenon, <1>0, <1>1, <2>2
    <3>2. pc[u] \in {"publish", "take"} => Idx(pos[u]) # Idx(n0)
      BY Zenon, <1>0, <1>1, <1>3, <2>2 DEF CellExclusive, Owns, Producing, Removing
    <3>3. pc[u] \in {"publish", "take"} => data'[Idx(pos[u])] = data[Idx(pos[u])]
      BY Zenon, <1>0, <1>1, <3>2, IdxType
    <3>4. QED BY Zenon, <1>1, <1>2, <3>1, <3>3 DEF PayloadInv, Item
  <2>3. QED BY Zenon, <2>1, <2>2
<1>6. RemovedInv'
  <2>0. new.pos = n0 /\ new.item = claimed[n0 + 1]
    BY Zenon, <1>2
  <2> HIDE DEF new
  <2>1. \A u \in Threads : pc'[u] = "take" <=> pc[u] = "take" /\ u # t
    BY Zenon, <1>0, <1>1
  <2>2. \A u \in Threads : pc[u] = "take" /\ u # t => pos[u] # n0
    BY Zenon, <1>1, <1>2 DEF OnePerPosition, Removing
  <2>3. \A r \in removed : r.pos # n0
    BY Zenon, <1>1, <1>2 DEF RemovedInv
  <2>4. ASSUME NEW n \in 0..d-1
        PROVE  \/ \E r \in removed' : r.pos = n
               \/ \E u \in Threads : pc'[u] = "take" /\ pos[u] = n
    <3>1. CASE n = n0
      BY Zenon, <1>1, <2>0, <3>1
    <3>2. CASE n # n0
      BY Zenon, <1>1, <1>2, <2>1, <3>2 DEF RemovedInv
    <3>3. QED BY Zenon, <3>1, <3>2
  <2>5. ASSUME NEW r \in removed'
        PROVE  /\ r.pos \in 0..d-1 /\ r.item = claimed[r.pos + 1]
               /\ \A u \in Threads : pc'[u] = "take" => pos[u] # r.pos
    <3>1. CASE r = new
      BY SMTT(30), <1>0, <1>2, <2>0, <2>1, <2>2, <3>1
    <3>2. CASE r \in removed
      BY SMTT(30), <1>2, <2>1, <3>2 DEF RemovedInv
    <3>3. QED BY Zenon, <1>1, <3>1, <3>2
  <2>6. ASSUME NEW r \in removed', NEW s \in removed', r.pos = s.pos
        PROVE  r = s
    BY <1>1, <1>2, <2>0, <2>3, <2>6 DEF RemovedInv
  <2>7. QED BY <1>1, <2>4, <2>5, <2>6 DEF RemovedInv
<1>7. QED BY Zenon, <1>1, <1>2, <1>4, <1>5, <1>6 DEF DataInv

(* push()'s store of the sequence makes the constructed payload visible. *)
LEMMA PublishData ==
  ASSUME TypeOK, RingInv, DataInv, NEW p \in Producers, PushPublish(p)
  PROVE  DataInv'
<1> DEFINE e == enqueue_pos
           d == dequeue_pos
           n0 == pos[p]
<1>0. /\ p \in Threads /\ Cells \in Nat /\ e \in Nat /\ d \in Nat /\ n0 \in Nat
      /\ pos \in [Threads -> Nat] /\ pc \in [Threads -> Locations]
      /\ seq \in [0..Cells-1 -> Nat] /\ Idx(n0) \in 0..Cells-1
      /\ Producers \subseteq Threads
  BY ZenonT(30), CellsAssumption, IdxType DEF Threads, TypeOK
<1>1. /\ pc[p] = "publish" /\ pc' = [pc EXCEPT ![p] = "signal"]
      /\ seq' = [seq EXCEPT ![Idx(n0)] = n0 + 1]
      /\ UNCHANGED <<data, enqueue_pos, dequeue_pos, pos, calls, claimed, removed>>
  BY SMTT(30) DEF PushPublish, Goto, history
<1>2. /\ Len(claimed) = e /\ ReadyCells /\ RemovedInv /\ CellsInv
      /\ \A u \in Threads : PayloadInv(u) /\ ThreadInv(u)
      /\ d <= n0 /\ n0 < e /\ e <= d + Cells
      /\ data[Idx(n0)] = claimed[n0 + 1]
  BY SMTT(30), <1>0, <1>1 DEF DataInv, RingInv, ThreadInv, PayloadInv, Producing, CellsInv
<1>3. ReadyCells'
  <2> SUFFICES ASSUME NEW n \in d..e-1
               PROVE  \/ seq'[Idx(n)] = n + 1 /\ data[Idx(n)] = claimed[n + 1]
                      \/ \E q \in Producers : Producing(q)' /\ pos[q] = n
    BY Zenon, <1>1 DEF ReadyCells
  <2>1. \A q \in Producers : Producing(q)' <=> Producing(q) /\ q # p
    BY SMTT(30), <1>0, <1>1 DEF Producing
  <2>2. CASE n = n0
    <3>1. seq'[Idx(n0)] = n0 + 1
      BY ZenonT(30), <1>0, <1>1
    <3>2. QED BY ZenonT(30), <1>2, <2>2, <3>1
  <2>3. CASE n # n0
    <3>1. n \in Nat /\ n < n0 + Cells /\ n0 < n + Cells
      BY SMTT(30), <1>0, <1>2
    <3>2. Idx(n) # Idx(n0)
      BY <1>0, <2>3, <3>1, IdxApart
    <3>3. Idx(n) \in 0..Cells-1
      BY Zenon, <3>1, IdxType
    <3>4. seq'[Idx(n)] = seq[Idx(n)]
      BY Zenon, <1>0, <1>1, <3>2, <3>3
    <3>5. \A q \in Producers : Producing(q) /\ pos[q] = n => Producing(q)'
      BY ZenonT(30), <2>1, <2>3
    <3>6. \/ seq[Idx(n)] = n + 1 /\ data[Idx(n)] = claimed[n + 1]
          \/ \E q \in Producers : Producing(q) /\ pos[q] = n
      BY ZenonT(30), <1>2 DEF ReadyCells
    <3>7. QED BY ZenonT(30), <3>4, <3>5, <3>6
  <2>4. QED BY Zenon, <2>2, <2>3
<1>4. ASSUME NEW u \in Threads PROVE PayloadInv(u)'
  BY SMTT(30), <1>0, <1>1, <1>2 DEF PayloadInv, Item
<1>5. RemovedInv'
  <2>1. \A u \in Threads : pc'[u] = "take" <=> pc[u] = "take"
    BY Zenon, <1>0, <1>1
  <2>2. QED BY SMTT(30), <1>1, <1>2, <2>1 DEF RemovedInv
<1>6. QED BY Zenon, <1>1, <1>2, <1>3, <1>4, <1>5 DEF DataInv

(* The store that frees a cell concerns no position between the cursors. *)
LEMMA FreeData ==
  ASSUME TypeOK, RingInv, DataInv, NEW t \in Threads, FrontFree(t)
  PROVE  DataInv'
<1> DEFINE e == enqueue_pos
           d == dequeue_pos
           n0 == pos[t]
<1>0. /\ Cells \in Nat /\ e \in Nat /\ d \in Nat /\ n0 \in Nat
      /\ pos \in [Threads -> Nat] /\ pc \in [Threads -> Locations]
      /\ seq \in [0..Cells-1 -> Nat] /\ Idx(n0) \in 0..Cells-1
      /\ Producers \subseteq Threads
  BY ZenonT(30), CellsAssumption, IdxType DEF Threads, TypeOK
<1>1. /\ pc[t] = "free" /\ pc'[t] \in {"enq_load", "idle"}
      /\ \A u \in Threads : u # t => pc'[u] = pc[u]
      /\ seq' = [seq EXCEPT ![Idx(n0)] = n0 + Cells]
      /\ UNCHANGED <<data, enqueue_pos, dequeue_pos, pos, calls, claimed, removed>>
  BY SMTT(30), <1>0 DEF FrontFree, Goto, NextRound, history
<1>2. /\ Len(claimed) = e /\ ReadyCells /\ RemovedInv
      /\ \A u \in Threads : PayloadInv(u)
      /\ n0 < d /\ e <= n0 + Cells
  BY Zenon, <1>0, <1>1 DEF DataInv, RingInv, ThreadInv, Removing
<1>3. ReadyCells'
  <2> SUFFICES ASSUME NEW n \in d..e-1
               PROVE  \/ seq'[Idx(n)] = n + 1 /\ data[Idx(n)] = claimed[n + 1]
                      \/ \E q \in Producers : Producing(q)' /\ pos[q] = n
    BY Zenon, <1>1 DEF ReadyCells
  <2>1. \A q \in Producers : Producing(q)' <=> Producing(q)
    BY Zenon, <1>0, <1>1 DEF Producing
  <2>2. n \in Nat /\ n0 < n /\ n < n0 + Cells
    BY SMTT(30), <1>0, <1>2
  <2>3. Idx(n) # Idx(n0)
    BY <1>0, <2>2, IdxApart
  <2>4. Idx(n) \in 0..Cells-1
    BY Zenon, <2>2, IdxType
  <2>5. seq'[Idx(n)] = seq[Idx(n)]
    BY SMTT(30), <1>0, <1>1, <2>3, <2>4
  <2>6. QED BY Zenon, <1>2, <2>1, <2>5 DEF ReadyCells
<1>4. ASSUME NEW u \in Threads PROVE PayloadInv(u)'
  BY SMTT(30), <1>0, <1>1, <1>2 DEF PayloadInv, Item
<1>5. RemovedInv'
  <2>1. \A u \in Threads : pc'[u] = "take" <=> pc[u] = "take"
    BY Zenon, <1>0, <1>1
  <2>2. QED BY <1>1, <1>2, <2>1 DEF RemovedInv
<1>6. QED BY Zenon, <1>1, <1>2, <1>3, <1>4, <1>5 DEF DataInv

(* DataInv is inductive relative to RingInv. *)
LEMMA DataStep ==
  ASSUME TypeOK, RingInv, RingInv', DataInv, [Next]_vars
  PROVE  DataInv'
<1> USE DEF cells, control, history
<1>0. /\ pos \in [Threads -> Nat] /\ pc \in [Threads -> Locations]
      /\ calls \in [Threads -> Nat]
      /\ Producers \subseteq Threads /\ Consumers \subseteq Threads
  BY SMTT(30) DEF TypeOK, Threads
<1>1. ASSUME NEW p \in Producers,
             PushCall(p) \/ PushLoadPos(p) \/ PushLoadSeq(p) \/ PushSignal(p)
      PROVE  DataInv'
  <2>1. ~Producing(p) /\ ~Producing(p)' /\ pc[p] # "take" /\ pc'[p] # "take"
    BY SMTT(30), <1>0, <1>1
       DEF PushCall, PushLoadPos, PushLoadSeq, PushSignal, Goto, Producing
  <2>2. /\ UNCHANGED <<seq, data, enqueue_pos, dequeue_pos, claimed, removed>>
        /\ \A u \in Threads : u # p =>
             pc'[u] = pc[u] /\ pos'[u] = pos[u] /\ calls'[u] = calls[u]
    BY Zenon, <1>0, <1>1 DEF PushCall, PushLoadPos, PushLoadSeq, PushSignal, Goto
  <2>3. QED BY SMTT(30), <1>0, <2>1, <2>2, QuietData
<1>2. ASSUME NEW p \in Producers, PushCas(p) PROVE DataInv'
  <2>1. CASE enqueue_pos = pos[p]
    BY SMTT(30), <1>0, <1>2, <2>1, ClaimData DEF PushCas, CasMatches, Goto
  <2>2. CASE enqueue_pos # pos[p]
    <3>1. ~Producing(p) /\ ~Producing(p)' /\ pc[p] # "take" /\ pc'[p] # "take"
      BY Zenon, <1>0, <1>2, <2>2 DEF PushCas, CasMatches, Goto, Producing
    <3>2. QED BY Zenon, <1>0, <1>2, <2>2, <3>1, QuietData DEF PushCas, CasMatches, Goto
  <2>3. QED BY Zenon, <2>1, <2>2
<1>3. ASSUME NEW p \in Producers, PushEmplace(p) \/ PushPublish(p) PROVE DataInv'
  BY Zenon, <1>3, EmplaceData, PublishData
<1>4. ASSUME NEW t \in Threads,
             FrontLoadPos(t) \/ FrontLoadSeq(t) \/ SpuriousCasFailure(t)
      PROVE  DataInv'
  <2>1. /\ pc[t] \notin {"emplace", "publish", "take"}
        /\ pc'[t] \notin {"emplace", "publish", "take"}
        /\ \A u \in Threads : u # t => pc'[u] = pc[u]
    <3>1. CASE FrontLoadPos(t)
      BY Zenon, <1>0, <3>1 DEF FrontLoadPos, Goto
    <3>2. CASE FrontLoadSeq(t)
      BY Zenon, <1>0, <3>2 DEF FrontLoadSeq, Goto
    <3>3. CASE SpuriousCasFailure(t)
      BY SMTT(30), <1>0, <3>3 DEF SpuriousCasFailure, Goto
    <3>4. QED BY Zenon, <1>4, <3>1, <3>2, <3>3
  <2>2. /\ UNCHANGED <<seq, data, enqueue_pos, dequeue_pos, claimed, removed>>
        /\ \A u \in Threads : u # t => pos'[u] = pos[u] /\ calls'[u] = calls[u]
    BY Zenon, <1>0, <1>4 DEF FrontLoadPos, FrontLoadSeq, SpuriousCasFailure
  <2>3. ~Producing(t) /\ ~Producing(t)' /\ pc[t] # "take" /\ pc'[t] # "take"
    BY Zenon, <2>1 DEF Producing
  <2>4. QED BY Zenon, <2>1, <2>2, <2>3, QuietData
<1>5. ASSUME NEW t \in Threads, FrontCas(t) PROVE DataInv'
  <2>1. CASE dequeue_pos = pos[t]
    <3>1. pc'[t] = "take" /\ dequeue_pos' = pos[t] + 1 /\ UNCHANGED enqueue_pos
      BY Zenon, <1>0, <1>5, <2>1 DEF FrontCas, CasMatches, Goto
    <3>2. dequeue_pos < enqueue_pos
      BY SMTT(30), <2>1, <3>1 DEF RingInv, CellsInv, TypeOK
    <3>3. QED BY Zenon, <1>5, <2>1, <3>1, <3>2, TakeFrontData
  <2>2. CASE dequeue_pos # pos[t]
    <3>1. /\ pc[t] \notin {"emplace", "publish", "take"}
          /\ pc'[t] \notin {"emplace", "publish", "take"}
      BY Zenon, <1>0, <1>5, <2>2 DEF FrontCas, CasMatches, Goto
    <3>2. QED BY SMTT(30), <1>0, <1>5, <2>2, <3>1, QuietData
              DEF FrontCas, CasMatches, Goto, Producing
  <2>3. QED BY Zenon, <2>1, <2>2
<1>6. ASSUME NEW t \in Threads, FrontTake(t) \/ FrontFree(t) PROVE DataInv'
  BY SMTT(30), <1>6, TakeData, FreeData
<1>7. ASSUME NEW c \in Consumers,
             PopCall(c) \/ WaitCheckStop(c) \/ WaitAcquire(c) \/ WaitTimeout(c)
      PROVE  DataInv'
  <2> USE DEF PopCall, WaitCheckStop, WaitAcquire, WaitTimeout, Goto
  <2>1. ~Producing(c) /\ ~Producing(c)' /\ pc[c] # "take" /\ pc'[c] # "take"
    BY SMTT(30), <1>0, <1>7 DEF Producing
  <2>2. QED BY SMTT(30), <1>0, <1>7, <2>1, QuietData
<1>8. CASE Stop \/ UNCHANGED vars
  <2>1. UNCHANGED <<seq, data, enqueue_pos, dequeue_pos, pc, pos, calls, claimed,
                    removed>>
    BY Zenon, <1>8 DEF Stop, vars
  <2>2. QED BY SMTT(30), <2>1 DEF DataInv, ReadyCells, PayloadInv, RemovedInv, Producing, Item
<1>9. QED
  BY SMTT(30), <1>0, <1>1, <1>2, <1>3, <1>4, <1>5, <1>6, <1>7, <1>8
     DEF Next, ProducerStep, ConsumerStep, RemovalStep

(* The constructor establishes DataInv. *)
LEMMA DataInit == Init => DataInv
BY DEF Init, DataInv, ReadyCells, PayloadInv, RemovedInv

(* DataInv says of the history what FifoOnce asks for. *)
LEMMA DataImpliesFifo == TypeOK /\ RingInv /\ DataInv => FifoOnce
<1> SUFFICES ASSUME TypeOK, RingInv, DataInv PROVE FifoOnce
  OBVIOUS
<1>1. \A r \in removed : r.pos < Len(claimed)
  BY SMTT(30) DEF TypeOK, RingInv, CellsInv, DataInv, RemovedInv
<1>2. QED BY Zenon, <1>1 DEF DataInv, RemovedInv, FifoOnce

(* DataInv accounts for every position push() has claimed. *)
LEMMA DataImpliesNothingLost == TypeOK /\ RingInv /\ DataInv => NothingLost
<1> SUFFICES ASSUME TypeOK, RingInv, DataInv, NEW n \in 0..Len(claimed)-1
             PROVE  \/ \E p \in Producers : pc[p] = "emplace" /\ pos[p] = n
                    \/ data[Idx(n)] = claimed[n + 1]
                    \/ \E r \in removed : r.pos = n
  BY SMTT(30) DEF NothingLost
<1>1. CASE n \in 0..dequeue_pos-1
  BY SMTT(30), <1>1 DEF DataInv, RemovedInv, PayloadInv
<1>2. CASE n \in dequeue_pos..enqueue_pos-1
  BY Zenon, <1>2 DEF DataInv, ReadyCells, PayloadInv, Producing, Threads
<1>3. QED BY <1>1, <1>2 DEF TypeOK, DataInv

(* The three invariants hold in every reachable state. *)
LEMMA AllInvariants ==
  Cells >= 2 => (Spec => [](TypeOK /\ RingInv /\ DataInv))
<1> SUFFICES ASSUME Cells >= 2 PROVE Spec => [](TypeOK /\ RingInv /\ DataInv)
  OBVIOUS
<1>1. Init => TypeOK /\ RingInv /\ DataInv
  BY Zenon, TypeInit, RingInit, DataInit
<1>2. TypeOK /\ RingInv /\ DataInv /\ [Next]_vars =>
        TypeOK' /\ RingInv' /\ DataInv'
  BY Zenon, TypeStep, RingStep, DataStep
<1>3. QED BY <1>1, <1>2, PTL DEF Spec

(* Every item leaves the ring in the order of the positions push() claimed,
   and once, whether try_pop() or evict_one() takes it. *)
THEOREM RingIsFifo == Cells >= 2 => (Spec => []FifoOnce)
<1> SUFFICES ASSUME Cells >= 2 PROVE Spec => []FifoOnce
  OBVIOUS
<1>1. Spec => [](TypeOK /\ RingInv /\ DataInv)
  BY Zenon, AllInvariants
<1>2. QED BY <1>1, DataImpliesFifo, PTL

(* No item push() has claimed a position for is overwritten or forgotten. *)
THEOREM RingLosesNothing == Cells >= 2 => (Spec => []NothingLost)
<1> SUFFICES ASSUME Cells >= 2 PROVE Spec => []NothingLost
  OBVIOUS
<1>1. Spec => [](TypeOK /\ RingInv /\ DataInv)
  BY Zenon, AllInvariants
<1>2. QED BY <1>1, DataImpliesNothingLost, PTL

(* The cells' sequences, the cursors, the threads inside the ring and the payloads
   always agree, for every number of threads and cells. *)
THEOREM RingStaysConsistent == Cells >= 2 => (Spec => []RingDataInv)
<1> SUFFICES ASSUME Cells >= 2 PROVE Spec => []RingDataInv
  OBVIOUS
<1>1. Spec => [](TypeOK /\ RingInv /\ DataInv)
  BY AllInvariants
<1>2. QED BY <1>1, PTL DEF RingDataInv

-----------------------------------------------------------------------------
(* What a cell says about positions that were taken out: its sequence has gone past
   them, and a cell that has not been handed on yet has a thread working on it.
   Sequences never fall below where the constructor set them. *)
EmptiedInv ==
  /\ \A i \in 0..Cells-1 : seq[i] >= i
  /\ \A m \in 0..dequeue_pos-1 :
       /\ seq[Idx(m)] > m
       /\ seq[Idx(m)] = m + 1 => \E t \in Threads : Removing(t) /\ pos[t] = m

(* Steps that leave the cells and dequeue_pos_ alone, and no remover behind. *)
LEMMA QuietEmptied ==
  ASSUME EmptiedInv, UNCHANGED <<seq, dequeue_pos>>,
         \A t \in Threads : Removing(t) => Removing(t)' /\ pos'[t] = pos[t]
  PROVE  EmptiedInv'
BY SMTT(30) DEF EmptiedInv

(* A position's cell number is at most the position. *)
LEMMA IdxBelow ==
  ASSUME NEW n \in Nat
  PROVE  Idx(n) <= n
<1>1. CASE n < Cells
  BY <1>1, IdxSmall, CellsAssumption
<1>2. CASE n >= Cells
  BY <1>2, IdxType, CellsAssumption
<1>3. QED BY <1>1, <1>2, CellsAssumption

LEMMA EmptiedStep ==
  ASSUME Cells >= 2, TypeOK, RingInv, EmptiedInv, [Next]_vars
  PROVE  EmptiedInv'
<1> DEFINE e == enqueue_pos
           d == dequeue_pos
<1> USE DEF cells, control, history
<1>0. /\ Cells \in Nat /\ e \in Nat /\ d \in Nat /\ d <= e
      /\ pos \in [Threads -> Nat] /\ pc \in [Threads -> Locations]
      /\ \A n \in Nat : Idx(n) \in 0..Cells-1
      /\ seq \in [0..Cells-1 -> Nat]
      /\ \A u \in Threads : ThreadInv(u) /\ pos[u] \in Nat
      /\ Producers \subseteq Threads /\ Consumers \subseteq Threads
  BY ZenonT(30), CellsAssumption, IdxType DEF TypeOK, RingInv, CellsInv, Threads
<1>a. Cells \in Nat /\ e \in Nat /\ d \in Nat /\ d <= e
  BY <1>0
<1>b. \A n \in Nat : Idx(n) \in 0..Cells-1
  BY ZenonT(30), <1>0
<1>c. Producers \subseteq Threads /\ Consumers \subseteq Threads
  BY ZenonT(30), <1>0
<1>1. ASSUME NEW t \in Threads, UNCHANGED <<seq, dequeue_pos>>,
             Removing(t) => (pc'[t] = "free" /\ pos'[t] = pos[t]),
             \A u \in Threads : u # t => pc'[u] = pc[u] /\ pos'[u] = pos[u]
      PROVE  EmptiedInv'
  BY ZenonT(30), <1>1, QuietEmptied DEF Removing
<1>2. ASSUME NEW p \in Producers, PushPublish(p) PROVE EmptiedInv'
  <2> DEFINE n == pos[p]
  <2>0. \A u \in Threads : Removing(u) => Removing(u)' /\ pos'[u] = pos[u]
    BY ZenonT(30), <1>0, <1>2 DEF PushPublish, Goto, Removing
  <2>1. /\ seq' = [seq EXCEPT ![Idx(n)] = n + 1] /\ d' = d /\ n \in Nat /\ d <= n
        /\ Idx(n) \in 0..Cells-1 /\ Idx(n) <= n
    <3>1. Idx(n) <= n
      BY <1>0, IdxBelow
    <3>2. Producing(p) /\ seq' = [seq EXCEPT ![Idx(n)] = n + 1] /\ d' = d
      BY <1>2 DEF PushPublish, Goto, Producing
    <3>3. d <= n
      BY <1>0, <3>2 DEF ThreadInv
    <3>4. QED BY <1>0, <3>1, <3>2, <3>3
  <2>2. \A i \in 0..Cells-1 : seq'[i] >= i
    BY <1>0, <2>1 DEF EmptiedInv
  <2>3. ASSUME NEW m \in 0..d'-1
        PROVE  /\ seq'[Idx(m)] > m
               /\ seq'[Idx(m)] = m + 1 => \E u \in Threads : Removing(u)' /\ pos'[u] = m
    <3>1. m \in Nat /\ m < n /\ Idx(m) \in 0..Cells-1 /\ m \in 0..d-1
      <4>1. m \in Nat /\ m \in 0..d-1 /\ m < n
        BY <1>a, <2>1
      <4>2. QED BY <1>b, <4>1
    <3>2. CASE Idx(m) = Idx(n)
      <4>1. seq'[Idx(m)] = n + 1
        BY <1>0, <2>1, <3>2
      <4>2. n + 1 > m /\ n + 1 # m + 1
        BY <2>1, <3>1
      <4>3. QED BY <4>1, <4>2
    <3>3. CASE Idx(m) # Idx(n)
      <4>1. seq'[Idx(m)] = seq[Idx(m)]
        BY SMTT(30), <1>0, <2>1, <3>1, <3>3
      <4>2. QED BY ZenonT(30), <2>0, <3>1, <4>1 DEF EmptiedInv
    <3>4. QED BY <3>2, <3>3
  <2>4. QED BY <2>2, <2>3 DEF EmptiedInv
<1>3. ASSUME NEW t \in Threads, FrontFree(t) PROVE EmptiedInv'
  <2> DEFINE n == pos[t]
  <2>0. \A u \in Threads : u # t => pc'[u] = pc[u] /\ pos'[u] = pos[u]
    BY ZenonT(30), <1>0, <1>3 DEF FrontFree, Goto
  <2>1. /\ seq' = [seq EXCEPT ![Idx(n)] = n + Cells] /\ d' = d /\ n \in Nat
        /\ n < d /\ e <= n + Cells /\ Idx(n) \in 0..Cells-1 /\ Idx(n) <= n
    <3>1. Idx(n) <= n
      BY <1>0, IdxBelow
    <3>2. Removing(t) /\ seq' = [seq EXCEPT ![Idx(n)] = n + Cells] /\ d' = d
      BY <1>3 DEF FrontFree, Goto, Removing, NextRound
    <3>3. n < d /\ e <= n + Cells
      BY <1>0, <3>2 DEF ThreadInv
    <3>4. QED BY <1>0, <3>1, <3>2, <3>3
  <2>2. \A i \in 0..Cells-1 : seq'[i] >= i
    BY SMTT(30), <1>0, <2>1 DEF EmptiedInv
  <2>3. ASSUME NEW m \in 0..d'-1
        PROVE  /\ seq'[Idx(m)] > m
               /\ seq'[Idx(m)] = m + 1 => \E u \in Threads : Removing(u)' /\ pos'[u] = m
    <3>1. m \in Nat /\ Idx(m) \in 0..Cells-1 /\ m \in 0..d-1
      <4>1. m \in Nat /\ m \in 0..d-1
        BY <1>a, <2>1
      <4>2. QED BY <1>b, <4>1
    <3>2. CASE Idx(m) = Idx(n)
      <4>1. m <= n
        <5>1. n < m => n + Cells <= m
          BY <2>1, <3>1, <3>2, IdxApart
        <5>2. QED BY <1>a, <2>1, <3>1, <5>1
      <4>2. seq'[Idx(m)] = n + Cells
        BY <1>0, <2>1, <3>2
      <4>3. n + Cells > m /\ n + Cells # m + 1
        BY <1>a, <2>1, <3>1, <4>1
      <4>4. QED BY <4>2, <4>3
    <3>3. CASE Idx(m) # Idx(n)
      <4>1. seq'[Idx(m)] = seq[Idx(m)]
        BY <1>0, <2>1, <3>1, <3>3
      <4>2. \A u \in Threads : pos[u] = m => u # t
        BY <3>3
      <4>3. QED BY ZenonT(30), <2>0, <3>1, <4>1, <4>2 DEF EmptiedInv, Removing
    <3>4. QED BY <3>2, <3>3
  <2>4. QED BY <2>2, <2>3 DEF EmptiedInv
<1>4. ASSUME NEW t \in Threads, FrontCas(t) PROVE EmptiedInv'
  <2>1. CASE dequeue_pos = pos[t] /\ pc'[t] = "take"
    <3>1. /\ pc[t] \in {"pop_cas", "ev_cas"} /\ d' = d + 1 /\ seq' = seq
          /\ pos' = pos /\ pc' = [pc EXCEPT ![t] = "take"]
      BY ZenonT(30), <1>0, <1>4, <2>1 DEF FrontCas, CasMatches, Goto
    <3>2. seq[Idx(d)] = d + 1
      BY <1>0, <2>1, <3>1 DEF ThreadInv
    <3>3. \A u \in Threads : Removing(u) => Removing(u)'
      BY <1>0, <3>1 DEF Removing
    <3>4. Removing(t)' /\ pos'[t] = d
      BY <1>0, <2>1, <3>1 DEF Removing
    <3>5. ASSUME NEW m \in 0..d'-1
          PROVE  /\ seq'[Idx(m)] > m
                 /\ seq'[Idx(m)] = m + 1 => \E u \in Threads : Removing(u)' /\ pos'[u] = m
      <4>1. m \in 0..d-1 \/ m = d
        BY <1>0, <3>1
      <4>2. CASE m \in 0..d-1
        BY ZenonT(30), <3>1, <3>3, <4>2 DEF EmptiedInv
      <4>3. CASE m = d
        <5>1. seq'[Idx(m)] = m + 1 /\ m + 1 > m
          BY <1>a, <3>1, <3>2, <4>3
        <5>2. QED BY <3>4, <4>3, <5>1
      <4>4. QED BY <4>1, <4>2, <4>3
    <3>6. QED BY <3>1, <3>5 DEF EmptiedInv
  <2>2. CASE ~(dequeue_pos = pos[t] /\ pc'[t] = "take")
    BY ZenonT(30), <1>0, <1>1, <1>4, <2>2 DEF FrontCas, CasMatches, Goto, Removing
  <2>3. QED BY <2>1, <2>2
<1>5. ASSUME NEW p \in Producers,
             PushCall(p) \/ PushLoadPos(p) \/ PushLoadSeq(p) \/ PushCas(p) \/ PushEmplace(p)
               \/ PushSignal(p)
      PROVE  EmptiedInv'
  <2>1. UNCHANGED <<seq, dequeue_pos>> /\ ~Removing(p)
    BY ZenonT(30), <1>5
       DEF PushCall, PushLoadPos, PushLoadSeq, PushCas, PushEmplace, PushSignal, Goto, Removing
  <2>2. \A u \in Threads : u # p => pc'[u] = pc[u] /\ pos'[u] = pos[u]
    BY ZenonT(30), <1>0, <1>5
       DEF PushCall, PushLoadPos, PushLoadSeq, PushCas, PushEmplace, PushSignal, Goto
  <2>3. p \in Threads /\ UNCHANGED <<seq, dequeue_pos>>
    BY <1>c, <2>1
  <2>4. Removing(p) => (pc'[p] = "free" /\ pos'[p] = pos[p])
    BY <2>1
  <2>5. QED BY <1>1, <2>2, <2>3, <2>4
<1>6. ASSUME NEW t \in Threads,
             FrontLoadPos(t) \/ FrontLoadSeq(t) \/ FrontTake(t) \/ SpuriousCasFailure(t)
      PROVE  EmptiedInv'
  <2>1. UNCHANGED <<seq, dequeue_pos>>
    BY ZenonT(30), <1>6 DEF FrontLoadPos, FrontLoadSeq, FrontTake, SpuriousCasFailure
  <2>2. \A u \in Threads : u # t => pc'[u] = pc[u] /\ pos'[u] = pos[u]
    BY ZenonT(30), <1>0, <1>6
       DEF FrontLoadPos, FrontLoadSeq, FrontTake, SpuriousCasFailure, Goto
  <2>3. Removing(t) => (pc'[t] = "free" /\ pos'[t] = pos[t])
    <3>1. CASE FrontTake(t)
      BY <1>0, <3>1 DEF FrontTake, Goto
    <3>2. CASE FrontLoadPos(t)
      <4>1. pc[t] \in {"pop_load", "ev_load"}
        BY <3>2 DEF FrontLoadPos, Goto
      <4>2. QED BY <4>1 DEF Removing
    <3>5. CASE SpuriousCasFailure(t)
      BY SMTT(30), <3>5 DEF SpuriousCasFailure, Goto, Removing
    <3>3. CASE FrontLoadSeq(t)
      BY <3>3 DEF FrontLoadSeq, Goto, Removing
    <3>4. QED BY <1>6, <3>1, <3>2, <3>3, <3>5
  <2>4. QED BY <1>1, <2>1, <2>2, <2>3
<1>7. ASSUME NEW c \in Consumers,
             PopCall(c) \/ WaitCheckStop(c) \/ WaitAcquire(c) \/ WaitTimeout(c)
      PROVE  EmptiedInv'
  <2> USE DEF PopCall, WaitCheckStop, WaitAcquire, WaitTimeout, Goto
  <2>1. UNCHANGED <<seq, dequeue_pos>> /\ ~Removing(c)
    BY ZenonT(30), <1>7 DEF Removing
  <2>2. \A u \in Threads : u # c => pc'[u] = pc[u] /\ pos'[u] = pos[u]
    BY ZenonT(30), <1>0, <1>7
  <2>3. c \in Threads /\ UNCHANGED <<seq, dequeue_pos>>
    BY <1>c, <2>1
  <2>4. Removing(c) => (pc'[c] = "free" /\ pos'[c] = pos[c])
    BY <2>1
  <2>5. QED BY <1>1, <2>2, <2>3, <2>4
<1>8. ASSUME Stop \/ UNCHANGED vars PROVE EmptiedInv'
  BY ZenonT(30), <1>8, QuietEmptied DEF Stop, vars, Removing
<1>9. ASSUME NEW t \in Threads, RemovalStep(t) PROVE EmptiedInv'
  BY <1>3, <1>4, <1>6, <1>9 DEF RemovalStep
<1>10. ASSUME NEW p \in Producers, PushCall(p) \/ ProducerStep(p) PROVE EmptiedInv'
  BY <1>0, <1>2, <1>5, <1>9, <1>10 DEF ProducerStep
<1>11. ASSUME NEW c \in Consumers, PopCall(c) \/ ConsumerStep(c) PROVE EmptiedInv'
  BY <1>0, <1>7, <1>9, <1>11 DEF ConsumerStep
<1>12. QED BY <1>6, <1>8, <1>10, <1>11 DEF Next

(* push() finds a cell behind its position only if the ring is full or the cell is
   still being emptied. *)
LEMMA BehindMeansInUse ==
  ASSUME Cells >= 2, TypeOK, RingInv, EmptiedInv, NEW p \in Producers,
         pc[p] = "enq_seq", PushDiff(pos[p]) < 0
  PROVE  \/ dequeue_pos <= pos[p] - Cells
         \/ \E t \in Threads : Removing(t) /\ pos[t] = pos[p] - Cells
<1> DEFINE n == pos[p]
           e == enqueue_pos
           d == dequeue_pos
<1>1. /\ Cells \in Nat /\ e \in Nat /\ d \in Nat /\ n \in Nat /\ n <= e
      /\ Idx(n) \in 0..Cells-1 /\ seq[Idx(n)] \in Nat /\ seq[Idx(n)] < n
  <2>1. p \in Threads
    BY DEF Threads
  <2>2. /\ Cells \in Nat /\ e \in Nat /\ d \in Nat /\ n \in Nat /\ Idx(n) \in 0..Cells-1
    BY <2>1, CellsAssumption, IdxType DEF TypeOK
  <2>3. seq[Idx(n)] \in Nat /\ n <= e
    BY SMTT(30), <2>1, <2>2 DEF TypeOK, RingInv, ThreadInv
  <2>4. QED BY <2>2, <2>3 DEF PushDiff
<1>2. n >= d
  BY <1>1 DEF EmptiedInv
<1>3. CASE n < d + Cells
  <2>1. n = e /\ seq[Idx(n)] = n - Cells + 1
    BY <1>1, <1>2, <1>3 DEF RingInv, CellsInv
  <2>2. n >= Cells
    <3>1. CASE n < Cells
      BY <1>1, <3>1, IdxSmall DEF EmptiedInv
    <3>2. QED BY <1>1, <3>1
  <2>3. Idx(n - Cells) = Idx(n) /\ n - Cells \in 0..d-1
    <3>1. n - Cells \in Nat /\ n - Cells + Cells = n
      BY <1>1, <2>2
    <3>2. Idx(n - Cells) = Idx(n)
      BY <3>1, IdxShift
    <3>3. QED BY <1>1, <1>3, <2>2, <3>2
  <2>4. seq[Idx(n - Cells)] = (n - Cells) + 1
    BY <1>1, <2>1, <2>3
  <2>5. QED BY ZenonT(30), <2>3, <2>4 DEF EmptiedInv
<1>4. CASE n >= d + Cells
  BY SMTT(30), <1>1, <1>4
<1>5. QED BY <1>1, <1>3, <1>4

(* The one step that ends push()'s look at a cell with a drop or an eviction is the
   comparison of the cell's sequence. *)
LEMMA OnlyTheComparisonDrops ==
  ASSUME TypeOK, [Next]_vars, NEW p \in Producers,
         pc[p] = "enq_seq", pc'[p] \in {"idle", "ev_load"}
  PROVE  PushDiff(pos[p]) < 0
<1>0. /\ pc \in [Threads -> Locations] /\ p \in Threads /\ pc'[p] # pc[p]
      /\ Producers \subseteq Threads /\ Consumers \subseteq Threads /\ p \notin Consumers
  BY ThreadsAssumption DEF TypeOK, Threads
<1> DEFINE Other == \E t \in Threads : t # p /\ \E from, to : Goto(t, from, to)
           Away  == \E from \in Locations \ {"enq_seq"} : pc[p] = from
<1>1. ~Other
  BY ZenonT(30), <1>0 DEF Goto
<1>2. ASSUME NEW q \in Producers, PushLoadSeq(q) PROVE PushDiff(pos[p]) < 0
  <2>1. q = p
    BY ZenonT(30), <1>0, <1>1, <1>2 DEF PushLoadSeq
  <2>2. QED BY <1>0, <1>2, <2>1 DEF PushLoadSeq, Goto
<1>3. ASSUME NEW q \in Producers,
             PushCall(q) \/ PushLoadPos(q) \/ PushCas(q) \/ PushEmplace(q) \/ PushPublish(q)
               \/ PushSignal(q)
      PROVE  FALSE
  <2>1. \E from, to : from # "enq_seq" /\ Goto(q, from, to)
    BY ZenonT(30), <1>3
       DEF PushCall, PushLoadPos, PushCas, PushEmplace, PushPublish, PushSignal
  <2>2. QED BY ZenonT(30), <1>0, <1>1, <2>1 DEF Goto
<1>4. ASSUME NEW t \in Threads,
             FrontLoadPos(t) \/ FrontCas(t) \/ FrontTake(t) \/ FrontFree(t)
               \/ SpuriousCasFailure(t)
      PROVE  FALSE
  <2>1. \E from, to : from # "enq_seq" /\ Goto(t, from, to)
    BY ZenonT(30), <1>4
       DEF FrontLoadPos, FrontCas, FrontTake, FrontFree, SpuriousCasFailure
  <2>2. QED BY ZenonT(30), <1>0, <1>1, <2>1 DEF Goto
<1>5. ASSUME NEW t \in Threads, FrontLoadSeq(t) PROVE FALSE
  <2>1. \E from, to : from # "enq_seq" /\ Goto(t, from, to)
    BY ZenonT(30), <1>5 DEF FrontLoadSeq
  <2>2. QED BY ZenonT(30), <1>0, <1>1, <2>1 DEF Goto
<1>6. ASSUME NEW c \in Consumers,
             PopCall(c) \/ WaitCheckStop(c) \/ WaitAcquire(c) \/ WaitTimeout(c)
      PROVE  FALSE
  BY ZenonT(30), <1>0, <1>1, <1>6 DEF PopCall, WaitCheckStop, WaitAcquire, WaitTimeout
<1>7. ASSUME Stop \/ UNCHANGED vars PROVE FALSE
  BY ZenonT(30), <1>0, <1>7 DEF Stop, vars
<1>8. ASSUME NEW t \in Threads, RemovalStep(t) PROVE FALSE
  BY SMTT(30), <1>4, <1>5, <1>8 DEF RemovalStep
<1>9. ASSUME NEW q \in Producers, PushCall(q) \/ ProducerStep(q) PROVE PushDiff(pos[p]) < 0
  BY ZenonT(30), <1>0, <1>2, <1>3, <1>8, <1>9 DEF ProducerStep
<1>10. ASSUME NEW c \in Consumers, PopCall(c) \/ ConsumerStep(c) PROVE FALSE
  BY <1>0, <1>6, <1>8, <1>10 DEF ConsumerStep
<1>11. QED BY <1>4, <1>7, <1>9, <1>10 DEF Next

LEMMA EmptiedInit ==
  Init => EmptiedInv
BY CellsAssumption DEF Init, EmptiedInv

(* push() drops an item, or evicts one, only when the cell it needs still holds an
   item of the round before or is being emptied, for every number of threads and
   cells. *)
THEOREM DropsAreHonest == Cells >= 2 => (Spec => DropsOnlyWhenCellInUse)
<1> SUFFICES ASSUME Cells >= 2 PROVE Spec => DropsOnlyWhenCellInUse
  OBVIOUS
<1> DEFINE Honest ==
      \A p \in Producers :
        pc[p] = "enq_seq" /\ pc'[p] \in {"idle", "ev_load"} =>
          \/ dequeue_pos <= pos[p] - Cells
          \/ \E t \in Threads : Removing(t) /\ pos[t] = pos[p] - Cells
<1>1. Spec => [](TypeOK /\ RingInv /\ DataInv)
  BY AllInvariants
<1>2. Init => EmptiedInv
  BY EmptiedInit
<1>3. TypeOK /\ RingInv /\ DataInv /\ EmptiedInv /\ [Next]_vars => EmptiedInv'
  BY EmptiedStep
<1>4. TypeOK /\ RingInv /\ DataInv /\ EmptiedInv /\ [Next]_vars => [Honest]_vars
  <2> SUFFICES ASSUME TypeOK, RingInv, EmptiedInv, [Next]_vars, NEW p \in Producers,
                      pc[p] = "enq_seq", pc'[p] \in {"idle", "ev_load"}
               PROVE  \/ dequeue_pos <= pos[p] - Cells
                      \/ \E t \in Threads : Removing(t) /\ pos[t] = pos[p] - Cells
    OBVIOUS
  <2>1. PushDiff(pos[p]) < 0
    BY OnlyTheComparisonDrops
  <2>2. QED BY <2>1, BehindMeansInUse
<1>5. QED BY <1>1, <1>2, <1>3, <1>4, PTL DEF Spec, DropsOnlyWhenCellInUse

-----------------------------------------------------------------------------
(* Nobody is left waiting for an item that is there *)

(* Between claiming a position and releasing the semaphore, and between a try_pop()
   that found nothing and the end of the wait for a permit. *)
Delivering(t) == pc[t] \in {"emplace", "publish", "signal"}
Parking(t) == pc[t] \in {"check_stop", "acquire"}

(* Whoever parks while the queue holds an item is about to be woken: a permit is
   there, or a push() has yet to release one.  It is what NoStrandedItem needs to
   be inductive: the consumer decides to park some steps before it does. *)
ParkedInv ==
  (\E c \in Consumers : Parking(c)) /\ dequeue_pos < enqueue_pos =>
    sem > 0 \/ \E p \in Producers : Delivering(p)

(* A step of one thread that claims nothing, takes no permit, parks nobody and
   leaves no push() before its release. *)
LEMMA QuietParked ==
  ASSUME TypeOK, TypeOK', ParkedInv, NEW t \in Threads,
         enqueue_pos' = enqueue_pos, dequeue_pos' >= dequeue_pos, sem' >= sem,
         \A u \in Threads : u # t => pc'[u] = pc[u],
         Delivering(t) => Delivering(t)', Parking(t)' => Parking(t)
  PROVE  ParkedInv'
<1>1. /\ Producers \subseteq Threads /\ Consumers \subseteq Threads
      /\ dequeue_pos' < enqueue_pos' => dequeue_pos < enqueue_pos
      /\ sem > 0 => sem' > 0
  BY DEF TypeOK, Threads
<1>2. \A u \in Threads : (Delivering(u) => Delivering(u)') /\ (Parking(u)' => Parking(u))
  BY ZenonT(30) DEF Delivering, Parking
<1>3. QED BY ZenonT(30), <1>1, <1>2 DEF ParkedInv

(* try_pop() reports an empty queue only if it is empty or the producer of its front
   item has yet to publish it. *)
LEMMA EmptyMeansDelivering ==
  ASSUME Cells >= 2, TypeOK, RingInv, DataInv, EmptiedInv, NEW t \in Threads,
         pc[t] = "pop_seq", FrontDiff(pos[t]) < 0, dequeue_pos < enqueue_pos
  PROVE  \E p \in Producers : Delivering(p)
<1> DEFINE n == pos[t]
           d == dequeue_pos
           e == enqueue_pos
<1>1. n \in Nat /\ d \in Nat /\ e \in Nat /\ Idx(n) \in 0..Cells-1 /\ seq[Idx(n)] \in Nat
  <2>1. n \in Nat /\ d \in Nat /\ e \in Nat
    BY DEF TypeOK
  <2>2. Idx(n) \in 0..Cells-1
    BY SMTT(30), <2>1, IdxType
  <2>3. QED BY <2>1, <2>2 DEF TypeOK
<1>2. n <= d
  BY DEF RingInv, ThreadInv
<1>3. seq[Idx(n)] < n + 1
  BY <1>1 DEF FrontDiff
<1>4. n = d
  <2>1. n < d => n \in 0..d-1
    BY <1>1
  <2>2. n < d => seq[Idx(n)] > n
    BY <2>1 DEF EmptiedInv
  <2>3. QED BY <1>1, <1>2, <1>3, <2>2
<1>5. n \in d..e-1 /\ seq[Idx(n)] # n + 1
  BY <1>1, <1>3, <1>4
<1>6. QED BY ZenonT(30), <1>5 DEF DataInv, ReadyCells, Producing, Delivering

LEMMA ParkedStep ==
  ASSUME Cells >= 2, NEW only, Consumers = {only},
         TypeOK, TypeOK', RingInv, DataInv, EmptiedInv, ParkedInv, [Next]_vars
  PROVE  ParkedInv'
<1> USE DEF cells, control, history
<1>0. /\ Producers \subseteq Threads /\ Consumers \subseteq Threads
      /\ Producers \cap Consumers = {} /\ pc \in [Threads -> Locations]
  BY ThreadsAssumption DEF TypeOK, Threads
<1>a. /\ dequeue_pos \in Nat /\ enqueue_pos \in Nat /\ sem \in Nat
      /\ dequeue_pos >= dequeue_pos /\ sem >= sem
      /\ dequeue_pos' = dequeue_pos => dequeue_pos' >= dequeue_pos
      /\ sem' = sem => sem' >= sem
  BY DEF TypeOK
<1>1. ASSUME NEW t \in Threads, UNCHANGED <<enqueue_pos, dequeue_pos, sem>>,
             NEW from \in Locations, NEW to \in Locations, Goto(t, from, to),
             from \notin {"emplace", "publish", "signal"} \/ to \in {"publish", "signal"},
             to \notin {"check_stop", "acquire"} \/ from = "check_stop"
      PROVE  ParkedInv'
  <2>1. pc[t] = from /\ pc'[t] = to /\ \A u \in Threads : u # t => pc'[u] = pc[u]
    BY ZenonT(30), <1>0, <1>1 DEF Goto
  <2>2. (Delivering(t) => Delivering(t)') /\ (Parking(t)' => Parking(t))
    BY ZenonT(30), <1>1, <2>1 DEF Delivering, Parking
  <2>3. QED BY ZenonT(30), <1>1, <1>a, <2>1, <2>2, QuietParked
<1>2. ASSUME NEW p \in Producers, PushCas(p) PROVE ParkedInv'
  <2>1. CASE pc'[p] = "emplace"
    BY ZenonT(30), <2>1 DEF ParkedInv, Delivering
  <2>2. CASE pc'[p] # "emplace"
    <3>1. Goto(p, "enq_cas", "enq_load") /\ UNCHANGED <<enqueue_pos, dequeue_pos, sem>>
      BY ZenonT(30), <1>0, <1>2, <2>2 DEF PushCas, Goto
    <3>2. QED BY ZenonT(30), <1>0, <1>1, <3>1 DEF Locations
  <2>3. QED BY <2>1, <2>2
<1>3. ASSUME NEW p \in Producers, PushSignal(p) PROVE ParkedInv'
  <2>1. sem' > 0
    BY <1>3, <1>a DEF PushSignal
  <2>2. QED BY <2>1 DEF ParkedInv
<1>4. ASSUME NEW p \in Producers,
             PushCall(p) \/ PushLoadPos(p) \/ PushLoadSeq(p) \/ PushEmplace(p) \/ PushPublish(p)
      PROVE  ParkedInv'
  <2>1. UNCHANGED <<enqueue_pos, dequeue_pos, sem>>
    BY ZenonT(30), <1>4 DEF PushCall, PushLoadPos, PushLoadSeq, PushEmplace, PushPublish
  <2>2. PICK from \in Locations, to \in Locations :
          /\ Goto(p, from, to)
          /\ from \notin {"emplace", "publish", "signal"} \/ to \in {"publish", "signal"}
          /\ to \notin {"check_stop", "acquire"}
    <3> USE DEF Locations
    <3>1. CASE PushCall(p)
      <4>1. Goto(p, "idle", "idle") \/ Goto(p, "idle", "enq_load")
        BY ZenonT(30), <3>1 DEF PushCall
      <4>2. QED BY ZenonT(30), <4>1
    <3>2. CASE PushLoadPos(p) \/ PushEmplace(p) \/ PushPublish(p)
      BY ZenonT(30), <3>2 DEF PushLoadPos, PushEmplace, PushPublish
    <3>3. CASE PushLoadSeq(p)
      BY ZenonT(30), <3>3 DEF PushLoadSeq
    <3>4. QED BY <1>4, <3>1, <3>2, <3>3
  <2>3. QED BY ZenonT(30), <1>0, <1>1, <2>1, <2>2
<1>5. ASSUME NEW t \in Threads, FrontLoadSeq(t) PROVE ParkedInv'
  <2>0. UNCHANGED <<enqueue_pos, dequeue_pos, sem>>
    BY ZenonT(30), <1>5 DEF FrontLoadSeq
  <2>1. CASE pc'[t] = "check_stop"
    <3>1. pc[t] = "pop_seq" /\ FrontDiff(pos[t]) < 0 /\ pc' = [pc EXCEPT ![t] = "check_stop"]
      BY ZenonT(30), <1>0, <1>5, <2>1 DEF FrontLoadSeq, Goto
    <3>2. \A p \in Producers : Delivering(p) => Delivering(p)'
      BY ZenonT(30), <1>0, <3>1 DEF Delivering
    <3>3. dequeue_pos < enqueue_pos => \E p \in Producers : Delivering(p)
      BY ZenonT(30), <3>1, EmptyMeansDelivering
    <3>4. QED BY ZenonT(30), <2>0, <3>2, <3>3 DEF ParkedInv
  <2>2. CASE pc'[t] # "check_stop"
    <3>1. PICK from \in {"pop_seq", "ev_seq"},
               to \in {"pop_cas", "ev_cas", "pop_load", "ev_load", "enq_load", "idle"} :
            Goto(t, from, to)
      BY ZenonT(30), <1>0, <1>5, <2>2 DEF FrontLoadSeq, Goto
    <3>2. QED BY ZenonT(30), <1>1, <2>0, <3>1 DEF Locations
  <2>3. QED BY <2>1, <2>2
<1>6. ASSUME NEW t \in Threads, FrontCas(t) PROVE ParkedInv'
  <2>1. /\ enqueue_pos' = enqueue_pos /\ sem' = sem
        /\ \A u \in Threads : u # t => pc'[u] = pc[u]
        /\ pc[t] \in {"pop_cas", "ev_cas"} /\ pc'[t] \in {"take", "pop_load", "ev_load"}
    BY ZenonT(30), <1>0, <1>6 DEF FrontCas, Goto
  <2>2. dequeue_pos' >= dequeue_pos
    <3>1. dequeue_pos' = dequeue_pos \/ (dequeue_pos = pos[t] /\ dequeue_pos' = pos[t] + 1)
      BY ZenonT(30), <1>6 DEF FrontCas, CasMatches
    <3>2. QED BY <1>a, <3>1
  <2>3. ~Delivering(t) /\ ~Parking(t)'
    BY <2>1 DEF Delivering, Parking
  <2>4. QED BY ZenonT(30), <1>a, <2>1, <2>2, <2>3, QuietParked
<1>7. ASSUME NEW t \in Threads,
             FrontLoadPos(t) \/ FrontTake(t) \/ FrontFree(t) \/ SpuriousCasFailure(t)
      PROVE  ParkedInv'
  <2>1. UNCHANGED <<enqueue_pos, dequeue_pos, sem>>
    BY ZenonT(30), <1>7 DEF FrontLoadPos, FrontTake, FrontFree, SpuriousCasFailure
  <2>2. PICK from \in Locations \ {"emplace", "publish", "signal"},
             to \in Locations \ {"check_stop", "acquire"} : Goto(t, from, to)
    <3> USE DEF Locations
    <3>1. CASE FrontFree(t)
      <4>1. Goto(t, "free", "enq_load") \/ Goto(t, "free", "idle")
        BY ZenonT(30), <3>1 DEF FrontFree
      <4>2. QED BY ZenonT(30), <4>1
    <3>2. CASE FrontLoadPos(t) \/ FrontTake(t) \/ SpuriousCasFailure(t)
      BY ZenonT(30), <3>2 DEF FrontLoadPos, FrontTake, SpuriousCasFailure
    <3>3. QED BY <1>7, <3>1, <3>2
  <2>3. QED BY ZenonT(30), <1>1, <2>1, <2>2
<1>8. ASSUME NEW c \in Consumers, WaitAcquire(c) \/ WaitTimeout(c) PROVE ParkedInv'
  <2>1. pc'[c] = "pop_load"
    BY ZenonT(30), <1>0, <1>8 DEF WaitAcquire, WaitTimeout, Goto
  <2>2. \A x \in Consumers : x = c
    OBVIOUS
  <2>3. \A x \in Consumers : ~Parking(x)'
    BY <2>1, <2>2 DEF Parking
  <2>4. QED BY ZenonT(30), <2>3 DEF ParkedInv
<1>9. ASSUME NEW c \in Consumers, PopCall(c) \/ WaitCheckStop(c) PROVE ParkedInv'
  <2>1. UNCHANGED <<enqueue_pos, dequeue_pos, sem>>
    BY ZenonT(30), <1>9 DEF PopCall, WaitCheckStop
  <2>2. \/ Goto(c, "idle", "pop_load") \/ Goto(c, "check_stop", "pop_load")
        \/ Goto(c, "check_stop", "acquire")
    BY ZenonT(30), <1>9 DEF PopCall, WaitCheckStop
  <2>3. QED BY ZenonT(30), <1>0, <1>1, <2>1, <2>2 DEF Locations
<1>10. ASSUME Stop \/ UNCHANGED vars PROVE ParkedInv'
  <2>1. UNCHANGED <<enqueue_pos, dequeue_pos, pc>>
    BY ZenonT(30), <1>10 DEF Stop, vars
  <2>2. sem > 0 => sem' > 0
    <3>1. sem' = sem \/ sem' = sem + StopPermits
      BY ZenonT(30), <1>10 DEF Stop, vars
    <3>2. QED BY <1>a, <3>1, BoundsAssumption
  <2>3. QED BY ZenonT(30), <2>1, <2>2 DEF ParkedInv, Delivering, Parking
<1>11. ASSUME NEW t \in Threads, RemovalStep(t) PROVE ParkedInv'
  BY <1>5, <1>6, <1>7, <1>11 DEF RemovalStep
<1>12. ASSUME NEW p \in Producers, PushCall(p) \/ ProducerStep(p) PROVE ParkedInv'
  BY <1>0, <1>2, <1>3, <1>4, <1>11, <1>12 DEF ProducerStep
<1>13. ASSUME NEW c \in Consumers, PopCall(c) \/ ConsumerStep(c) PROVE ParkedInv'
  BY <1>0, <1>8, <1>9, <1>11, <1>13 DEF ConsumerStep
<1>14. QED BY <1>7, <1>10, <1>12, <1>13 DEF Next

(* With one consumer, wait_pop() never sleeps on while the queue holds an item and
   every push() has returned, for every number of producers and cells, under either
   policy and whether or not stop() is called: the permit of a push() is released
   after its item can be seen. *)
THEOREM NoItemIsStranded ==
  ASSUME Cells >= 2, NEW only, Consumers = {only}
  PROVE  Spec => []NoStrandedItem
<1>1. Spec => [](TypeOK /\ RingInv /\ DataInv)
  BY AllInvariants
<1>2. Init => EmptiedInv
  BY EmptiedInit
<1>3. TypeOK /\ RingInv /\ DataInv /\ EmptiedInv /\ [Next]_vars => EmptiedInv'
  BY EmptiedStep
<1>4. Init => ParkedInv
  BY DEF Init, ParkedInv
<1>5. TypeOK /\ TypeOK' /\ RingInv /\ DataInv /\ EmptiedInv /\ ParkedInv /\ [Next]_vars
        => ParkedInv'
  BY ParkedStep
<1>6. TypeOK /\ RingInv /\ ParkedInv => NoStrandedItem
  <2> SUFFICES ASSUME TypeOK, RingInv, ParkedInv,
                      \A t \in Threads : pc[t] \in {"idle", "acquire"},
                      NEW c \in Consumers, pc[c] = "acquire", sem = 0
               PROVE  enqueue_pos = dequeue_pos
    BY DEF NoStrandedItem
  <2>1. \A p \in Producers : ~Delivering(p)
    BY DEF Delivering, Threads
  <2>2. Parking(c)
    BY DEF Parking
  <2>3. ~(dequeue_pos < enqueue_pos)
    BY <2>1, <2>2 DEF ParkedInv
  <2>4. dequeue_pos \in Nat /\ enqueue_pos \in Nat /\ dequeue_pos <= enqueue_pos
    BY DEF TypeOK, RingInv, CellsInv
  <2>5. QED BY <2>3, <2>4
<1>7. QED BY <1>1, <1>2, <1>3, <1>4, <1>5, <1>6, PTL DEF Spec

-----------------------------------------------------------------------------
(* The ring implements the bounded FIFO of module Fifo *)
INSTANCE SequenceTheorems

(* The items of pushes under way are numbered within the bound on calls. *)
CallsInv ==
  \A p \in Producers : calls[p] <= MaxPush /\ (pc[p] # "idle" => calls[p] >= 1)

LEMMA CallsStep ==
  ASSUME TypeOK, CallsInv, [Next]_vars
  PROVE  CallsInv'
<1> USE DEF cells, control, history
<1>0. /\ Producers \subseteq Threads /\ Consumers \subseteq Threads
      /\ Producers \cap Consumers = {}
      /\ pc \in [Threads -> Locations] /\ calls \in [Threads -> Nat] /\ MaxPush \in Nat
  BY ThreadsAssumption, BoundsAssumption DEF TypeOK, Threads
<1>1. ASSUME NEW p \in Producers, PushCall(p) PROVE CallsInv'
  BY SMTT(30), <1>0, <1>1 DEF CallsInv, PushCall, Goto
<1>2. ASSUME NEW t \in Threads, UNCHANGED calls, pc[t] # "idle" \/ t \in Consumers,
             \A u \in Threads : u # t => pc'[u] = pc[u]
      PROVE  CallsInv'
  BY ZenonT(30), <1>0, <1>2 DEF CallsInv
<1>3. ASSUME NEW p \in Producers, ProducerStep(p) PROVE CallsInv'
  <2>1. UNCHANGED calls
    BY ZenonT(30), <1>3
       DEF ProducerStep, RemovalStep, PushLoadPos, PushLoadSeq, PushCas, PushEmplace,
           PushPublish, PushSignal, FrontLoadPos, FrontLoadSeq, FrontCas, FrontTake, FrontFree
  <2>2. PICK from \in Locations \ {"idle"}, to \in Locations : Goto(p, from, to)
    <3> USE DEF Locations
    <3>1. CASE PushLoadPos(p) \/ PushCas(p) \/ PushEmplace(p) \/ PushPublish(p) \/ PushSignal(p)
      BY ZenonT(30), <3>1 DEF PushLoadPos, PushCas, PushEmplace, PushPublish, PushSignal
    <3>2. CASE PushLoadSeq(p)
      BY ZenonT(30), <3>2 DEF PushLoadSeq
    <3>3. CASE FrontLoadPos(p) \/ FrontCas(p) \/ FrontTake(p) \/ FrontFree(p)
      BY ZenonT(30), <1>3, <3>3 DEF FrontLoadPos, FrontCas, FrontTake, FrontFree
    <3>4. CASE FrontLoadSeq(p)
      BY ZenonT(30), <3>4 DEF FrontLoadSeq
    <3>5. QED BY <1>3, <3>1, <3>2, <3>3, <3>4 DEF ProducerStep, RemovalStep
  <2>3. QED BY ZenonT(30), <1>0, <1>2, <2>1, <2>2 DEF Goto
<1>4. ASSUME NEW c \in Consumers, PopCall(c) PROVE CallsInv'
  BY SMTT(30), <1>0, <1>4 DEF CallsInv, PopCall, Goto
<1>5. ASSUME NEW c \in Consumers, ConsumerStep(c) PROVE CallsInv'
  <2>1. UNCHANGED calls
    BY ZenonT(30), <1>5
       DEF ConsumerStep, RemovalStep, WaitCheckStop, WaitAcquire, WaitTimeout,
           FrontLoadPos, FrontLoadSeq, FrontCas, FrontTake, FrontFree
  <2>2. \A u \in Threads : u # c => pc'[u] = pc[u]
    <3>1. CASE RemovalStep(c)
      BY ZenonT(30), <1>0, <3>1
         DEF RemovalStep, FrontLoadPos, FrontLoadSeq, FrontCas, FrontTake, FrontFree, Goto
    <3>2. CASE WaitCheckStop(c) \/ WaitAcquire(c) \/ WaitTimeout(c)
      BY ZenonT(30), <1>0, <3>2 DEF WaitCheckStop, WaitAcquire, WaitTimeout, Goto
    <3>3. QED BY <1>5, <3>1, <3>2 DEF ConsumerStep
  <2>3. QED BY <1>0, <1>2, <2>1, <2>2
<1>6. ASSUME NEW t \in Threads, SpuriousCasFailure(t) PROVE CallsInv'
  BY ZenonT(30), <1>0, <1>2, <1>6 DEF SpuriousCasFailure, Goto
<1>7. CASE Stop \/ UNCHANGED vars
  BY ZenonT(30), <1>7 DEF CallsInv, Stop, vars
<1>8. QED
  BY <1>1, <1>3, <1>4, <1>5, <1>6, <1>7 DEF Next

LEMMA CallsInit == Init => CallsInv
BY BoundsAssumption DEF Init, CallsInv, Threads

-----------------------------------------------------------------------------
(* What a won compare-exchange does to the part of the history that is in the
   queue. *)
LEMMA AppendToWindow ==
  ASSUME NEW S, NEW s \in Seq(S), NEW x \in S, NEW d \in 0..Len(s)
  PROVE  SubSeq(Append(s, x), d + 1, Len(s) + 1) = Append(SubSeq(s, d + 1, Len(s)), x)
<1> DEFINE n == Len(s)
           t == Append(s, x)
           a == SubSeq(t, d + 1, n + 1)
           b == SubSeq(s, d + 1, n)
<1>1. /\ n \in Nat /\ t \in Seq(S) /\ Len(t) = n + 1
      /\ \A i \in 1..n : t[i] = s[i]
      /\ t[n + 1] = x
  BY AppendProperties
<1>2. /\ a \in Seq(S) /\ Len(a) = n + 1 - d
      /\ \A i \in 1..(n + 1 - d) : a[i] = t[d + i]
  BY SMTT(30), <1>1 
<1>3. /\ b \in Seq(S) /\ Len(b) = n - d
      /\ \A i \in 1..(n - d) : b[i] = s[d + i]
  BY SMTT(30), <1>1
<1>4. /\ Append(b, x) \in Seq(S) /\ Len(Append(b, x)) = n + 1 - d
      /\ \A i \in 1..(n - d) : Append(b, x)[i] = b[i]
      /\ Append(b, x)[n + 1 - d] = x
  BY <1>1, <1>3, AppendProperties
<1>5. \A i \in 1..(n + 1 - d) : a[i] = Append(b, x)[i]
  <2> TAKE i \in 1..(n + 1 - d)
  <2>1. CASE i \in 1..(n - d)
    BY <1>1, <1>2, <1>3, <1>4, <2>1
  <2>2. CASE i = n + 1 - d
    BY <1>1, <1>2, <1>4, <2>2
  <2>3. QED BY <1>1, <2>1, <2>2
<1>6. QED BY ZenonT(30), <1>2, <1>4, <1>5, SeqEqual

LEMMA DropFromWindow ==
  ASSUME NEW S, NEW s \in Seq(S), NEW d \in 0..(Len(s) - 1)
  PROVE  /\ SubSeq(s, d + 1, Len(s)) # <<>>
         /\ SubSeq(s, d + 2, Len(s)) = Tail(SubSeq(s, d + 1, Len(s)))
<1>1. Len(s) \in Nat
  OBVIOUS
<1>2. d + 1 \in 1..Len(s) /\ Len(s) \in (d + 1)..Len(s) /\ d + 1 + 1 = d + 2
  BY <1>1
<1>3. Tail(SubSeq(s, d + 1, Len(s))) = SubSeq(s, d + 2, Len(s))
  BY <1>2, HeadTailOfSubSeq
<1>4. Len(SubSeq(s, d + 1, Len(s))) > 0
  BY <1>1, <1>2
<1>5. ASSUME NEW w, Len(w) > 0 PROVE w # <<>>
  BY <1>5
<1>6. QED BY ZenonT(30), <1>3, <1>4, <1>5

(* Every step of the ring puts an item into the queue, takes the oldest one out,
   or leaves the queue as it is. *)
LEMMA FifoStep ==
  ASSUME TypeOK, RingInv, DataInv, CallsInv, TypeOK', RingInv', DataInv', [Next]_vars
  PROVE  [Ring!Next]_(SubSeq(claimed, dequeue_pos + 1, enqueue_pos))
<1> DEFINE e == enqueue_pos
           d == dequeue_pos
           q == SubSeq(claimed, d + 1, e)
           FifoOrStutter ==
             \/ q' = q
             \/ q # <<>> /\ q' = Tail(q)
             \/ \E x \in Producers \X (1..MaxPush) : Len(q) < Cells /\ q' = Append(q, x)
<1> USE DEF cells, control, history
<1>0. /\ Cells \in Nat /\ e \in Nat /\ d \in Nat /\ e' \in Nat /\ d' \in Nat
      /\ claimed \in Seq(Items) /\ Len(claimed) = e /\ Len(claimed') = e'
      /\ d <= e /\ d' <= e' /\ e' <= d' + Cells
      /\ Producers \subseteq Threads /\ MaxPush \in Nat
      /\ calls \in [Threads -> Nat]
  BY ZenonT(30), CellsAssumption, BoundsAssumption DEF TypeOK, RingInv, CellsInv, DataInv, Threads
<1>1. ASSUME NEW p \in Producers, PushCas(p), ~UNCHANGED enqueue_pos
      PROVE  \E x \in Producers \X (1..MaxPush) : Len(q) < Cells /\ q' = Append(q, x)
  <2>1. /\ e' = e + 1 /\ d' = d /\ claimed' = Append(claimed, Item(p)) /\ pc[p] # "idle"
    BY ZenonT(30), <1>1 DEF PushCas, CasMatches, Goto
  <2>2. Item(p) \in Items /\ Item(p) \in Producers \X (1..MaxPush)
    BY <1>0, <2>1 DEF CallsInv, Item, Items
  <2>3. q' = Append(q, Item(p))
    <3>1. d \in 0..Len(claimed)
      BY <1>0
    <3>2. SubSeq(Append(claimed, Item(p)), d + 1, Len(claimed) + 1)
            = Append(SubSeq(claimed, d + 1, Len(claimed)), Item(p))
      BY ZenonT(30), <1>0, <2>2, <3>1, AppendToWindow
    <3>3. QED BY ZenonT(30), <1>0, <2>1, <3>2
  <2>4. Len(q) = e - d
    BY <1>0, SMTT(30)
  <2>5. Len(q) < Cells
    BY <1>0, <2>1, <2>4
  <2>6. QED BY ZenonT(30), <2>2, <2>3, <2>5
<1>2. ASSUME NEW t \in Threads, FrontCas(t), ~UNCHANGED dequeue_pos
      PROVE  q # <<>> /\ q' = Tail(q)
  <2>1. d' = d + 1 /\ e' = e /\ claimed' = claimed
    BY ZenonT(30), <1>2 DEF FrontCas, CasMatches
  <2>2. d \in 0..(Len(claimed) - 1) /\ d + 1 + 1 = d + 2 /\ e = Len(claimed)
    BY <1>0, <2>1
  <2>3. SubSeq(claimed, d + 1, e) # <<>> /\ SubSeq(claimed, d + 2, e) = Tail(q)
    BY ZenonT(30), <1>0, <2>2, DropFromWindow
  <2>4. QED BY <2>1, <2>2, <2>3
<1>3. ASSUME UNCHANGED <<claimed, enqueue_pos, dequeue_pos>> PROVE FifoOrStutter
  BY <1>3
<1>4. ASSUME NEW p \in Producers, PushCas(p) PROVE FifoOrStutter
  <2>1. CASE UNCHANGED enqueue_pos
    <3>1. UNCHANGED <<claimed, dequeue_pos>>
      BY SMTT(30), <1>0, <1>4, <2>1 DEF PushCas, CasMatches
    <3>2. QED BY <1>3, <2>1, <3>1
  <2>2. CASE ~UNCHANGED enqueue_pos
    BY ZenonT(30), <1>1, <1>4, <2>2
  <2>3. QED BY ZenonT(30), <2>1, <2>2
<1>5. ASSUME NEW t \in Threads, FrontCas(t) PROVE FifoOrStutter
  <2>1. CASE UNCHANGED dequeue_pos
    BY <1>3, <1>5, <2>1 DEF FrontCas
  <2>2. CASE ~UNCHANGED dequeue_pos
    BY ZenonT(30), <1>2, <1>5, <2>2
  <2>3. QED BY ZenonT(30), <2>1, <2>2
<1> HIDE DEF FifoOrStutter
<1>6. ASSUME NEW p \in Producers,
             PushCall(p) \/ PushLoadPos(p) \/ PushLoadSeq(p) \/ PushEmplace(p)
               \/ PushPublish(p) \/ PushSignal(p)
      PROVE  FifoOrStutter
  BY ZenonT(30), <1>3, <1>6
     DEF PushCall, PushLoadPos, PushLoadSeq, PushEmplace, PushPublish, PushSignal
<1>7. ASSUME NEW t \in Threads,
             FrontLoadPos(t) \/ FrontLoadSeq(t) \/ FrontTake(t) \/ FrontFree(t)
               \/ SpuriousCasFailure(t)
      PROVE  FifoOrStutter
  BY ZenonT(30), <1>3, <1>7
     DEF FrontLoadPos, FrontLoadSeq, FrontTake, FrontFree, SpuriousCasFailure
<1>8. ASSUME NEW c \in Consumers,
             PopCall(c) \/ WaitCheckStop(c) \/ WaitAcquire(c) \/ WaitTimeout(c)
      PROVE  FifoOrStutter
  BY ZenonT(30), <1>3, <1>8 DEF PopCall, WaitCheckStop, WaitAcquire, WaitTimeout
<1>9. ASSUME Stop \/ UNCHANGED vars PROVE FifoOrStutter
  BY ZenonT(30), <1>3, <1>9 DEF Stop, vars
<1>10. FifoOrStutter
  <2>1. Producers \subseteq Threads /\ Consumers \subseteq Threads
    BY DEF Threads
  <2>2. ASSUME NEW t \in Threads, RemovalStep(t) PROVE FifoOrStutter
    BY <1>5, <1>7, <2>2 DEF RemovalStep
  <2>3. ASSUME NEW p \in Producers, PushCall(p) \/ ProducerStep(p) PROVE FifoOrStutter
    BY <1>4, <1>6, <2>1, <2>2, <2>3 DEF ProducerStep
  <2>4. ASSUME NEW c \in Consumers, PopCall(c) \/ ConsumerStep(c) PROVE FifoOrStutter
    BY <1>8, <2>1, <2>2, <2>4 DEF ConsumerStep
  <2>5. QED BY <1>7, <1>9, <2>3, <2>4 DEF Next
<1>11. QED BY ZenonT(30), <1>10 DEF FifoOrStutter, Ring!Next, Ring!Put, Ring!Take

(* The ring implements the bounded FIFO with room for as many items as it has
   cells, for every number of threads and cells (two or more), under both policies:
   an item enters at the compare-exchange of push() and leaves at the one of
   try_pop() or evict_one(). *)
THEOREM RingImplementsFifo == Cells >= 2 => (Spec => ImplementsFifo)
<1> SUFFICES ASSUME Cells >= 2 PROVE Spec => ImplementsFifo
  OBVIOUS
<1> DEFINE q == SubSeq(claimed, dequeue_pos + 1, enqueue_pos)
<1>1. Init => Ring!Init
  <2>1. SubSeq(<<>>, 1, 0) = <<>>
    BY SubSeqEmpty
  <2>2. QED BY <2>1 DEF Init, Ring!Init
<1>2. Spec => [](TypeOK /\ RingInv /\ DataInv)
  BY AllInvariants
<1>3. Spec => [](TypeOK /\ CallsInv)
  BY TypeInit, TypeStep, CallsInit, CallsStep, PTL DEF Spec
<1>4. /\ TypeOK /\ RingInv /\ DataInv /\ CallsInv
      /\ TypeOK' /\ RingInv' /\ DataInv' /\ [Next]_vars
      => [Ring!Next]_q
  BY ZenonT(30), FifoStep
<1>5. QED BY <1>1, <1>2, <1>3, <1>4, PTL DEF Spec, ImplementsFifo, Ring!Spec

=============================================================================
