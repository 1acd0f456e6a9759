----------------------------- MODULE PoolProofs -----------------------------
(***************************************************************************)
(* The two pools, for every value of their constants.  The thread pool     *)
(* loses no task, runs none twice, and its wait_empty() returns only when  *)
(* everything accepted has run.  The memory pool counts references rightly *)
(* and loses no block, whatever threads copy, drop and grow at once.       *)
(***************************************************************************)
EXTENDS MemoryPool, ThreadPool, TLAPS

(* What the proofs use of finite sets.  It is a theorem, proved where the conclusions
   are drawn, at the end of the module, which is where the library comes in: before
   that its theorems would be in the way of every proof. *)
CardFacts ==
  /\ Cardinality({}) = 0 /\ IsFiniteSet({})
  /\ \A x : Cardinality({x}) = 1
  /\ \A S : IsFiniteSet(S) => Cardinality(S) \in Nat /\ (Cardinality(S) = 0 <=> S = {})
  /\ \A S, T : IsFiniteSet(S) /\ T \subseteq S => IsFiniteSet(T)
  /\ \A S, x : IsFiniteSet(S) => IsFiniteSet(S \cup {x})
  /\ \A S, x : IsFiniteSet(S) /\ x \notin S => Cardinality(S \cup {x}) = Cardinality(S) + 1
  /\ \A S, x : IsFiniteSet(S) /\ x \in S => Cardinality(S \ {x}) = Cardinality(S) - 1

-----------------------------------------------------------------------------
(* The thread pool *)

(* Where a task is: at a place in the queue, with a worker, or done. *)
Queued(k) == \E i \in 1..Len(tasks) : tasks[i] = k
Held(k) == \E w \in Workers : worker[w] = "run" /\ running[w] = k
Busy == {w \in Workers : worker[w] \in {"run", "done"}}

(* Each task has at most one of these places, and has one exactly if enqueue() gave
   out a valid future for it. *)
PlacesInv ==
  /\ \A i, j \in 1..Len(tasks) : tasks[i] = tasks[j] => i = j
  /\ \A v, w \in Workers :
       worker[v] = "run" /\ worker[w] = "run" /\ running[v] = running[w] => v = w
  /\ \A k \in Tasks : executed[k] \in {0, 1}
  /\ \A k \in Tasks : ~(Queued(k) /\ Held(k))
  /\ \A k \in Tasks : executed[k] = 1 => ~Queued(k) /\ ~Held(k)
  /\ \A k \in Tasks : k \in accepted <=> Queued(k) \/ Held(k) \/ executed[k] = 1
  /\ \A w \in Workers : worker[w] = "run" => running[w] \in Tasks
  /\ \A k \in accepted : k[2] <= sent[k[1]]

(* outstanding is what is queued and what a worker has not counted down. *)
CountInv == outstanding = Len(tasks) + Cardinality(Busy)

-----------------------------------------------------------------------------
LEMMA BusyFinite ==
  ASSUME CardFacts, WorkersAssumption
  PROVE  IsFiniteSet(Busy) /\ Cardinality(Busy) \in Nat
<1>1. Busy \subseteq Workers
  BY Zenon DEF Busy
<1>2. QED BY Zenon, <1>1 DEF CardFacts, WorkersAssumption

LEMMA PoolAtStart ==
  ASSUME CardFacts, WorkersAssumption, Init
  PROVE  TypeOK /\ PlacesInv /\ CountInv
<1>1. tasks \in Seq(Tasks) /\ Len(tasks) = 0
  BY DEF Init
<1>2. TypeOK
  <2>1. sent \in [Submitters -> 0..MaxTasks] /\ executed \in [Tasks -> Nat]
    BY DEF Init, WorkersAssumption
  <2>2. running \in [Workers -> Tasks \cup {<<>>}]
    BY DEF Init
  <2>3. QED BY ZenonT(30), <1>1, <2>1, <2>2 DEF Init, TypeOK
<1>3. PlacesInv
  BY <1>1 DEF Init, PlacesInv, Queued, Held
<1>4. Busy = {}
  BY DEF Init, Busy
<1>5. CountInv
  <2>1. Cardinality(Busy) = 0
    BY Zenon, <1>4 DEF CardFacts
  <2>2. QED BY <1>1, <2>1 DEF Init, CountInv
<1>6. QED BY <1>2, <1>3, <1>5

LEMMA TypeStep ==
  ASSUME CardFacts, WorkersAssumption, TypeOK, PlacesInv, CountInv, [Next]_vars
  PROVE  TypeOK'
<1> USE DEF WorkersAssumption
<1>1. ASSUME NEW s \in Submitters, Enqueue(s) PROVE TypeOK'
  <2> DEFINE k == <<s, sent[s] + 1>>
  <2>1. k \in Tasks /\ sent' \in [Submitters -> 0..MaxTasks]
    BY <1>1 DEF Enqueue, TypeOK, Tasks
  <2>2. CASE stop
    BY <1>1, <2>1, <2>2 DEF Enqueue, TypeOK
  <2>3. CASE ~stop
    <3>0. /\ tasks' = Append(tasks, k) /\ outstanding' = outstanding + 1
          /\ submitter' = [submitter EXCEPT ![s] = "notify"] /\ accepted' = accepted \cup {k}
          /\ UNCHANGED <<stop, idlers, drainers, worker, running, waiter, stopper, executed>>
      BY ZenonT(30), <1>1, <2>3 DEF Enqueue, Counted
    <3>1. tasks' \in Seq(Tasks)
      BY <2>1, <3>0 DEF TypeOK
    <3>2. outstanding' \in Nat
      BY <3>0 DEF TypeOK
    <3>3. QED BY ZenonT(30), <2>1, <3>0, <3>1, <3>2 DEF TypeOK
  <2>4. QED BY <2>2, <2>3
<1>2. ASSUME NEW s \in Submitters, NotifyWorker(s) PROVE TypeOK'
  BY <1>2 DEF NotifyWorker, AfterNotifyOne, TypeOK
<1>3. ASSUME NEW w \in Workers, WorkerTake(w) PROVE TypeOK'
  <2>1. CASE tasks' = Popped /\ tasks # <<>>
    <3>1. tasks' \in Seq(Tasks) /\ Head(tasks) \in Tasks
      BY <2>1 DEF Popped, TypeOK
    <3>2. QED BY ZenonT(30), <1>3, <2>1, <3>1 DEF WorkerTake, TypeOK
  <2>2. CASE UNCHANGED <<tasks, running>>
    BY ZenonT(30), <1>3, <2>2 DEF WorkerTake, TypeOK
  <2>3. QED BY <1>3, <2>1, <2>2 DEF WorkerTake
<1>4. ASSUME NEW w \in Workers, WorkerRun(w) PROVE TypeOK'
  BY <1>4 DEF WorkerRun, TypeOK, PlacesInv
<1>5. ASSUME NEW w \in Workers, WorkerDone(w) PROVE TypeOK'
  <2>1. Cardinality(Busy) # 0
    <3>1. w \in Busy
      BY <1>5 DEF WorkerDone, Busy
    <3>2. QED BY Zenon, <3>1, BusyFinite DEF CardFacts
  <2>2. outstanding' \in Nat
    <3>1. Len(tasks) \in Nat /\ Cardinality(Busy) \in Nat
      BY BusyFinite DEF TypeOK
    <3>2. QED BY <1>5, <2>1, <3>1 DEF WorkerDone, CountInv
  <2>3. QED BY <1>5, <2>2 DEF WorkerDone, TypeOK
<1>6. ASSUME NEW w \in Workers, WorkerNotify(w) PROVE TypeOK'
  BY <1>6 DEF WorkerNotify, AfterNotifyAll, TypeOK
<1>7. ASSUME NEW x \in Waiters, WaitEmpty(x) PROVE TypeOK'
  BY ZenonT(30), <1>7 DEF WaitEmpty, TypeOK
<1>8. ASSUME NEW t \in Workers \cup Waiters, SpuriousWakeup(t) PROVE TypeOK'
  BY <1>8 DEF SpuriousWakeup, TypeOK
<1>9. CASE StopPool
  BY ZenonT(30), <1>9 DEF StopPool, StopWakes, AfterNotifyAll, TypeOK
<1>10. CASE UNCHANGED vars
  BY <1>10 DEF vars, TypeOK
<1>11. QED BY <1>1, <1>2, <1>3, <1>4, <1>5, <1>6, <1>7, <1>8, <1>9, <1>10 DEF Next, WorkerStep

-----------------------------------------------------------------------------
(* The places of the tasks *)

(* The worker of a step that takes and finishes no task. *)
LEMMA QuietPlaces ==
  ASSUME PlacesInv, UNCHANGED <<tasks, running, executed, accepted, sent>>,
         \A w \in Workers : worker'[w] = "run" <=> worker[w] = "run"
  PROVE  PlacesInv'
<1>1. \A k : Queued(k)' <=> Queued(k)
  BY DEF Queued
<1>2. \A k : Held(k)' <=> Held(k)
  BY DEF Held
<1>3. QED BY <1>1, <1>2 DEF PlacesInv

LEMMA EnqueuePlaces ==
  ASSUME WorkersAssumption, TypeOK, PlacesInv, NEW s \in Submitters, Enqueue(s)
  PROVE  PlacesInv'
<1> DEFINE k == <<s, sent[s] + 1>>
<1>0. /\ k \in Tasks /\ sent \in [Submitters -> 0..MaxTasks] /\ MaxTasks \in Nat
      /\ sent' = [sent EXCEPT ![s] = @ + 1] /\ accepted \subseteq Tasks
      /\ UNCHANGED <<worker, running, executed>>
  BY DEF Enqueue, TypeOK, Tasks, WorkersAssumption
<1>1. \A j \in accepted : j[2] <= sent'[j[1]]
  BY SMTT(30), <1>0 DEF PlacesInv, Tasks
<1>2. CASE stop
  <2>1. UNCHANGED <<tasks, accepted>>
    BY <1>2 DEF Enqueue
  <2>2. \A j : (Queued(j)' <=> Queued(j)) /\ (Held(j)' <=> Held(j))
    BY <1>0, <2>1 DEF Queued, Held
  <2>3. QED BY <1>0, <1>1, <2>1, <2>2 DEF PlacesInv
<1>3. CASE ~stop
  <2>1. tasks' = Append(tasks, k) /\ accepted' = accepted \cup {k}
    BY ZenonT(30), <1>3 DEF Enqueue
  <2>2. k \notin accepted
    BY <1>0 DEF PlacesInv
  <2>3. ~Queued(k) /\ ~Held(k) /\ executed[k] = 0
    BY <1>0, <2>2 DEF PlacesInv
  <2>4. /\ tasks \in Seq(Tasks) /\ Len(tasks) \in Nat /\ Len(tasks') = Len(tasks) + 1
        /\ tasks'[Len(tasks) + 1] = k
        /\ \A i \in 1..Len(tasks) : tasks'[i] = tasks[i]
    BY <1>0, <2>1 DEF TypeOK
  <2>5. \A i, j \in 1..Len(tasks') : tasks'[i] = tasks'[j] => i = j
    BY SMTT(30), <2>3, <2>4 DEF PlacesInv, Queued
  <2>6. \A j : Queued(j)' <=> Queued(j) \/ j = k
    <3>1. ASSUME NEW j, Queued(j)' PROVE Queued(j) \/ j = k
      <4>1. PICK i \in 1..Len(tasks') : tasks'[i] = j
        BY <3>1 DEF Queued
      <4>2. i \in 1..Len(tasks) \/ i = Len(tasks) + 1
        BY <2>4, <4>1
      <4>3. QED BY ZenonT(30), <2>4, <4>1, <4>2 DEF Queued
    <3>2. ASSUME NEW j, Queued(j) \/ j = k PROVE Queued(j)'
      <4>1. 1..Len(tasks) \subseteq 1..Len(tasks') /\ Len(tasks) + 1 \in 1..Len(tasks')
        BY <2>4
      <4>2. QED BY <2>4, <3>2, <4>1 DEF Queued
    <3>3. QED BY <3>1, <3>2
  <2>7. \A j : Held(j)' <=> Held(j)
    BY <1>0 DEF Held
  <2>8. k[2] <= sent'[k[1]]
    BY <1>0
  <2>9. \A j \in accepted' : j[2] <= sent'[j[1]]
    BY <1>1, <2>1, <2>8
  <2>10. \A j \in Tasks : j \in accepted' <=> Queued(j)' \/ Held(j)' \/ executed'[j] = 1
    BY <1>0, <2>1, <2>6, <2>7 DEF PlacesInv
  <2>11. \A j \in Tasks : ~(Queued(j)' /\ Held(j)')
    BY <2>3, <2>6, <2>7 DEF PlacesInv
  <2>12. \A j \in Tasks : executed'[j] = 1 => ~Queued(j)' /\ ~Held(j)'
    BY <1>0, <2>3, <2>6, <2>7 DEF PlacesInv
  <2>13. QED BY <1>0, <2>5, <2>9, <2>10, <2>11, <2>12 DEF PlacesInv
<1>4. QED BY <1>2, <1>3

LEMMA TakePlaces ==
  ASSUME TypeOK, PlacesInv, NEW w \in Workers, WorkerTake(w)
  PROVE  PlacesInv'
<1>0. worker \in [Workers -> {"loop", "run", "done", "notify", "exit"}] /\ worker[w] = "loop"
  BY DEF TypeOK, WorkerTake
<1>1. CASE UNCHANGED <<tasks, running>> /\ worker'[w] # "run"
  <2>1. \A v \in Workers : worker'[v] = "run" <=> worker[v] = "run"
    BY <1>0, <1>1 DEF WorkerTake
  <2>2. QED BY <1>1, <2>1, QuietPlaces DEF WorkerTake
<1>2. CASE tasks # <<>> /\ tasks' = Popped /\ running' = [running EXCEPT ![w] = Head(tasks)]
           /\ worker' = [worker EXCEPT ![w] = "run"]
  <2> DEFINE h == Head(tasks)
  <2>1. /\ tasks \in Seq(Tasks) /\ Len(tasks) \in Nat /\ Len(tasks) > 0 /\ h = tasks[1]
        /\ h \in Tasks /\ Len(tasks') = Len(tasks) - 1
        /\ \A i \in 1..Len(tasks') : tasks'[i] = tasks[i + 1]
    BY SMTT(30), <1>2 DEF TypeOK, Popped
  <2>2. Queued(h)
    BY <2>1 DEF Queued
  <2>3. ~Held(h) /\ executed[h] = 0
    BY <2>1, <2>2 DEF PlacesInv
  <2>4. \A i, j \in 1..Len(tasks') : tasks'[i] = tasks'[j] => i = j
    BY SMTT(30), <2>1 DEF PlacesInv
  <2>5. \A j : Queued(j)' <=> Queued(j) /\ j # h
    <3>1. ASSUME NEW j, Queued(j)' PROVE Queued(j) /\ j # h
      <4>1. PICK i \in 1..Len(tasks') : tasks'[i] = j
        BY <3>1 DEF Queued
      <4>2. tasks[i + 1] = j /\ i + 1 \in 1..Len(tasks) /\ i + 1 # 1
        BY <2>1, <4>1
      <4>3. QED BY <2>1, <4>2 DEF Queued, PlacesInv
    <3>2. ASSUME NEW j, Queued(j), j # h PROVE Queued(j)'
      <4>1. PICK i \in 1..Len(tasks) : tasks[i] = j
        BY <3>2 DEF Queued
      <4>2. i - 1 \in 1..Len(tasks') /\ (i - 1) + 1 = i
        BY <2>1, <3>2, <4>1
      <4>3. tasks'[i - 1] = j
        BY <2>1, <4>1, <4>2
      <4>4. QED BY <4>2, <4>3 DEF Queued
    <3>3. QED BY <3>1, <3>2
  <2>6. /\ UNCHANGED <<executed, accepted, sent>> /\ running'[w] = h /\ worker'[w] = "run"
        /\ \A v \in Workers : v # w => worker'[v] = worker[v] /\ running'[v] = running[v]
    BY <1>0, <1>2 DEF WorkerTake, TypeOK
  <2>7. \A j : Held(j)' <=> Held(j) \/ j = h
    BY <1>0, <2>6 DEF Held
  <2>8. \A u, v \in Workers :
          worker'[u] = "run" /\ worker'[v] = "run" /\ running'[u] = running'[v] => u = v
    BY <1>0, <2>3, <2>6 DEF PlacesInv, Held
  <2>9. \A v \in Workers : worker'[v] = "run" => running'[v] \in Tasks
    BY <2>1, <2>6 DEF PlacesInv
  <2>10. QED BY <2>1, <2>2, <2>3, <2>4, <2>5, <2>6, <2>7, <2>8, <2>9 DEF PlacesInv
<1>3. QED BY <1>0, <1>1, <1>2 DEF WorkerTake

LEMMA RunPlaces ==
  ASSUME TypeOK, PlacesInv, NEW w \in Workers, WorkerRun(w)
  PROVE  PlacesInv'
<1> DEFINE k == running[w]
<1>1. /\ worker \in [Workers -> {"loop", "run", "done", "notify", "exit"}] /\ worker[w] = "run"
      /\ worker' = [worker EXCEPT ![w] = "done"] /\ k \in Tasks /\ executed \in [Tasks -> Nat]
      /\ executed' = [executed EXCEPT ![k] = @ + 1]
      /\ UNCHANGED <<tasks, running, accepted, sent>>
  BY DEF TypeOK, WorkerRun, PlacesInv
<1>2. Held(k) /\ ~Queued(k) /\ executed[k] = 0
  BY <1>1 DEF Held, PlacesInv
<1>3. executed'[k] = 1 /\ \A j \in Tasks : j # k => executed'[j] = executed[j]
  BY <1>1, <1>2
<1>4. \A j : Held(j)' <=> Held(j) /\ j # k
  BY <1>1 DEF Held, PlacesInv
<1>5. \A j : Queued(j)' <=> Queued(j)
  BY <1>1 DEF Queued
<1>6. \A v \in Workers : worker'[v] = "run" => worker[v] = "run"
  BY <1>1
<1>7. QED BY <1>1, <1>2, <1>3, <1>4, <1>5, <1>6 DEF PlacesInv

LEMMA PlacesStep ==
  ASSUME WorkersAssumption, TypeOK, PlacesInv, [Next]_vars
  PROVE  PlacesInv'
<1>1. ASSUME NEW s \in Submitters, NotifyWorker(s) PROVE PlacesInv'
  BY <1>1, QuietPlaces DEF NotifyWorker
<1>2. ASSUME NEW w \in Workers, WorkerDone(w) \/ WorkerNotify(w) PROVE PlacesInv'
  <2>1. \A v \in Workers : worker'[v] = "run" <=> worker[v] = "run"
    BY <1>2 DEF WorkerDone, WorkerNotify, TypeOK
  <2>2. QED BY <1>2, <2>1, QuietPlaces DEF WorkerDone, WorkerNotify
<1>3. ASSUME NEW x, WaitEmpty(x) \/ SpuriousWakeup(x) PROVE PlacesInv'
  BY <1>3, QuietPlaces DEF WaitEmpty, SpuriousWakeup
<1>4. CASE StopPool \/ UNCHANGED vars
  BY <1>4, QuietPlaces DEF StopPool, vars
<1>5. QED BY <1>1, <1>2, <1>3, <1>4, EnqueuePlaces, TakePlaces, RunPlaces DEF Next, WorkerStep

LEMMA CountStep ==
  ASSUME CardFacts, WorkersAssumption, TypeOK, CountInv, [Next]_vars
  PROVE  CountInv'
<1>0. /\ worker \in [Workers -> {"loop", "run", "done", "notify", "exit"}]
      /\ tasks \in Seq(Tasks) /\ Len(tasks) \in Nat /\ outstanding \in Nat
      /\ IsFiniteSet(Busy) /\ Cardinality(Busy) \in Nat
  BY BusyFinite DEF TypeOK
<1>1. ASSUME UNCHANGED <<tasks, outstanding>>, Busy' = Busy PROVE CountInv'
  BY <1>1 DEF CountInv
<1>2. ASSUME NEW s \in Submitters, Enqueue(s) PROVE CountInv'
  <2>1. Busy' = Busy
    BY <1>2 DEF Enqueue, Busy
  <2>2. CASE stop
    BY <1>1, <1>2, <2>1, <2>2 DEF Enqueue
  <2>3. CASE ~stop
    <3>1. outstanding' = outstanding + 1
      BY <1>2, <2>3 DEF Enqueue, Counted
    <3>2. PICK k : tasks' = Append(tasks, k)
      BY ZenonT(30), <1>2, <2>3 DEF Enqueue
    <3>3. Len(tasks') = Len(tasks) + 1
      BY <1>0, <3>2
    <3>4. QED BY <1>0, <2>1, <3>1, <3>3 DEF CountInv
  <2>4. QED BY <2>2, <2>3
<1>3. ASSUME NEW w \in Workers, WorkerTake(w) PROVE CountInv'
  <2>1. worker[w] = "loop" /\ w \notin Busy /\ UNCHANGED outstanding
    BY <1>3 DEF WorkerTake, Busy
  <2>2. CASE tasks' = tasks /\ (worker' = worker \/ worker' = [worker EXCEPT ![w] = "exit"])
    <3>1. Busy' = Busy
      BY <1>0, <2>1, <2>2 DEF Busy
    <3>2. QED BY <1>1, <2>1, <2>2, <3>1
  <2>3. CASE tasks # <<>> /\ tasks' = Popped /\ worker' = [worker EXCEPT ![w] = "run"]
    <3>1. Busy' = Busy \cup {w}
      BY <1>0, <2>1, <2>3 DEF Busy
    <3>2. Cardinality(Busy') = Cardinality(Busy) + 1
      BY ZenonT(30), <1>0, <2>1, <3>1 DEF CardFacts
    <3>3. Len(tasks') = Len(tasks) - 1
      BY <1>0, <2>3 DEF Popped
    <3>4. QED BY <1>0, <2>1, <3>2, <3>3 DEF CountInv
  <2>4. QED BY <1>3, <2>2, <2>3 DEF WorkerTake
<1>4. ASSUME NEW w \in Workers, WorkerRun(w) \/ WorkerNotify(w) PROVE CountInv'
  <2>1. Busy' = Busy
    BY <1>0, <1>4 DEF WorkerRun, WorkerNotify, Busy
  <2>2. QED BY <1>1, <1>4, <2>1 DEF WorkerRun, WorkerNotify
<1>5. ASSUME NEW w \in Workers, WorkerDone(w) PROVE CountInv'
  <2>1. w \in Busy /\ Busy' = Busy \ {w} /\ outstanding' = outstanding - 1 /\ tasks' = tasks
    BY <1>0, <1>5 DEF WorkerDone, Busy
  <2>2. Cardinality(Busy') = Cardinality(Busy) - 1
    BY ZenonT(30), <1>0, <2>1 DEF CardFacts
  <2>3. QED BY <1>0, <2>1, <2>2 DEF CountInv
<1>6. ASSUME NEW s, NotifyWorker(s) \/ WaitEmpty(s) \/ SpuriousWakeup(s) PROVE CountInv'
  BY <1>1, <1>6 DEF NotifyWorker, WaitEmpty, SpuriousWakeup, Busy
<1>7. CASE StopPool \/ UNCHANGED vars
  BY <1>1, <1>7 DEF StopPool, vars, Busy
<1>8. QED BY <1>2, <1>3, <1>4, <1>5, <1>6, <1>7 DEF Next, WorkerStep

-----------------------------------------------------------------------------
(* A set with at most one element has as many as it should. *)
LEMMA AtMostOne ==
  ASSUME CardFacts, NEW S, \A x, y \in S : x = y
  PROVE  IsFiniteSet(S) /\ Cardinality(S) = (IF S = {} THEN 0 ELSE 1)
<1>1. CASE S = {}
  BY ZenonT(30), <1>1 DEF CardFacts
<1>2. CASE S # {}
  <2>1. PICK x \in S : S = {x}
    BY <1>2
  <2>2. IsFiniteSet({} \cup {x}) /\ {} \cup {x} = S /\ Cardinality(S) = 1
    BY Zenon, <2>1 DEF CardFacts
  <2>3. QED BY Zenon, <1>2, <2>2
<1>3. QED BY <1>1, <1>2

LEMMA PlacesCount ==
  ASSUME CardFacts, TypeOK, PlacesInv, CountInv
  PROVE  OutstandingCounts
<1>1. ASSUME NEW k \in Tasks
      PROVE  Cardinality({i \in 1..Len(tasks) : tasks[i] = k})
             + Cardinality({w \in Workers : worker[w] = "run" /\ running[w] = k})
             + executed[k] = (IF k \in accepted THEN 1 ELSE 0)
  <2> DEFINE Q == {i \in 1..Len(tasks) : tasks[i] = k}
             H == {w \in Workers : worker[w] = "run" /\ running[w] = k}
  <2>1. Cardinality(Q) = (IF Q = {} THEN 0 ELSE 1)
    <3>1. \A i, j \in Q : i = j
      BY DEF PlacesInv
    <3>2. QED BY ZenonT(30), <3>1, AtMostOne
  <2>2. Cardinality(H) = (IF H = {} THEN 0 ELSE 1)
    <3>1. \A v, w \in H : v = w
      BY DEF PlacesInv
    <3>2. QED BY <3>1, AtMostOne
  <2>3. (Q # {} <=> Queued(k)) /\ (H # {} <=> Held(k))
    BY DEF Queued, Held
  <2> HIDE DEF Q, H
  <2>4. /\ Cardinality(Q) = (IF Queued(k) THEN 1 ELSE 0)
        /\ Cardinality(H) = (IF Held(k) THEN 1 ELSE 0)
    BY <2>1, <2>2, <2>3
  <2>5. Cardinality(Q) + Cardinality(H) + executed[k] = (IF k \in accepted THEN 1 ELSE 0)
    BY <2>4 DEF PlacesInv
  <2>6. QED BY <2>5 DEF Q, H
<1>2. QED BY <1>1 DEF OutstandingCounts, EachTaskOnce, CountInv, Busy

LEMMA DrainedMeansDone ==
  ASSUME CardFacts, WorkersAssumption, TypeOK, PlacesInv, CountInv, outstanding = 0
  PROVE  \A k \in accepted : executed[k] = 1
<1>1. Len(tasks) = 0 /\ Cardinality(Busy) = 0
  BY BusyFinite DEF CountInv, TypeOK
<1>2. Busy = {}
  BY Zenon, <1>1, BusyFinite DEF CardFacts
<1>3. \A k : ~Queued(k) /\ ~Held(k)
  BY <1>1, <1>2 DEF Queued, Held, Busy
<1>4. QED BY <1>3 DEF PlacesInv, TypeOK

LEMMA ReturnsDone ==
  ASSUME CardFacts, WorkersAssumption, TypeOK, PlacesInv, CountInv, [Next]_vars,
         NEW x \in Waiters, waiter[x] # "back", waiter'[x] = "back"
  PROVE  \A k \in accepted : executed[k] = 1
<1>1. waiter' # waiter
  OBVIOUS
<1>2. ASSUME NEW s, Enqueue(s) \/ NotifyWorker(s) \/ WorkerStep(s) \/ SpuriousWakeup(s)
      PROVE  FALSE
  BY ZenonT(30), <1>1, <1>2
     DEF Enqueue, NotifyWorker, WorkerStep, WorkerTake, WorkerRun, WorkerDone, WorkerNotify,
         SpuriousWakeup
<1>3. ~(StopPool \/ UNCHANGED vars)
  BY ZenonT(30), <1>1 DEF StopPool, vars
<1>4. PICK y \in Waiters : WaitEmpty(y)
  BY <1>2, <1>3 DEF Next
<1>5. outstanding = 0
  BY <1>4 DEF WaitEmpty, Drained, TypeOK
<1>6. QED BY <1>5, DrainedMeansDone

-----------------------------------------------------------------------------
(* The memory pool: where its blocks are *)

Cls(b) == header[b].cls
Slot(b) == header[b].slot
Refs(b) == header[b].refcount
Magic(b) == header[b].magic = TRUE

Headers == [cls : Classes \cup {ESCAPED}, slot : Nat, refcount : Nat, magic : BOOLEAN]

PoolTypes ==
  /\ bump \in Nat /\ made \in Nat
  /\ Blocks \subseteq Nat /\ header \in [Blocks -> Headers]
  /\ bins \in [Classes -> Seq(Nat)]
  /\ handle \in [Handles -> Nat \cup {Null}] /\ leaving \in [Handles -> Nat \cup {Null}]
  /\ step \in [Handles -> {"none", "stats", "recycle"}]
  /\ cap \in [Buffers -> Nat]

Filed(b) == b \in Free(Cls(b))

(* What a handle points to is a block, and intact; it points to a block of its own
   if it is a buffer.  A block on its way out has one handle that sees to it, and
   nobody else; one on a free-list is on that of its class, and nowhere else.  No
   block of the arena is in none of these places. *)
PlaceInv ==
  /\ \A h \in Handles : step[h] = "none" <=> leaving[h] = Null
  /\ \A h \in Handles : handle[h] # Null => handle[h] \in Blocks /\ Magic(handle[h])
  /\ \A h \in Handles : leaving[h] # Null => leaving[h] \in Blocks
  /\ \A h, g \in Handles : leaving[h] # Null /\ leaving[h] = leaving[g] => h = g
  /\ \A h, g \in Handles : leaving[h] # Null => handle[g] # leaving[h]
  /\ \A c \in Classes : \A b \in Free(c) :
       b \in Blocks /\ Cls(b) = c /\ \A h \in Handles : handle[h] # b /\ leaving[h] # b
  /\ \A b \in Blocks : Cls(b) # ESCAPED =>
       (\E h \in Handles : handle[h] = b \/ leaving[h] = b) \/ Filed(b)
  /\ \A h \in Buffers : \A g \in Handles :
       handle[h] # Null /\ handle[g] = handle[h] => g = h

(* No block is on a free-list twice. *)
Once(s) == \A i, j \in 1..Len(s) : s[i] = s[j] => i = j
BinsInv == \A c \in Classes : Once(bins[c])

(* Blocks of the arena follow one another below bump; the others have numbers of
   their own. *)
RoomInv ==
  /\ bump <= arena_bytes
  /\ \A b \in Blocks : Cls(b) # ESCAPED =>
       Slot(b) = classes[Cls(b)] /\ b + need(Slot(b)) <= bump
  /\ \A b \in Blocks : Cls(b) = ESCAPED => arena_bytes <= b /\ b < arena_bytes + made
  /\ \A b, d \in Blocks :
       Cls(b) # ESCAPED /\ Cls(d) # ESCAPED /\ b < d => b + need(Slot(b)) <= d

(* A buffer's capacity fits into its block. *)
CapInv ==
  \A h \in Buffers : IF handle[h] = Null THEN cap[h] = 0 ELSE cap[h] <= Slot(handle[h])

(* The sizes of slots. *)
LEMMA RoundedUp ==
  ASSUME NEW n \in Nat
  PROVE  round_up(n) \in Nat /\ n <= round_up(n)
<1> DEFINE q == (n + Align - 1) \div Align
<1>1. Align \in Nat /\ Align > 0
  BY PoolAssumption
<1>2. q \in Nat /\ q * Align <= n + Align - 1 /\ n + Align - 1 < q * Align + Align
  BY <1>1
<1>3. q * Align \in Nat
  BY <1>1, <1>2
<1>4. round_up(n) = q * Align
  BY Zenon DEF round_up
<1> HIDE DEF q
<1>5. QED BY <1>1, <1>2, <1>3, <1>4

LEMMA NeedFits ==
  ASSUME NEW s \in Nat
  PROVE  need(s) \in Nat /\ HeaderSize + s <= need(s)
<1>1. HeaderSize + s \in Nat
  BY PoolAssumption
<1>2. QED BY <1>1, RoundedUp DEF need

LEMMA ClassSizes ==
  /\ \A c \in Classes : classes[c] \in Nat /\ classes[c] > 0
  /\ ESCAPED \notin Classes
BY PoolAssumption DEF Classes, ESCAPED

LEMMA ArenaSize == arena_bytes \in Nat
<1> DEFINE unit == need(classes[Len(classes)])
           count == requested \div unit
<1>1. classes[Len(classes)] \in Nat /\ classes[Len(classes)] > 0
  BY PoolAssumption
<1>2. unit \in Nat /\ HeaderSize + classes[Len(classes)] <= unit
  BY SMTT(30), <1>1, NeedFits
<1>3. unit > 0 /\ requested \in Nat
  BY <1>1, <1>2, PoolAssumption
<1> HIDE DEF unit
<1>4. count \in Nat
  BY <1>2, <1>3
<1> HIDE DEF count
<1>5. count * unit \in Nat
  BY <1>2, <1>4
<1>6. QED BY Zenon, <1>2, <1>5 DEF arena_bytes, unit, count

-----------------------------------------------------------------------------
(* What the steps do to the headers. *)

LEMMA CountChanged ==
  ASSUME PoolTypes, NEW b \in Blocks, NEW n \in Nat,
         header' = [header EXCEPT ![b].refcount = n]
  PROVE  /\ Blocks' = Blocks /\ header' \in [Blocks -> Headers]
         /\ \A x \in Blocks : Cls(x)' = Cls(x) /\ Slot(x)' = Slot(x) /\ (Magic(x) => Magic(x)')
         /\ Refs(b)' = n /\ \A x \in Blocks \ {b} : Refs(x)' = Refs(x)
BY ZenonT(30) DEF PoolTypes, Blocks, Headers, Cls, Slot, Refs, Magic

LEMMA MagicGone ==
  ASSUME PoolTypes, NEW b \in Blocks, header' = [header EXCEPT ![b].magic = FALSE]
  PROVE  /\ Blocks' = Blocks /\ header' \in [Blocks -> Headers]
         /\ \A x \in Blocks : Cls(x)' = Cls(x) /\ Slot(x)' = Slot(x) /\ Refs(x)' = Refs(x)
         /\ \A x \in Blocks \ {b} : (Magic(x) => Magic(x)')
BY ZenonT(30) DEF PoolTypes, Blocks, Headers, Cls, Slot, Refs, Magic

(* A block goes to h, which gives up the one it had. *)
Given(h, b, c, slot) ==
  /\ Blocks' = Blocks \cup {b} /\ header' \in [Blocks' -> Headers]
  /\ Cls(b)' = c /\ Slot(b)' = slot /\ Refs(b)' = 1 /\ Magic(b)'
  /\ \A x \in Blocks \ {b} : Cls(x)' = Cls(x) /\ Slot(x)' = Slot(x) /\ (Magic(x) => Magic(x)')
  /\ \A x \in Blocks \ {b} : Refs(x)' = IF x = handle[h] THEN 0 ELSE Refs(x)

LEMMA HandedOut ==
  ASSUME PoolTypes, NEW h \in Handles, NEW b \in Nat, NEW c \in Classes \cup {ESCAPED},
         NEW slot \in Nat, HandOut(h, b, c, slot), handle[h] # b,
         handle[h] # Null => handle[h] \in Blocks /\ Refs(handle[h]) = 1
  PROVE  Given(h, b, c, slot)
<1> DEFINE new == [cls |-> c, slot |-> slot, refcount |-> 1, magic |-> TRUE]
           old == handle[h]
<1>1. new \in Headers /\ new.cls = c /\ new.slot = slot /\ new.refcount = 1 /\ new.magic = TRUE
  BY DEF Headers
<1>2. header' = [x \in DOMAIN header \cup {b} |->
           CASE x = b -> new
             [] x = old -> [header[x] EXCEPT !.refcount = @ - 1]
             [] OTHER -> header[x]]
  BY Zenon DEF HandOut
<1> HIDE DEF new
<1>3. DOMAIN header' = Blocks \cup {b} /\ header'[b] = new
  BY <1>2 DEF Blocks
<1>4. \A x \in Blocks \ {b} : x # old => header'[x] = header[x]
  BY <1>2 DEF Blocks
<1>5. ASSUME old \in Blocks
      PROVE  header'[old] = [header[old] EXCEPT !.refcount = header[old].refcount - 1]
  BY <1>2, <1>5 DEF Blocks
<1>6. ASSUME old \in Blocks
      PROVE  /\ header'[old] \in Headers /\ header'[old].cls = header[old].cls
             /\ header'[old].slot = header[old].slot
             /\ header'[old].magic = header[old].magic /\ header'[old].refcount = 0
  <2>1. header[old] \in Headers /\ header[old].refcount = 1
    BY ZenonT(30), <1>6, PoolAssumption DEF PoolTypes, Refs
  <2>2. header'[old] = [header[old] EXCEPT !.refcount = 0]
    BY <1>5, <1>6, <2>1
  <2>3. QED BY <2>1, <2>2 DEF Headers
<1>7. \A x \in Blocks : header[x] \in Headers
  BY DEF PoolTypes
<1>8. \A x \in Blocks \cup {b} : header'[x] \in Headers
  BY Zenon, <1>1, <1>3, <1>4, <1>6, <1>7
<1>9. header' \in [Blocks' -> Headers] /\ Blocks' = Blocks \cup {b}
  <2>1. header' = [x \in DOMAIN header' |-> header'[x]]
    BY Zenon, <1>2
  <2>2. QED BY Zenon, <1>3, <1>8, <2>1 DEF Blocks
<1>10. Cls(b)' = c /\ Slot(b)' = slot /\ Refs(b)' = 1 /\ Magic(b)'
  BY Zenon, <1>1, <1>3 DEF Cls, Slot, Refs, Magic
<1>11. ASSUME NEW x \in Blocks \ {b}
       PROVE  /\ Cls(x)' = Cls(x) /\ Slot(x)' = Slot(x) /\ (Magic(x) => Magic(x)')
              /\ Refs(x)' = IF x = old THEN 0 ELSE Refs(x)
  BY Zenon, <1>4, <1>6 DEF Cls, Slot, Refs, Magic
<1>12. QED BY Zenon, <1>9, <1>10, <1>11 DEF Given

-----------------------------------------------------------------------------
(* What the steps do to the places. *)

LEMMA PlaceGiven ==
  ASSUME PoolTypes, PlaceInv, NEW h \in Handles, NEW b \in Nat,
         NEW c \in Classes \cup {ESCAPED}, NEW slot \in Nat, Given(h, b, c, slot),
         step[h] = "none", handle' = [handle EXCEPT ![h] = b],
         \/ handle[h] = Null /\ leaving' = leaving /\ step' = step
         \/ /\ handle[h] # Null /\ h \in Buffers
            /\ leaving' = [leaving EXCEPT ![h] = handle[h]]
            /\ step' = [step EXCEPT ![h] = "stats"],
         \A g \in Handles : handle[g] # b /\ leaving[g] # b,
         \A x \in Classes : Free(x)' = Free(x) \ {b}
  PROVE  PlaceInv'
<1> DEFINE old == handle[h]
<1>1. /\ handle'[h] = b /\ \A g \in Handles : g # h => handle'[g] = handle[g]
      /\ leaving[h] = Null /\ b # Null /\ b # old
  BY PoolAssumption DEF PoolTypes, PlaceInv
<1>2. /\ leaving'[h] = old /\ \A g \in Handles : g # h => leaving'[g] = leaving[g]
      /\ step'[h] = (IF old = Null THEN "none" ELSE "stats")
      /\ \A g \in Handles : g # h => step'[g] = step[g]
  <2>1. CASE old = Null
    BY <1>1, <2>1
  <2>2. CASE old # Null
    BY SMTT(30), <2>2 DEF PoolTypes
  <2>3. QED BY <2>1, <2>2
<1>3. /\ old # Null => old \in Blocks /\ \A g \in Handles : g # h => handle[g] # old
      /\ old # Null => \A g \in Handles : leaving[g] # old
  BY DEF PlaceInv
<1>4. /\ Blocks' = Blocks \cup {b} /\ Cls(b)' = c /\ Magic(b)'
      /\ \A x \in Blocks \ {b} : Cls(x)' = Cls(x) /\ (Magic(x) => Magic(x)')
  BY ZenonT(30) DEF Given
<1> HIDE DEF old
<1>5. \A g \in Handles : (step[g] = "none" <=> leaving[g] = Null)'
  BY <1>1, <1>2 DEF PlaceInv
<1>6. \A g \in Handles : (handle[g] # Null => handle[g] \in Blocks /\ Magic(handle[g]))'
  <2> SUFFICES ASSUME NEW g \in Handles, handle'[g] # Null
               PROVE  handle'[g] \in Blocks' /\ Magic(handle[g])'
    BY Zenon
  <2>1. CASE g = h
    BY <1>1, <1>4, <2>1 DEF Magic
  <2>2. CASE g # h
    <3>1. handle'[g] = handle[g] /\ handle[g] # Null /\ handle[g] # b
      BY Zenon, <1>1, <2>2
    <3>2. handle[g] \in Blocks /\ Magic(handle[g])
      BY Zenon, <3>1 DEF PlaceInv
    <3>3. QED BY <1>4, <3>1, <3>2 DEF Magic
  <2>3. QED BY Zenon, <2>1, <2>2
<1>7. \A g \in Handles : (leaving[g] # Null => leaving[g] \in Blocks)'
  BY ZenonT(30), <1>2, <1>3, <1>4 DEF PlaceInv
<1>8. \A f, g \in Handles : (leaving[f] # Null /\ leaving[f] = leaving[g] => f = g)'
  BY SMTT(30), <1>2, <1>3 DEF PlaceInv
<1>9. \A f, g \in Handles : (leaving[f] # Null => handle[g] # leaving[f])'
  BY <1>1, <1>2, <1>3 DEF PlaceInv
<1>10. \A x \in Classes : \A d \in Free(x)' :
         d \in Blocks' /\ Cls(d)' = x /\ \A g \in Handles : handle'[g] # d /\ leaving'[g] # d
  <2> SUFFICES ASSUME NEW x \in Classes, NEW d \in Free(x)'
               PROVE  /\ d \in Blocks' /\ Cls(d)' = x
                      /\ \A g \in Handles : handle'[g] # d /\ leaving'[g] # d
    OBVIOUS
  <2>1. d \in Free(x) /\ d # b
    BY Zenon
  <2>2. d \in Blocks /\ Cls(d) = x /\ \A g \in Handles : handle[g] # d /\ leaving[g] # d
    BY Zenon, <2>1 DEF PlaceInv
  <2>3. \A g \in Handles : handle'[g] # d /\ leaving'[g] # d
    BY ZenonT(30), <1>1, <1>2, <2>1, <2>2 DEF old
  <2>4. QED BY Zenon, <1>4, <2>1, <2>2, <2>3
<1>11. \A x \in Blocks' : Cls(x)' # ESCAPED =>
         (\E g \in Handles : handle'[g] = x \/ leaving'[g] = x) \/ Filed(x)'
  <2> SUFFICES ASSUME NEW x \in Blocks', Cls(x)' # ESCAPED
               PROVE  (\E g \in Handles : handle'[g] = x \/ leaving'[g] = x)
                      \/ Filed(x)'
    OBVIOUS
  <2>1. CASE x = b
    BY Zenon, <1>1, <2>1
  <2>2. CASE x # b
    <3>1. x \in Blocks /\ Cls(x)' = Cls(x) /\ Cls(x) \in Classes
      <4>1. x \in Blocks /\ Cls(x)' = Cls(x)
        BY Zenon, <1>4, <2>2
      <4>2. QED BY <4>1 DEF PoolTypes, Cls, Headers
    <3>2. (\E g \in Handles : handle[g] = x \/ leaving[g] = x) \/ Filed(x)
      BY Zenon, <3>1 DEF PlaceInv
    <3>3. CASE Filed(x)
      <4>1. PICK k \in Classes : k = Cls(x)
        BY Zenon, <3>1
      <4>2. x \in Free(k)'
        BY Zenon, <2>2, <3>3, <4>1 DEF Filed
      <4>3. QED BY Zenon, <3>1, <4>1, <4>2 DEF Filed, Free
    <3>4. ASSUME NEW g \in Handles, handle[g] = x \/ leaving[g] = x
          PROVE  \E k \in Handles : handle'[k] = x \/ leaving'[k] = x
      <4>1. CASE g # h
        BY Zenon, <1>1, <1>2, <3>4, <4>1
      <4>2. CASE g = h
        <5>1. x # Null
          BY SMTT(30), <3>1, PoolAssumption DEF PoolTypes
        <5>2. x = old
          BY Zenon, <1>1, <3>4, <4>2, <5>1 DEF old
        <5>3. QED BY ZenonT(30), <1>2, <5>2
      <4>3. QED BY Zenon, <4>1, <4>2
    <3>5. QED BY Zenon, <3>2, <3>3, <3>4
  <2>3. QED BY Zenon, <2>1, <2>2
<1>12. \A f \in Buffers : \A g \in Handles :
         (handle[f] # Null /\ handle[g] = handle[f] => g = f)'
  <2>1. Buffers \subseteq Handles
    BY PoolAssumption
  <2>2. QED BY <1>1, <2>1 DEF PlaceInv
<1>13. QED
  BY ZenonT(30), <1>5, <1>6, <1>7, <1>8, <1>9, <1>10, <1>11, <1>12 DEF PlaceInv

(* The steps that make no block. *)
Kept == /\ Blocks' = Blocks
        /\ \A x \in Blocks : Cls(x)' = Cls(x) /\ Slot(x)' = Slot(x)

LEMMA FiledStays ==
  ASSUME PoolTypes, Kept, NEW x \in Blocks, Cls(x) # ESCAPED,
         \A c \in Classes : Free(c) \subseteq Free(c)', Filed(x)
  PROVE  Filed(x)'
<1>1. Cls(x) \in Classes /\ Cls(x)' = Cls(x)
  BY DEF PoolTypes, Cls, Headers, Kept
<1>2. PICK k \in Classes : k = Cls(x)
  BY Zenon, <1>1
<1>3. x \in Free(k)'
  BY Zenon, <1>2 DEF Filed
<1>4. QED BY Zenon, <1>1, <1>2, <1>3 DEF Filed, Free

LEMMA PlaceCopy ==
  ASSUME PoolTypes, PlaceInv, NEW h \in Handles, NEW g \in Handles, Copy(h, g)
  PROVE  PlaceInv'
<1>0. PICK b : b = handle[g]
  OBVIOUS
<1>1. /\ h \notin Buffers /\ g \notin Buffers /\ handle[h] = Null /\ b # Null
      /\ handle' = [handle EXCEPT ![h] = b] /\ header' = [header EXCEPT ![b].refcount = @ + 1]
      /\ leaving' = leaving /\ step' = step /\ bins' = bins
  BY <1>0 DEF Copy
<1>2. b \in Blocks
  BY <1>0, <1>1 DEF PlaceInv
<1>3. Refs(b) + 1 \in Nat /\ header' = [header EXCEPT ![b].refcount = Refs(b) + 1]
  BY <1>1, <1>2 DEF PoolTypes, Headers, Refs
<1>4. Kept /\ \A x \in Blocks : Magic(x) => Magic(x)'
  BY Zenon, <1>2, <1>3, CountChanged DEF Kept
<1>5. handle'[h] = b /\ \A f \in Handles : f # h => handle'[f] = handle[f]
  BY <1>1 DEF PoolTypes
<1>6. \A c \in Classes : Free(c)' = Free(c)
  BY ZenonT(30), <1>1 DEF Free
<1>7. \A f \in Handles : (handle[f] # Null => handle[f] \in Blocks /\ Magic(handle[f]))'
  <2> SUFFICES ASSUME NEW f \in Handles, handle'[f] # Null
               PROVE  handle'[f] \in Blocks' /\ Magic(handle[f])'
    BY Zenon
  <2>1. PICK e \in Handles : handle'[f] = handle[e]
    BY Zenon, <1>5, <1>0
  <2>2. handle[e] \in Blocks /\ Magic(handle[e])
    BY Zenon, <2>1 DEF PlaceInv
  <2>3. QED BY ZenonT(30), <1>4, <2>1, <2>2 DEF Magic, Kept
<1>8. \A f, e \in Handles : (leaving[f] # Null => handle[e] # leaving[f])'
  BY <1>1, <1>5, <1>0 DEF PlaceInv
<1>9. \A c \in Classes : \A d \in Free(c)' :
         d \in Blocks' /\ Cls(d)' = c /\ \A f \in Handles : handle'[f] # d /\ leaving'[f] # d
  <2> SUFFICES ASSUME NEW c \in Classes, NEW d \in Free(c)
               PROVE  /\ d \in Blocks' /\ Cls(d)' = c
                      /\ \A f \in Handles : handle'[f] # d /\ leaving'[f] # d
    BY Zenon, <1>6
  <2>1. d \in Blocks /\ Cls(d) = c /\ \A f \in Handles : handle[f] # d /\ leaving[f] # d
    BY Zenon DEF PlaceInv
  <2>2. QED BY Zenon, <1>1, <1>4, <1>5, <2>1, <1>0 DEF Kept
<1>10. \A x \in Blocks' : Cls(x)' # ESCAPED =>
         (\E f \in Handles : handle'[f] = x \/ leaving'[f] = x) \/ Filed(x)'
  <2> SUFFICES ASSUME NEW x \in Blocks, Cls(x) # ESCAPED
               PROVE  (\E f \in Handles : handle'[f] = x \/ leaving'[f] = x) \/ Filed(x)'
    BY Zenon, <1>4 DEF Kept
  <2>1. Filed(x) => Filed(x)'
    BY Zenon, <1>4, <1>6, FiledStays
  <2>2. ASSUME NEW f \in Handles, handle[f] = x
        PROVE  \E e \in Handles : handle'[e] = x
    <3>1. x # Null
      BY PoolAssumption DEF PoolTypes
    <3>2. QED BY Zenon, <1>1, <1>5, <2>2, <3>1
  <2>3. QED BY Zenon, <1>1, <2>1, <2>2 DEF PlaceInv
<1>11. \A f \in Buffers : \A e \in Handles :
         (handle[f] # Null /\ handle[e] = handle[f] => e = f)'
  <2>1. Buffers \subseteq Handles
    BY PoolAssumption
  <2>2. QED BY <1>1, <1>5, <2>1, <1>0 DEF PlaceInv
<1>12. QED BY Zenon, <1>1, <1>4, <1>7, <1>8, <1>9, <1>10, <1>11 DEF PlaceInv, Kept

LEMMA PlaceMove ==
  ASSUME PoolTypes, PlaceInv, NEW h \in Handles, NEW g \in Handles, h # g, Move(h, g)
  PROVE  PlaceInv'
<1>0. PICK b : b = handle[g]
  OBVIOUS
<1>1. /\ h \in Buffers <=> g \in Buffers
      /\ handle[h] = Null /\ b # Null /\ header' = header
      /\ leaving' = leaving /\ step' = step /\ bins' = bins
  BY <1>0 DEF Move
<1>2. Kept /\ \A x \in Blocks : Magic(x) => Magic(x)'
  BY Zenon, <1>1 DEF Kept, Blocks, Cls, Slot, Magic
<1>3. /\ handle'[h] = b /\ handle'[g] = Null
      /\ \A f \in Handles : f # h /\ f # g => handle'[f] = handle[f]
  BY <1>0 DEF PoolTypes, Move
<1>4. \A c \in Classes : Free(c)' = Free(c)
  BY ZenonT(30), <1>1 DEF Free
<1>5. \A f \in Handles : (handle[f] # Null => handle[f] \in Blocks /\ Magic(handle[f]))'
  <2> SUFFICES ASSUME NEW f \in Handles, handle'[f] # Null
               PROVE  handle'[f] \in Blocks' /\ Magic(handle[f])'
    BY Zenon
  <2>1. PICK e \in Handles : handle'[f] = handle[e]
    BY Zenon, <1>3, <1>0
  <2>2. handle[e] \in Blocks /\ Magic(handle[e])
    BY ZenonT(30), <2>1 DEF PlaceInv
  <2>3. QED BY <1>2, <2>1, <2>2 DEF Magic, Kept
<1>6. \A f, e \in Handles : (leaving[f] # Null => handle[e] # leaving[f])'
  <2>1. \A f, e \in Handles : leaving[f] # Null => handle[e] # leaving[f]
    BY Zenon DEF PlaceInv
  <2>2. \A f \in Handles : handle'[f] = Null \/ \E e \in Handles : handle'[f] = handle[e]
    BY ZenonT(30), <1>3, <1>0
  <2>3. QED BY ZenonT(30), <1>1, <2>1, <2>2
<1>7. \A c \in Classes : \A d \in Free(c)' :
         d \in Blocks' /\ Cls(d)' = c /\ \A f \in Handles : handle'[f] # d /\ leaving'[f] # d
  <2> SUFFICES ASSUME NEW c \in Classes, NEW d \in Free(c)
               PROVE  /\ d \in Blocks' /\ Cls(d)' = c
                      /\ \A f \in Handles : handle'[f] # d /\ leaving'[f] # d
    BY Zenon, <1>4
  <2>1. d \in Blocks /\ Cls(d) = c /\ \A f \in Handles : handle[f] # d /\ leaving[f] # d
    BY Zenon DEF PlaceInv
  <2>2. d # Null
    BY <2>1, PoolAssumption DEF PoolTypes
  <2>3. QED BY Zenon, <1>1, <1>2, <1>3, <2>1, <2>2, <1>0 DEF Kept
<1>8. \A x \in Blocks' : Cls(x)' # ESCAPED =>
         (\E f \in Handles : handle'[f] = x \/ leaving'[f] = x) \/ Filed(x)'
  <2> SUFFICES ASSUME NEW x \in Blocks, Cls(x) # ESCAPED
               PROVE  (\E f \in Handles : handle'[f] = x \/ leaving'[f] = x) \/ Filed(x)'
    BY Zenon, <1>2 DEF Kept
  <2>1. Filed(x) => Filed(x)'
    BY Zenon, <1>2, <1>4, FiledStays
  <2>2. ASSUME NEW f \in Handles, handle[f] = x
        PROVE  \E e \in Handles : handle'[e] = x
    <3>1. x # Null
      BY SMTT(30), PoolAssumption DEF PoolTypes
    <3>2. QED BY Zenon, <1>1, <1>3, <2>2, <3>1, <1>0
  <2>3. QED BY Zenon, <1>1, <2>1, <2>2 DEF PlaceInv
<1>9. \A f \in Buffers : \A e \in Handles :
         (handle[f] # Null /\ handle[e] = handle[f] => e = f)'
  <2>1. Buffers \subseteq Handles
    BY PoolAssumption
  <2>2. \A f \in Buffers : \A e \in Handles :
          handle[f] # Null /\ handle[e] = handle[f] => e = f
    BY Zenon DEF PlaceInv
  <2>3. QED BY ZenonT(30), <1>1, <1>3, <2>1, <2>2, <1>0
<1>10. QED BY Zenon, <1>1, <1>2, <1>5, <1>6, <1>7, <1>8, <1>9 DEF PlaceInv, Kept

(* The count tells whether h is the last handle of its block. *)
LEMMA PlaceRelease ==
  ASSUME PoolTypes, PlaceInv, NEW h \in Handles, Release(h), Refs(handle[h]) > 0,
         Refs(handle[h]) = 1 <=> \A g \in Handles : handle[g] = handle[h] => g = h
  PROVE  PlaceInv' /\ Kept
<1>0. PICK b : b = handle[h]
  OBVIOUS
<1>1. /\ step[h] = "none" /\ b # Null /\ header' = [header EXCEPT ![b].refcount = @ - 1]
      /\ IF Refs(b) = 1
         THEN leaving' = [leaving EXCEPT ![h] = b] /\ step' = [step EXCEPT ![h] = "stats"]
         ELSE leaving' = leaving /\ step' = step
      /\ bins' = bins /\ handle' = [handle EXCEPT ![h] = Null]
  BY <1>0 DEF Release, Refs, Idle
<1>2. b \in Blocks /\ leaving[h] = Null
  BY <1>0, <1>1 DEF PlaceInv
<1>3. Refs(b) - 1 \in Nat /\ header' = [header EXCEPT ![b].refcount = Refs(b) - 1]
  BY <1>0, <1>1, <1>2 DEF PoolTypes, Headers, Refs
<1>4. Kept /\ \A x \in Blocks : Magic(x) => Magic(x)'
  BY Zenon, <1>2, <1>3, CountChanged DEF Kept
<1>5. handle'[h] = Null /\ \A f \in Handles : f # h => handle'[f] = handle[f]
  BY <1>1 DEF PoolTypes
<1>6. /\ leaving'[h] = (IF Refs(b) = 1 THEN b ELSE Null)
      /\ step'[h] = (IF Refs(b) = 1 THEN "stats" ELSE "none")
      /\ \A f \in Handles : f # h => leaving'[f] = leaving[f] /\ step'[f] = step[f]
  <2>1. CASE Refs(b) = 1
    BY <1>1, <2>1 DEF PoolTypes
  <2>2. CASE Refs(b) # 1
    BY Zenon, <1>1, <1>2, <2>2
  <2>3. QED BY Zenon, <2>1, <2>2
<1>7. \A c \in Classes : Free(c)' = Free(c)
  BY Zenon, <1>1 DEF Free
<1>8. Refs(b) = 1 <=> \A g \in Handles : handle[g] = b => g = h
  BY <1>0
<1> DEFINE last == Refs(b) = 1
<1>9. /\ last <=> \A g \in Handles : handle[g] = b => g = h
      /\ leaving'[h] = (IF last THEN b ELSE Null)
      /\ step'[h] = (IF last THEN "stats" ELSE "none")
  BY Zenon, <1>6, <1>8
<1>10. handle[h] = b
  BY <1>0
<1> HIDE DEF last
<1>11. \A f \in Handles : (step[f] = "none" <=> leaving[f] = Null)'
  BY SMTT(30), <1>1, <1>6, <1>9 DEF PlaceInv
<1>12. \A f \in Handles : (handle[f] # Null => handle[f] \in Blocks /\ Magic(handle[f]))'
  BY <1>4, <1>5 DEF PlaceInv, Kept, Magic
<1>13. \A f \in Handles : (leaving[f] # Null => leaving[f] \in Blocks)'
  BY ZenonT(30), <1>2, <1>4, <1>6, <1>9 DEF PlaceInv, Kept
<1>14. \A f, g \in Handles : (leaving[f] # Null /\ leaving[f] = leaving[g] => f = g)'
  <2>1. \A f, g \in Handles : leaving[f] # Null /\ leaving[f] = leaving[g] => f = g
    BY Zenon DEF PlaceInv
  <2>2. \A f \in Handles : leaving[f] # b
    BY Zenon, <1>1, <1>10 DEF PlaceInv
  <2>3. QED BY ZenonT(30), <1>6, <1>9, <2>1, <2>2
<1>15. \A f, g \in Handles : (leaving[f] # Null => handle[g] # leaving[f])'
  <2>1. \A f, g \in Handles : leaving[f] # Null => handle[g] # leaving[f]
    BY Zenon DEF PlaceInv
  <2>2. \A f \in Handles : handle'[f] # Null => f # h /\ handle'[f] = handle[f]
    BY Zenon, <1>5
  <2>3. ASSUME NEW f \in Handles, NEW g \in Handles, leaving'[f] # Null
        PROVE  handle'[g] # leaving'[f]
    <3>1. CASE handle'[g] = Null
      BY Zenon, <2>3, <3>1
    <3>2. CASE f # h /\ handle'[g] # Null
      BY ZenonT(30), <1>6, <2>1, <2>2, <2>3, <3>2
    <3>3. CASE f = h /\ handle'[g] # Null
      BY Zenon, <1>9, <2>2, <2>3, <3>3
    <3>4. QED BY Zenon, <3>1, <3>2, <3>3
  <2>4. QED BY Zenon, <2>3
<1>16. \A c \in Classes : \A d \in Free(c)' :
         d \in Blocks' /\ Cls(d)' = c /\ \A f \in Handles : handle'[f] # d /\ leaving'[f] # d
  <2> SUFFICES ASSUME NEW c \in Classes, NEW d \in Free(c)
               PROVE  /\ d \in Blocks' /\ Cls(d)' = c
                      /\ \A f \in Handles : handle'[f] # d /\ leaving'[f] # d
    BY Zenon, <1>7
  <2>1. d \in Blocks /\ Cls(d) = c /\ \A f \in Handles : handle[f] # d /\ leaving[f] # d
    BY Zenon DEF PlaceInv
  <2>2. d # Null
    BY <2>1, PoolAssumption DEF PoolTypes
  <2>3. QED BY Zenon, <1>4, <1>5, <1>6, <1>9, <1>10, <2>1, <2>2 DEF Kept
<1>17. \A x \in Blocks' : Cls(x)' # ESCAPED =>
         (\E f \in Handles : handle'[f] = x \/ leaving'[f] = x) \/ Filed(x)'
  <2> SUFFICES ASSUME NEW x \in Blocks, Cls(x) # ESCAPED
               PROVE  (\E f \in Handles : handle'[f] = x \/ leaving'[f] = x) \/ Filed(x)'
    BY Zenon, <1>4 DEF Kept
  <2>1. Filed(x) => Filed(x)'
    BY ZenonT(30), <1>4, <1>7, FiledStays
  <2>2. x # Null
    BY PoolAssumption DEF PoolTypes
  <2>3. ASSUME NEW f \in Handles, handle[f] = x
        PROVE  \E e \in Handles : handle'[e] = x \/ leaving'[e] = x
    <3>1. CASE f # h
      BY Zenon, <1>5, <2>3, <3>1
    <3>2. CASE f = h
      BY Zenon, <1>5, <1>9, <1>10, <2>3, <3>2
    <3>3. QED BY Zenon, <3>1, <3>2
  <2>4. ASSUME NEW f \in Handles, leaving[f] = x
        PROVE  \E e \in Handles : handle'[e] = x \/ leaving'[e] = x
    BY ZenonT(30), <1>2, <1>6, <2>2, <2>4
  <2>5. QED BY Zenon, <2>1, <2>3, <2>4 DEF PlaceInv
<1>18. \A f \in Buffers : \A e \in Handles :
         (handle[f] # Null /\ handle[e] = handle[f] => e = f)'
  <2>1. Buffers \subseteq Handles
    BY PoolAssumption
  <2>2. \A f \in Buffers : \A e \in Handles :
          handle[f] # Null /\ handle[e] = handle[f] => e = f
    BY Zenon DEF PlaceInv
  <2>3. QED BY ZenonT(30), <1>5, <2>1, <2>2
<1>19. QED
  BY Zenon, <1>4, <1>11, <1>12, <1>13, <1>14, <1>15, <1>16, <1>17, <1>18 DEF PlaceInv, Kept

(* The free-lists. *)
Elems(s) == {s[i] : i \in 1..Len(s)}

LEMMA BinPopped ==
  ASSUME NEW s \in Seq(Nat), s # <<>>, Once(s)
  PROVE  /\ Head(s) \in Elems(s) /\ Head(s) \in Nat /\ Tail(s) \in Seq(Nat)
         /\ Once(Tail(s)) /\ Elems(Tail(s)) = Elems(s) \ {Head(s)}
<1> DEFINE t == Tail(s)
<1>1. /\ Len(s) \in Nat /\ Len(s) >= 1 /\ Head(s) = s[1] /\ s[1] \in Nat
      /\ t \in Seq(Nat) /\ Len(t) = Len(s) - 1 /\ \A i \in 1..Len(t) : t[i] = s[i + 1]
  OBVIOUS
<1> HIDE DEF t
<1>2. /\ 1 \in 1..Len(s)
      /\ \A i \in 1..Len(t) : i + 1 \in 1..Len(s) /\ i + 1 # 1
      /\ \A i \in 1..Len(s) : i # 1 => i - 1 \in 1..Len(t) /\ t[i - 1] = s[i]
      /\ \A i, j \in 1..Len(t) : i + 1 = j + 1 => i = j
  BY SMTT(30), <1>1
<1>3. Head(s) \in Elems(s)
  BY Zenon, <1>1, <1>2 DEF Elems
<1>4. Once(t)
  <2> SUFFICES ASSUME NEW i \in 1..Len(t), NEW j \in 1..Len(t), t[i] = t[j] PROVE i = j
    BY Zenon DEF Once
  <2>1. i + 1 = j + 1
    <3>1. /\ i + 1 \in 1..Len(s) /\ t[i] = s[i + 1]
          /\ j + 1 \in 1..Len(s) /\ t[j] = s[j + 1]
      BY Zenon, <1>1, <1>2
    <3>2. QED BY Zenon, <3>1 DEF Once
  <2>2. QED BY Zenon, <1>2, <2>1
<1>5. ASSUME NEW x \in Elems(t) PROVE x \in Elems(s) /\ x # Head(s)
  <2>1. PICK i \in 1..Len(t) : x = t[i]
    BY Zenon DEF Elems
  <2>2. x = s[i + 1] /\ i + 1 \in 1..Len(s) /\ i + 1 # 1
    BY Zenon, <1>1, <1>2, <2>1
  <2>3. QED BY Zenon, <1>1, <1>2, <2>2 DEF Elems, Once
<1>6. ASSUME NEW x \in Elems(s), x # Head(s) PROVE x \in Elems(t)
  <2>1. PICK i \in 1..Len(s) : x = s[i]
    BY Zenon DEF Elems
  <2>2. i - 1 \in 1..Len(t) /\ x = t[i - 1]
    BY Zenon, <1>1, <1>2, <1>6, <2>1
  <2>3. QED BY Zenon, <2>2 DEF Elems
<1>7. Elems(t) = Elems(s) \ {Head(s)}
  BY Zenon, <1>5, <1>6
<1>8. QED BY Zenon, <1>1, <1>3, <1>4, <1>7 DEF t

LEMMA Pushed ==
  ASSUME NEW s \in Seq(Nat), NEW b \in Nat, Once(s), b \notin Elems(s)
  PROVE  /\ <<b>> \o s \in Seq(Nat) /\ Once(<<b>> \o s)
         /\ Elems(<<b>> \o s) = Elems(s) \cup {b}
<1> DEFINE t == <<b>> \o s
<1>1. /\ Len(s) \in Nat /\ t \in Seq(Nat) /\ Len(t) = Len(s) + 1 /\ t[1] = b
      /\ \A i \in 1..Len(t) : i # 1 => t[i] = s[i - 1]
  OBVIOUS
<1> HIDE DEF t
<1>2. /\ 1 \in 1..Len(t)
      /\ \A i \in 1..Len(t) : i # 1 => i - 1 \in 1..Len(s)
      /\ \A i \in 1..Len(s) : i + 1 \in 1..Len(t) /\ t[i + 1] = s[i]
      /\ \A i, j \in 1..Len(t) : i - 1 = j - 1 => i = j
  BY SMTT(30), <1>1
<1>3. \A i \in 1..Len(s) : s[i] # b
  BY Zenon DEF Elems
<1>4. Once(t)
  <2> SUFFICES ASSUME NEW i \in 1..Len(t), NEW j \in 1..Len(t), t[i] = t[j] PROVE i = j
    BY Zenon DEF Once
  <2>1. CASE i = 1 \/ j = 1
    <3>1. \A k \in 1..Len(t) : k # 1 => t[k] # t[1]
      <4> SUFFICES ASSUME NEW k \in 1..Len(t), k # 1 PROVE t[k] # t[1]
        OBVIOUS
      <4>1. k - 1 \in 1..Len(s) /\ t[k] = s[k - 1]
        BY Zenon, <1>1, <1>2
      <4>2. QED BY Zenon, <1>1, <1>3, <4>1
    <3>2. QED BY Zenon, <2>1, <3>1
  <2>2. CASE i # 1 /\ j # 1
    <3>1. i - 1 = j - 1
      <4>1. i - 1 \in 1..Len(s) /\ t[i] = s[i - 1] /\ j - 1 \in 1..Len(s) /\ t[j] = s[j - 1]
        BY Zenon, <1>1, <1>2, <2>2
      <4>2. QED BY Zenon, <4>1 DEF Once
    <3>2. QED BY Zenon, <1>2, <3>1
  <2>3. QED BY Zenon, <2>1, <2>2
<1>5. ASSUME NEW x \in Elems(t) PROVE x \in Elems(s) \/ x = b
  <2>1. PICK i \in 1..Len(t) : x = t[i]
    BY Zenon DEF Elems
  <2>2. i # 1 => i - 1 \in 1..Len(s) /\ x = s[i - 1]
    BY Zenon, <1>1, <1>2, <2>1
  <2>3. QED BY Zenon, <1>1, <2>1, <2>2 DEF Elems
<1>6. ASSUME NEW x \in Elems(s) PROVE x \in Elems(t)
  BY Zenon, <1>2 DEF Elems
<1>7. b \in Elems(t)
  BY Zenon, <1>1, <1>2 DEF Elems
<1>8. Elems(t) = Elems(s) \cup {b}
  BY Zenon, <1>5, <1>6, <1>7
<1>9. QED BY Zenon, <1>1, <1>4, <1>8 DEF t

LEMMA FreeIs ==
  /\ \A c \in Classes : Free(c) = Elems(bins[c])
  /\ \A c \in Classes : Free(c)' = Elems(bins'[c])
BY Zenon DEF Free, Elems

LEMMA PopFree ==
  ASSUME PoolTypes, PlaceInv, BinsInv, NEW c \in Classes, bins[c] # <<>>,
         bins' = [bins EXCEPT ![c] = Tail(@)]
  PROVE  /\ Head(bins[c]) \in Free(c) /\ Head(bins[c]) \in Nat
         /\ \A x \in Classes : Free(x)' = Free(x) \ {Head(bins[c])}
         /\ BinsInv' /\ bins' \in [Classes -> Seq(Nat)]
<1> DEFINE b == Head(bins[c])
<1>1. /\ bins[c] \in Seq(Nat) /\ bins'[c] = Tail(bins[c])
      /\ \A x \in Classes : x # c => bins'[x] = bins[x]
  BY DEF PoolTypes
<1>2. /\ b \in Elems(bins[c]) /\ b \in Nat /\ Tail(bins[c]) \in Seq(Nat)
      /\ Once(Tail(bins[c])) /\ Elems(Tail(bins[c])) = Elems(bins[c]) \ {b}
  BY Zenon, <1>1, BinPopped DEF BinsInv
<1> HIDE DEF b
<1>3. b \in Free(c) /\ Cls(b) = c
  BY Zenon, <1>2, FreeIs DEF PlaceInv
<1>4. ASSUME NEW x \in Classes PROVE Free(x)' = Free(x) \ {b}
  <2>1. CASE x = c
    BY Zenon, <1>1, <1>2, <2>1, FreeIs
  <2>2. CASE x # c
    <3>1. b \notin Free(x)
      BY Zenon, <1>3, <2>2 DEF PlaceInv
    <3>2. Free(x)' = Free(x)
      BY Zenon, <1>1, <2>2, FreeIs
    <3>3. QED BY Zenon, <3>1, <3>2
  <2>3. QED BY Zenon, <2>1, <2>2
<1>5. BinsInv'
  BY <1>1, <1>2 DEF BinsInv
<1>6. bins' \in [Classes -> Seq(Nat)]
  BY <1>1, <1>2 DEF PoolTypes
<1>7. QED BY Zenon, <1>2, <1>3, <1>4, <1>5, <1>6 DEF b

LEMMA PushFree ==
  ASSUME PoolTypes, BinsInv, NEW c \in Classes, NEW b \in Nat, b \notin Free(c),
         bins' = [bins EXCEPT ![c] = <<b>> \o @]
  PROVE  /\ \A x \in Classes : Free(x)' = IF x = c THEN Free(x) \cup {b} ELSE Free(x)
         /\ BinsInv' /\ bins' \in [Classes -> Seq(Nat)]
<1>1. /\ bins[c] \in Seq(Nat) /\ bins'[c] = <<b>> \o bins[c]
      /\ \A x \in Classes : x # c => bins'[x] = bins[x]
  BY DEF PoolTypes
<1>2. /\ <<b>> \o bins[c] \in Seq(Nat) /\ Once(<<b>> \o bins[c])
      /\ Elems(<<b>> \o bins[c]) = Elems(bins[c]) \cup {b}
  BY ZenonT(30), <1>1, Pushed, FreeIs DEF BinsInv
<1>3. \A x \in Classes : Free(x)' = IF x = c THEN Free(x) \cup {b} ELSE Free(x)
  BY Zenon, <1>1, <1>2, FreeIs
<1>4. BinsInv'
  BY <1>1, <1>2 DEF BinsInv
<1>5. bins' \in [Classes -> Seq(Nat)]
  BY <1>1, <1>2 DEF PoolTypes
<1>6. QED BY Zenon, <1>3, <1>4, <1>5

LEMMA PlaceRecycle ==
  ASSUME PoolTypes, PlaceInv, BinsInv, NEW h \in Handles, Recycle(h)
  PROVE  PlaceInv' /\ BinsInv' /\ Kept /\ bins' \in [Classes -> Seq(Nat)]
<1>0. PICK b : b = leaving[h]
  OBVIOUS
<1>1. /\ step[h] = "recycle" /\ step' = [step EXCEPT ![h] = "none"]
      /\ leaving' = [leaving EXCEPT ![h] = Null]
      /\ bins' = (IF Cls(b) = ESCAPED THEN bins ELSE [bins EXCEPT ![Cls(b)] = <<b>> \o @])
      /\ header' = [header EXCEPT ![b].magic = FALSE] /\ handle' = handle
  BY Zenon, <1>0 DEF Recycle, BinsWith, Cls
<1>2. b # Null /\ b \in Blocks /\ b \in Nat
  BY <1>0, <1>1 DEF PlaceInv, PoolTypes
<1>3. Kept /\ \A x \in Blocks \ {b} : Magic(x) => Magic(x)'
  BY Zenon, <1>1, <1>2, MagicGone DEF Kept
<1>4. /\ leaving'[h] = Null /\ step'[h] = "none"
      /\ \A g \in Handles : g # h => leaving'[g] = leaving[g] /\ step'[g] = step[g]
  BY <1>1 DEF PoolTypes
<1>5. /\ \A g \in Handles : handle[g] # b /\ (g # h => leaving[g] # b)
      /\ \A c \in Classes : b \notin Free(c)
  BY Zenon, <1>0, <1>2 DEF PlaceInv
<1>6. /\ \A x \in Classes : Free(x)' = IF x = Cls(b) THEN Free(x) \cup {b} ELSE Free(x)
      /\ BinsInv' /\ bins' \in [Classes -> Seq(Nat)]
  <2>1. CASE Cls(b) = ESCAPED
    <3>1. bins' = bins
      BY Zenon, <1>1, <2>1
    <3>2. \A x \in Classes : Free(x)' = Free(x) /\ x # Cls(b)
      BY Zenon, <2>1, <3>1, ClassSizes DEF Free
    <3>3. QED BY Zenon, <3>1, <3>2 DEF BinsInv, PoolTypes, Once
  <2>2. CASE Cls(b) # ESCAPED
    <3>1. Cls(b) \in Classes
      BY <1>2, <2>2 DEF PoolTypes, Headers, Cls
    <3>2. PICK c \in Classes : c = Cls(b)
      BY Zenon, <3>1
    <3>3. bins' = [bins EXCEPT ![c] = <<b>> \o @]
      BY Zenon, <1>1, <2>2, <3>2
    <3>4. /\ \A x \in Classes : Free(x)' = IF x = c THEN Free(x) \cup {b} ELSE Free(x)
          /\ BinsInv' /\ bins' \in [Classes -> Seq(Nat)]
      BY Zenon, <1>2, <1>5, <3>3, PushFree
    <3>5. QED BY Zenon, <3>2, <3>4
  <2>3. QED BY Zenon, <2>1, <2>2
<1>7. leaving[h] = b
  BY <1>0
<1>8. \A f \in Handles : (step[f] = "none" <=> leaving[f] = Null)'
  BY Zenon, <1>4 DEF PlaceInv
<1>9. \A f \in Handles : (handle[f] # Null => handle[f] \in Blocks /\ Magic(handle[f]))'
  BY <1>1, <1>3, <1>5 DEF PlaceInv, Kept, Magic
<1>10. \A f \in Handles : (leaving[f] # Null => leaving[f] \in Blocks)'
  BY ZenonT(30), <1>3, <1>4 DEF PlaceInv, Kept
<1>11. \A f, g \in Handles : (leaving[f] # Null /\ leaving[f] = leaving[g] => f = g)'
  <2>1. \A f, g \in Handles : leaving[f] # Null /\ leaving[f] = leaving[g] => f = g
    BY Zenon DEF PlaceInv
  <2>2. QED BY ZenonT(30), <1>4, <2>1
<1>12. \A f, g \in Handles : (leaving[f] # Null => handle[g] # leaving[f])'
  <2>1. \A f, g \in Handles : leaving[f] # Null => handle[g] # leaving[f]
    BY Zenon DEF PlaceInv
  <2>2. QED BY ZenonT(30), <1>1, <1>4, <2>1
<1>13. \A c \in Classes : \A d \in Free(c)' :
         d \in Blocks' /\ Cls(d)' = c /\ \A f \in Handles : handle'[f] # d /\ leaving'[f] # d
  <2> SUFFICES ASSUME NEW c \in Classes, NEW d \in Free(c)'
               PROVE  /\ d \in Blocks' /\ Cls(d)' = c
                      /\ \A f \in Handles : handle'[f] # d /\ leaving'[f] # d
    OBVIOUS
  <2>1. CASE d \in Free(c)
    <3>1. d \in Blocks /\ Cls(d) = c /\ \A f \in Handles : handle[f] # d /\ leaving[f] # d
      BY Zenon, <2>1 DEF PlaceInv
    <3>2. d # Null
      BY <3>1, PoolAssumption DEF PoolTypes
    <3>3. QED BY Zenon, <1>1, <1>3, <1>4, <3>1, <3>2 DEF Kept
  <2>2. CASE d = b /\ c = Cls(b)
    <3>1. \A f \in Handles : handle'[f] # b /\ leaving'[f] # b
      BY Zenon, <1>1, <1>2, <1>4, <1>5
    <3>2. QED BY Zenon, <1>2, <1>3, <2>2, <3>1 DEF Kept
  <2>3. QED BY ZenonT(30), <1>6, <2>1, <2>2
<1>14. \A x \in Blocks' : Cls(x)' # ESCAPED =>
         (\E f \in Handles : handle'[f] = x \/ leaving'[f] = x) \/ Filed(x)'
  <2> SUFFICES ASSUME NEW x \in Blocks, Cls(x) # ESCAPED
               PROVE  (\E f \in Handles : handle'[f] = x \/ leaving'[f] = x) \/ Filed(x)'
    BY Zenon, <1>3 DEF Kept
  <2>1. Filed(x) => Filed(x)'
    BY Zenon, <1>3, <1>6, FiledStays
  <2>2. CASE x = b
    <3>1. Cls(b) \in Classes /\ Cls(b)' = Cls(b)
      BY <1>2, <1>3, <2>2 DEF PoolTypes, Headers, Cls, Kept
    <3>2. PICK c \in Classes : c = Cls(b)
      BY Zenon, <3>1
    <3>3. b \in Free(c)'
      BY Zenon, <1>6, <3>2
    <3>4. QED BY ZenonT(30), <2>2, <3>1, <3>2, <3>3 DEF Filed, Free
  <2>3. CASE x # b
    <3>1. CASE Filed(x)
      BY Zenon, <2>1, <3>1
    <3>2. ASSUME NEW f \in Handles, handle[f] = x \/ leaving[f] = x
          PROVE  handle'[f] = x \/ leaving'[f] = x
      BY Zenon, <1>1, <1>4, <1>7, <2>3, <3>2
    <3>3. QED BY Zenon, <3>1, <3>2 DEF PlaceInv
  <2>4. QED BY Zenon, <2>2, <2>3
<1>15. QED
  BY ZenonT(30), <1>1, <1>3, <1>6, <1>8, <1>9, <1>10, <1>11, <1>12, <1>13, <1>14
  DEF PlaceInv, Kept

LEMMA PlaceStays ==
  ASSUME PlaceInv, UNCHANGED <<bins, header, handle, leaving>>,
         \A g \in Handles : (step[g] = "none" <=> leaving[g] = Null)'
  PROVE  PlaceInv'
<1>1. /\ Blocks' = Blocks /\ \A x : (Filed(x)' <=> Filed(x)) /\ Cls(x)' = Cls(x)
      /\ \A c : Free(c)' = Free(c)
  BY Zenon DEF Filed, Free, Cls, Blocks
<1>2. \A f \in Handles : (handle[f] # Null => handle[f] \in Blocks /\ Magic(handle[f]))'
  BY Zenon DEF PlaceInv, Magic, Blocks
<1>3. \A c \in Classes : \A d \in Free(c)' :
        d \in Blocks' /\ Cls(d)' = c /\ \A f \in Handles : handle'[f] # d /\ leaving'[f] # d
  BY Zenon, <1>1 DEF PlaceInv
<1>4. \A x \in Blocks' : Cls(x)' # ESCAPED =>
        (\E f \in Handles : handle'[f] = x \/ leaving'[f] = x) \/ Filed(x)'
  BY Zenon, <1>1 DEF PlaceInv
<1>5. QED BY Zenon, <1>1, <1>2, <1>3, <1>4 DEF PlaceInv

-----------------------------------------------------------------------------
(* allocate() *)

LEMMA BlockFields ==
  ASSUME PoolTypes, NEW b \in Blocks
  PROVE  b \in Nat /\ Cls(b) \in Classes \cup {ESCAPED} /\ Slot(b) \in Nat /\ Refs(b) \in Nat
BY DEF PoolTypes, Headers, Cls, Slot, Refs

LEMMA ArenaBlock ==
  ASSUME PoolTypes, RoomInv, NEW b \in Blocks, Cls(b) # ESCAPED
  PROVE  /\ need(Slot(b)) \in Nat /\ need(Slot(b)) > 0 /\ b < bump
         /\ b + need(Slot(b)) <= bump /\ HeaderSize + Slot(b) <= need(Slot(b))
<1>1. /\ b \in Nat /\ Cls(b) \in Classes /\ Slot(b) \in Nat /\ Slot(b) = classes[Cls(b)]
      /\ b + need(Slot(b)) <= bump
  BY Zenon, BlockFields DEF RoomInv
<1>2. Slot(b) > 0 /\ HeaderSize \in Nat /\ bump \in Nat
  BY <1>1, ClassSizes, PoolAssumption DEF PoolTypes
<1>3. need(Slot(b)) \in Nat /\ HeaderSize + Slot(b) <= need(Slot(b))
  BY Zenon, <1>1, NeedFits
<1>4. QED BY <1>1, <1>2, <1>3

LEMMA FreshBlocks ==
  ASSUME PoolTypes, RoomInv
  PROVE  /\ arena_bytes + made \in Nat /\ arena_bytes + made \notin Blocks
         /\ \A c \in Classes : CarveFits(c) => bump \notin Blocks
<1>1. arena_bytes \in Nat /\ made \in Nat /\ bump \in Nat /\ bump <= arena_bytes
  BY ArenaSize DEF PoolTypes, RoomInv
<1>2. ASSUME arena_bytes + made \in Blocks PROVE FALSE
  <2>1. CASE Cls(arena_bytes + made) = ESCAPED
    <3>1. arena_bytes + made < arena_bytes + made
      BY Zenon, <1>2, <2>1 DEF RoomInv
    <3>2. QED BY <1>1, <3>1
  <2>2. CASE Cls(arena_bytes + made) # ESCAPED
    <3>1. arena_bytes + made < bump
      BY Zenon, <1>2, <2>2, ArenaBlock
    <3>2. QED BY <1>1, <3>1
  <2>3. QED BY Zenon, <2>1, <2>2
<1>3. ASSUME NEW c \in Classes, CarveFits(c), bump \in Blocks PROVE FALSE
  <2>1. CASE Cls(bump) = ESCAPED
    <3>1. need(classes[c]) \in Nat /\ HeaderSize + classes[c] <= need(classes[c])
      BY ClassSizes, NeedFits
    <3>2. classes[c] \in Nat /\ classes[c] > 0 /\ HeaderSize \in Nat
      BY ClassSizes, PoolAssumption
    <3>3. bump + need(classes[c]) <= arena_bytes /\ arena_bytes <= bump
      BY Zenon, <1>3, <2>1 DEF CarveFits, RoomInv
    <3>4. QED BY <1>1, <3>1, <3>2, <3>3
  <2>2. CASE Cls(bump) # ESCAPED
    <3>1. bump < bump
      BY Zenon, <1>3, <2>2, ArenaBlock
    <3>2. QED BY <1>1, <3>1
  <2>3. QED BY Zenon, <2>1, <2>2
<1>4. QED BY <1>1, <1>2, <1>3

(* A new block keeps the others in their room. *)
LEMMA RoomEscaped ==
  ASSUME PoolTypes, RoomInv, NEW h \in Handles, NEW b, b = arena_bytes + made,
         NEW slot \in Nat, Given(h, b, ESCAPED, slot), bump' = bump, made' = made + 1
  PROVE  RoomInv'
<1>1. arena_bytes \in Nat /\ made \in Nat /\ b \notin Blocks
  BY ArenaSize, FreshBlocks DEF PoolTypes
<1>2. /\ Blocks' = Blocks \cup {b} /\ Cls(b)' = ESCAPED
      /\ \A x \in Blocks : Cls(x)' = Cls(x) /\ Slot(x)' = Slot(x)
  BY Zenon, <1>1 DEF Given
<1>3. \A x \in Blocks' : Cls(x)' # ESCAPED => x \in Blocks /\ x # b
  BY Zenon, <1>1, <1>2
<1>4. \A x \in Blocks' : Cls(x)' # ESCAPED =>
        Slot(x)' = classes[Cls(x)'] /\ x + need(Slot(x)') <= bump'
  BY Zenon, <1>2, <1>3 DEF RoomInv
<1>5. ASSUME NEW x \in Blocks', Cls(x)' = ESCAPED
      PROVE  arena_bytes <= x /\ x < arena_bytes + made'
  <2>1. CASE x = b
    BY <1>1, <2>1
  <2>2. CASE x # b
    <3>1. x \in Blocks /\ x \in Nat /\ Cls(x) = ESCAPED
      BY Zenon, <1>2, <1>5, <2>2, BlockFields
    <3>2. arena_bytes <= x /\ x < arena_bytes + made
      BY Zenon, <3>1 DEF RoomInv
    <3>3. QED BY <1>1, <3>1, <3>2
  <2>3. QED BY Zenon, <2>1, <2>2
<1>6. \A x, y \in Blocks' : Cls(x)' # ESCAPED /\ Cls(y)' # ESCAPED /\ x < y =>
        x + need(Slot(x)') <= y
  BY Zenon, <1>2, <1>3 DEF RoomInv
<1>7. QED BY Zenon, <1>4, <1>5, <1>6 DEF RoomInv, need, round_up, arena_bytes

LEMMA RoomCarved ==
  ASSUME PoolTypes, RoomInv, NEW h \in Handles, NEW c \in Classes, CarveFits(c),
         NEW b, b = bump, Given(h, b, c, classes[c]),
         bump' = bump + need(classes[c]), made' = made
  PROVE  RoomInv'
<1>1. bump \in Nat /\ need(classes[c]) \in Nat /\ b \notin Blocks /\ c # ESCAPED
  BY ZenonT(30), ClassSizes, NeedFits, FreshBlocks DEF PoolTypes
<1>2. /\ Blocks' = Blocks \cup {b} /\ Cls(b)' = c /\ Slot(b)' = classes[c]
      /\ \A x \in Blocks : Cls(x)' = Cls(x) /\ Slot(x)' = Slot(x)
  BY Zenon, <1>1 DEF Given
<1>3. bump' <= arena_bytes /\ bump <= bump' /\ b + need(Slot(b)') <= bump'
  BY <1>1, <1>2 DEF CarveFits
<1>4. ASSUME NEW x \in Blocks, Cls(x) # ESCAPED
      PROVE  /\ Slot(x)' = classes[Cls(x)'] /\ x + need(Slot(x)') <= bump'
             /\ x + need(Slot(x)') <= b /\ ~(b < x)
  <2>1. /\ Slot(x) = classes[Cls(x)] /\ x + need(Slot(x)) <= bump
        /\ x \in Nat /\ need(Slot(x)) \in Nat /\ x < bump
    BY ZenonT(30), <1>4, ArenaBlock, BlockFields DEF RoomInv
  <2>2. x + need(Slot(x)) <= bump + need(classes[c]) /\ ~(bump < x)
    BY <1>1, <2>1
  <2>3. QED BY Zenon, <1>2, <2>1, <2>2
<1>5. \A x \in Blocks' : Cls(x)' # ESCAPED =>
        Slot(x)' = classes[Cls(x)'] /\ x + need(Slot(x)') <= bump'
  BY Zenon, <1>2, <1>3, <1>4
<1>6. \A x \in Blocks' : Cls(x)' = ESCAPED => arena_bytes <= x /\ x < arena_bytes + made'
  BY Zenon, <1>1, <1>2 DEF RoomInv
<1>7. ~(b < b)
  BY <1>1
<1>8. \A x, y \in Blocks' : Cls(x)' # ESCAPED /\ Cls(y)' # ESCAPED /\ x < y =>
        x + need(Slot(x)') <= y
  <2> SUFFICES ASSUME NEW x \in Blocks', NEW y \in Blocks', Cls(x)' # ESCAPED,
                      Cls(y)' # ESCAPED, x < y
               PROVE  x + need(Slot(x)') <= y
    OBVIOUS
  <2>1. CASE x \in Blocks /\ y \in Blocks
    BY Zenon, <1>2, <2>1 DEF RoomInv
  <2>2. CASE x \in Blocks /\ y = b
    BY Zenon, <1>2, <1>4, <2>2
  <2>3. x # b
    BY Zenon, <1>2, <1>4, <1>7
  <2>4. QED BY Zenon, <1>2, <2>1, <2>2, <2>3
<1>9. QED BY ZenonT(30), <1>3, <1>5, <1>6, <1>8 DEF RoomInv, need, round_up, arena_bytes

LEMMA RoomPopped ==
  ASSUME PoolTypes, RoomInv, NEW h \in Handles, NEW c \in Classes, NEW b \in Blocks,
         Cls(b) = c, Given(h, b, c, classes[c]), bump' = bump, made' = made
  PROVE  RoomInv'
<1>1. Slot(b) = classes[c]
  BY Zenon, ClassSizes DEF RoomInv
<1>2. Blocks' = Blocks /\ \A x \in Blocks : Cls(x)' = Cls(x) /\ Slot(x)' = Slot(x)
  BY Zenon, <1>1 DEF Given
<1>3. QED BY Zenon, <1>2 DEF RoomInv, need, round_up, arena_bytes

LEMMA RoomKept ==
  ASSUME RoomInv, Kept, bump' = bump, made' = made
  PROVE  RoomInv'
BY Zenon DEF RoomInv, Kept, need, round_up, arena_bytes

(* What allocate() has done for h. *)
Handed(h, bytes, b, c, slot) ==
  /\ Given(h, b, c, slot) /\ bytes <= slot
  /\ handle' = [handle EXCEPT ![h] = b]
  /\ \/ handle[h] = Null /\ leaving' = leaving /\ step' = step
     \/ /\ handle[h] # Null /\ h \in Buffers
        /\ leaving' = [leaving EXCEPT ![h] = handle[h]]
        /\ step' = [step EXCEPT ![h] = "stats"]
  /\ \A g \in Handles : handle[g] # b /\ leaving[g] # b
  /\ b \in Blocks => Cls(b) = c
  /\ \A x \in Classes : Free(x)' = Free(x) \ {b}
  /\ live' = live + 1 /\ escaped' = IF c = ESCAPED THEN escaped + 1 ELSE escaped

LEMMA FreshIsFree ==
  ASSUME PoolTypes, PlaceInv, NEW b \in Nat, b \notin Blocks
  PROVE  /\ \A g \in Handles : handle[g] # b /\ leaving[g] # b
         /\ \A x \in Classes : b \notin Free(x)
<1>1. b # Null
  BY SMTT(30), PoolAssumption
<1>2. \A g \in Handles : handle[g] # b /\ leaving[g] # b
  BY <1>1 DEF PlaceInv
<1>3. \A x \in Classes : b \notin Free(x)
  BY Zenon DEF PlaceInv
<1>4. QED BY Zenon, <1>2, <1>3

Allocated(h, bytes) ==
  /\ \E b \in Nat, c \in Classes \cup {ESCAPED}, slot \in Nat : Handed(h, bytes, b, c, slot)
  /\ BinsInv' /\ RoomInv' /\ bins' \in [Classes -> Seq(Nat)]
  /\ bump' \in Nat /\ made' \in Nat

LEMMA HandedFresh ==
  ASSUME PoolTypes, PlaceInv, BinsInv, NEW h \in Handles, NEW bytes \in Nat,
         handle[h] # Null => h \in Buffers /\ Refs(handle[h]) = 1,
         NEW b \in Nat, NEW c \in Classes \cup {ESCAPED}, NEW slot \in Nat,
         HandOut(h, b, c, slot), bytes <= slot, b \notin Blocks, bins' = bins,
         escaped' = IF c = ESCAPED THEN escaped + 1 ELSE escaped
  PROVE  Handed(h, bytes, b, c, slot) /\ BinsInv' /\ bins' \in [Classes -> Seq(Nat)]
<1>1. /\ handle[h] # Null => handle[h] \in Blocks
      /\ \A g \in Handles : handle[g] # b /\ leaving[g] # b
      /\ \A x \in Classes : b \notin Free(x)
  BY Zenon, FreshIsFree DEF PlaceInv
<1>2. Given(h, b, c, slot)
  BY Zenon, <1>1, HandedOut
<1>3. \A x \in Classes : Free(x)' = Free(x) \ {b}
  <2>1. \A x \in Classes : Free(x)' = Free(x)
    BY Zenon DEF Free
  <2>2. QED BY Zenon, <1>1, <2>1
<1>4. /\ handle' = [handle EXCEPT ![h] = b] /\ live' = live + 1
      /\ \/ handle[h] = Null /\ leaving' = leaving /\ step' = step
         \/ /\ handle[h] # Null /\ leaving' = [leaving EXCEPT ![h] = handle[h]]
            /\ step' = [step EXCEPT ![h] = "stats"]
  BY Zenon DEF HandOut
<1>5. BinsInv' /\ bins' \in [Classes -> Seq(Nat)]
  BY Zenon DEF BinsInv, PoolTypes, Once
<1>6. QED BY Zenon, <1>1, <1>2, <1>3, <1>4, <1>5 DEF Handed

LEMMA Allocate ==
  ASSUME PoolTypes, PlaceInv, BinsInv, RoomInv, NEW h \in Handles, NEW bytes \in Nat,
         handle[h] # Null => h \in Buffers /\ Refs(handle[h]) = 1, allocate(h, bytes)
  PROVE  Allocated(h, bytes)
<1>1. ESCAPED \notin Classes /\ ESCAPED \in Classes \cup {ESCAPED}
  BY Zenon, ClassSizes
<1>2. ASSUME Escape(h, bytes) PROVE Allocated(h, bytes)
  <2>1. PICK b : b = arena_bytes + made
    OBVIOUS
  <2>2. /\ HandOut(h, b, ESCAPED, bytes) /\ made' = made + 1 /\ bump' = bump
        /\ escaped' = escaped + 1 /\ bins' = bins
    BY Zenon, <1>2, <2>1 DEF Escape
  <2>3. b \in Nat /\ b \notin Blocks
    BY Zenon, <2>1, FreshBlocks
  <2>4. bytes <= bytes
    OBVIOUS
  <2>5. Handed(h, bytes, b, ESCAPED, bytes) /\ BinsInv' /\ bins' \in [Classes -> Seq(Nat)]
    BY Zenon, <1>1, <2>2, <2>3, <2>4, HandedFresh
  <2>6. RoomInv'
    BY Zenon, <2>1, <2>2, <2>5, RoomEscaped DEF Handed
  <2>7. bump' \in Nat /\ made' \in Nat
    BY <2>2 DEF PoolTypes
  <2>8. QED BY Zenon, <1>1, <2>3, <2>5, <2>6, <2>7 DEF Allocated
<1>3. ASSUME NEW c \in Classes, pick_class(bytes, c), bins[c] # <<>>,
             HandOut(h, Head(bins[c]), c, classes[c]), bins' = [bins EXCEPT ![c] = Tail(@)],
             bump' = bump, escaped' = escaped, made' = made
      PROVE  Allocated(h, bytes)
  <2>1. PICK b : b = Head(bins[c])
    OBVIOUS
  <2>2. /\ b \in Free(c) /\ b \in Nat /\ \A x \in Classes : Free(x)' = Free(x) \ {b}
        /\ BinsInv' /\ bins' \in [Classes -> Seq(Nat)]
    BY Zenon, <1>3, <2>1, PopFree
  <2>3. b \in Blocks /\ Cls(b) = c /\ \A g \in Handles : handle[g] # b /\ leaving[g] # b
    BY Zenon, <2>2 DEF PlaceInv
  <2>4. c \in Classes \cup {ESCAPED} /\ classes[c] \in Nat /\ bytes <= classes[c]
    BY <1>3, ClassSizes DEF pick_class
  <2>5. Given(h, b, c, classes[c])
    <3>1. HandOut(h, b, c, classes[c]) /\ handle[h] # b
          /\ (handle[h] # Null => handle[h] \in Blocks)
      BY Zenon, <1>3, <2>1, <2>3 DEF PlaceInv
    <3>2. QED BY Zenon, <2>2, <2>4, <3>1, HandedOut
  <2>6. /\ handle' = [handle EXCEPT ![h] = b] /\ live' = live + 1
        /\ \/ handle[h] = Null /\ leaving' = leaving /\ step' = step
           \/ /\ handle[h] # Null /\ leaving' = [leaving EXCEPT ![h] = handle[h]]
              /\ step' = [step EXCEPT ![h] = "stats"]
    BY Zenon, <1>3, <2>1 DEF HandOut
  <2>7. Handed(h, bytes, b, c, classes[c])
    BY Zenon, <1>1, <1>3, <2>2, <2>3, <2>4, <2>5, <2>6 DEF Handed
  <2>8. RoomInv'
    BY ZenonT(30), <1>3, <2>3, <2>5, RoomPopped
  <2>9. bump' \in Nat /\ made' \in Nat
    BY <1>3 DEF PoolTypes
  <2>10. QED BY Zenon, <2>2, <2>4, <2>7, <2>8, <2>9 DEF Allocated
<1>4. ASSUME NEW c \in Classes, pick_class(bytes, c), CarveFits(c),
             HandOut(h, bump, c, classes[c]), bump' = bump + need(classes[c]),
             bins' = bins, escaped' = escaped, made' = made
      PROVE  Allocated(h, bytes)
  <2>1. PICK b : b = bump
    OBVIOUS
  <2>2. b \in Nat /\ b \notin Blocks
    BY <1>4, <2>1, FreshBlocks DEF PoolTypes
  <2>3. c \in Classes \cup {ESCAPED} /\ classes[c] \in Nat /\ bytes <= classes[c]
    BY <1>4, ClassSizes DEF pick_class
  <2>4. Handed(h, bytes, b, c, classes[c]) /\ BinsInv' /\ bins' \in [Classes -> Seq(Nat)]
    BY ZenonT(30), <1>1, <1>4, <2>1, <2>2, <2>3, HandedFresh
  <2>5. RoomInv'
    BY ZenonT(30), <1>4, <2>1, <2>4, RoomCarved DEF Handed
  <2>6. bump' \in Nat /\ made' \in Nat
    <3>1. need(classes[c]) \in Nat
      BY Zenon, <2>3, NeedFits
    <3>2. QED BY <1>4, <3>1 DEF PoolTypes
  <2>7. QED BY Zenon, <2>2, <2>3, <2>4, <2>5, <2>6 DEF Allocated
<1>5. QED BY Zenon, <1>2, <1>3, <1>4 DEF allocate

-----------------------------------------------------------------------------
(* The counts of the memory pool *)


IsHeld(x) == \E h \in Handles : handle[h] = x
IsGoing(x) == \E h \in Handles : leaving[h] = x /\ step[h] = "stats"
LiveEscaped == {b \in LiveBlocks : Cls(b) = ESCAPED}

(* A reference count counts handles, and the counters count blocks. *)
CountersInv ==
  /\ IsFiniteSet(Blocks)
  /\ \A b \in Blocks : Refs(b) = Cardinality(HeldBy(b))
  /\ live = Cardinality(LiveBlocks) /\ escaped = Cardinality(LiveEscaped)

LEMMA LiveIs ==
  /\ \A x : x \in LiveBlocks <=> x \in Blocks /\ (IsHeld(x) \/ IsGoing(x))
  /\ \A x : x \in LiveBlocks' <=> x \in Blocks' /\ (IsHeld(x)' \/ IsGoing(x)')
<1>1. \A x : HeldBy(x) # {} <=> IsHeld(x)
  BY Zenon DEF HeldBy, IsHeld
<1>2. \A x : HeldBy(x)' # {} <=> IsHeld(x)'
  BY Zenon DEF HeldBy, IsHeld
<1>3. \A x : (\E h \in Leaving(x) : step[h] = "stats") <=> IsGoing(x)
  BY Zenon DEF Leaving, IsGoing
<1>4. \A x : (\E h \in Leaving(x)' : step'[h] = "stats") <=> IsGoing(x)'
  BY Zenon DEF Leaving, IsGoing
<1>5. \A x : x \in LiveBlocks <=> x \in Blocks /\ (IsHeld(x) \/ IsGoing(x))
  BY Zenon, <1>1, <1>3 DEF LiveBlocks
<1>6. \A x : x \in LiveBlocks' <=> x \in Blocks' /\ (IsHeld(x)' \/ IsGoing(x)')
  BY Zenon, <1>2, <1>4 DEF LiveBlocks
<1>7. QED BY Zenon, <1>5, <1>6

LEMMA OneMore ==
  ASSUME CardFacts, NEW S, IsFiniteSet(S), NEW x, x \notin S
  PROVE  IsFiniteSet(S \cup {x}) /\ Cardinality(S \cup {x}) = Cardinality(S) + 1
BY Zenon DEF CardFacts

LEMMA OneLess ==
  ASSUME CardFacts, NEW S, IsFiniteSet(S), NEW x \in S
  PROVE  /\ Cardinality(S) \in Nat /\ Cardinality(S) > 0
         /\ Cardinality(S \ {x}) = Cardinality(S) - 1
         /\ Cardinality(S) = 1 <=> S = {x}
<1>1. /\ IsFiniteSet(S \ {x}) /\ Cardinality(S \ {x}) = Cardinality(S) - 1
      /\ Cardinality(S) \in Nat /\ Cardinality(S \ {x}) \in Nat
  <2>1. IsFiniteSet(S \ {x})
    <3>1. S \ {x} \subseteq S
      OBVIOUS
    <3>2. QED BY Zenon, <3>1 DEF CardFacts
  <2>2. QED BY Zenon, <2>1 DEF CardFacts
<1>2. Cardinality(S \ {x}) = 0 <=> S \ {x} = {}
  BY Zenon, <1>1 DEF CardFacts
<1>3. S \ {x} = {} <=> S = {x}
  OBVIOUS
<1>4. QED BY <1>1, <1>2, <1>3

LEMMA HoldersFinite ==
  ASSUME CardFacts PROVE \A x : IsFiniteSet(HeldBy(x))
<1>1. \A x : HeldBy(x) \subseteq Handles
  BY Zenon DEF HeldBy
<1>2. IsFiniteSet(Handles)
  BY PoolAssumption
<1>3. QED BY Zenon, <1>1, <1>2 DEF CardFacts

LEMMA CountsFinite ==
  ASSUME CardFacts, CountersInv
  PROVE  /\ IsFiniteSet(LiveBlocks) /\ IsFiniteSet(LiveEscaped)
         /\ live \in Nat /\ escaped \in Nat
<1>1. LiveBlocks \subseteq Blocks /\ LiveEscaped \subseteq Blocks
  BY Zenon DEF LiveBlocks, LiveEscaped
<1>2. QED BY Zenon, <1>1 DEF CountersInv, CardFacts

LEMMA LastHolder ==
  ASSUME CardFacts, CountersInv, NEW h \in Handles, handle[h] \in Blocks
  PROVE  /\ Refs(handle[h]) > 0
         /\ Refs(handle[h]) = 1 <=> \A g \in Handles : handle[g] = handle[h] => g = h
<1>1. h \in HeldBy(handle[h]) /\ IsFiniteSet(HeldBy(handle[h]))
  BY Zenon, HoldersFinite DEF HeldBy
<1>2. /\ Cardinality(HeldBy(handle[h])) > 0
      /\ Cardinality(HeldBy(handle[h])) = 1 <=> HeldBy(handle[h]) = {h}
  BY Zenon, <1>1, OneLess
<1>3. HeldBy(handle[h]) = {h} <=> \A g \in Handles : handle[g] = handle[h] => g = h
  <2>1. \A g : g \in HeldBy(handle[h]) <=> g \in Handles /\ handle[g] = handle[h]
    BY Zenon DEF HeldBy
  <2>2. QED BY Zenon, <1>1, <2>1
<1>4. QED BY Zenon, <1>2, <1>3 DEF CountersInv

(* Who holds what after h has gone over to block n. *)
LEMMA HoldersAfter ==
  ASSUME NEW h \in Handles, NEW n, handle'[h] = n, handle[h] # n,
         \A g \in Handles : g # h => handle'[g] = handle[g]
  PROVE  /\ HeldBy(n)' = HeldBy(n) \cup {h} /\ h \notin HeldBy(n)
         /\ \A x : x = handle[h] => HeldBy(x)' = HeldBy(x) \ {h} /\ h \in HeldBy(x)
         /\ \A x : x # n /\ x # handle[h] => HeldBy(x)' = HeldBy(x)
<1>1. /\ \A x, g : g \in HeldBy(x) <=> g \in Handles /\ handle[g] = x
      /\ \A x, g : g \in HeldBy(x)' <=> g \in Handles /\ handle'[g] = x
  BY ZenonT(30) DEF HeldBy
<1>2. HeldBy(n)' = HeldBy(n) \cup {h} /\ h \notin HeldBy(n)
  BY SMTT(30), <1>1
<1>3. ASSUME NEW x, x = handle[h] PROVE HeldBy(x)' = HeldBy(x) \ {h} /\ h \in HeldBy(x)
  BY SMTT(30), <1>1, <1>3
<1>4. ASSUME NEW x, x # n, x # handle[h] PROVE HeldBy(x)' = HeldBy(x)
  BY <1>1, <1>4
<1>5. QED BY Zenon, <1>2, <1>3, <1>4

LEMMA CountHanded ==
  ASSUME CardFacts, PoolTypes, PlaceInv, CountersInv, NEW h \in Handles, NEW bytes \in Nat,
         NEW b \in Nat, NEW c \in Classes \cup {ESCAPED}, NEW slot \in Nat, step[h] = "none",
         Handed(h, bytes, b, c, slot)
  PROVE  CountersInv'
<1>1. /\ handle'[h] = b /\ \A g \in Handles : g # h => handle'[g] = handle[g]
      /\ b # handle[h] /\ \A g \in Handles : handle[g] # b /\ leaving[g] # b
  BY DEF PoolTypes, Handed
<1>2. /\ Blocks' = Blocks \cup {b} /\ Cls(b)' = c /\ Refs(b)' = 1
      /\ \A x \in Blocks \ {b} : Cls(x)' = Cls(x)
      /\ \A x \in Blocks \ {b} : Refs(x)' = IF x = handle[h] THEN 0 ELSE Refs(x)
  BY Zenon DEF Handed, Given
<1>3. IsFiniteSet(Blocks')
  BY Zenon, <1>2 DEF CountersInv, CardFacts
<1>4. /\ HeldBy(b)' = HeldBy(b) \cup {h} /\ h \notin HeldBy(b)
      /\ \A x : x = handle[h] => HeldBy(x)' = HeldBy(x) \ {h} /\ h \in HeldBy(x)
      /\ \A x : x # b /\ x # handle[h] => HeldBy(x)' = HeldBy(x)
  BY ZenonT(30), <1>1, HoldersAfter
<1>5. HeldBy(b) = {}
  BY Zenon, <1>1 DEF HeldBy
<1>6. Cardinality(HeldBy(b)') = 1
  <2>1. HeldBy(b)' = {h}
    BY Zenon, <1>4, <1>5
  <2>2. QED BY Zenon, <2>1 DEF CardFacts
<1>7. ASSUME NEW x \in Blocks \ {b} PROVE Refs(x)' = Cardinality(HeldBy(x)')
  <2>1. CASE x # handle[h]
    BY Zenon, <1>2, <1>4, <2>1 DEF CountersInv
  <2>2. CASE x = handle[h]
    <3>1. x # Null
      BY PoolAssumption DEF PoolTypes
    <3>2. h \in Buffers
      BY Zenon, <2>2, <3>1 DEF Handed
    <3>3. HeldBy(x)' = {}
      <4>1. \A g \in Handles : handle'[g] # x
        <5>1. \A g \in Handles : handle[g] = x => g = h
          BY Zenon, <2>2, <3>1, <3>2 DEF PlaceInv
        <5>2. QED BY Zenon, <1>1, <2>2, <5>1
      <4>2. QED BY Zenon, <4>1 DEF HeldBy
    <3>4. Cardinality({}) = 0
      BY Zenon DEF CardFacts
    <3>5. QED BY ZenonT(30), <1>2, <2>2, <3>3, <3>4
  <2>3. QED BY Zenon, <2>1, <2>2
<1>8. \A x \in Blocks' : Refs(x)' = Cardinality(HeldBy(x)')
  BY Zenon, <1>2, <1>6, <1>7
<1>9. ASSUME NEW x \in Blocks \ {b} PROVE IsHeld(x)' \/ IsGoing(x)' <=> IsHeld(x) \/ IsGoing(x)
  <2>1. x # Null
    BY PoolAssumption DEF PoolTypes
  <2>2. CASE handle[h] = Null
    <3>1. leaving' = leaving /\ step' = step
      BY Zenon, <2>2 DEF Handed
    <3>2. IsHeld(x)' <=> IsHeld(x)
      BY Zenon, <1>1, <2>1, <2>2 DEF IsHeld
    <3>3. IsGoing(x)' <=> IsGoing(x)
      BY Zenon, <3>1 DEF IsGoing
    <3>4. QED BY Zenon, <3>2, <3>3
  <2>3. CASE handle[h] # Null
    <3>1. /\ leaving'[h] = handle[h] /\ step'[h] = "stats"
          /\ \A g \in Handles : g # h => leaving'[g] = leaving[g] /\ step'[g] = step[g]
      BY <2>3 DEF Handed, PoolTypes
    <3>2. leaving[h] = Null
      BY Zenon DEF PlaceInv
    <3>3. CASE x = handle[h]
      BY Zenon, <3>1, <3>3 DEF IsHeld, IsGoing
    <3>4. CASE x # handle[h]
      <4>1. IsHeld(x)' <=> IsHeld(x)
        BY Zenon, <1>1, <3>4 DEF IsHeld
      <4>2. IsGoing(x)' <=> IsGoing(x)
        BY Zenon, <2>1, <3>1, <3>2, <3>4 DEF IsGoing
      <4>3. QED BY Zenon, <4>1, <4>2
    <3>5. QED BY ZenonT(30), <3>3, <3>4
  <2>4. QED BY Zenon, <2>2, <2>3
<1>10. b \notin LiveBlocks /\ IsHeld(b)'
  <2>1. ~IsHeld(b) /\ ~IsGoing(b)
    BY Zenon, <1>1 DEF IsHeld, IsGoing
  <2>2. QED BY Zenon, <1>1, <2>1, LiveIs DEF IsHeld
<1>11. LiveBlocks' = LiveBlocks \cup {b}
  <2>1. \A x : x \in LiveBlocks' <=> x \in LiveBlocks \/ x = b
    BY Zenon, <1>2, <1>9, <1>10, LiveIs
  <2>2. QED BY Zenon, <2>1
<1>12. live' = Cardinality(LiveBlocks')
  BY Zenon, <1>10, <1>11, CountsFinite, OneMore DEF CountersInv, Handed
<1>13. /\ \A x : x \in LiveEscaped <=> x \in LiveBlocks /\ Cls(x) = ESCAPED
       /\ \A x : x \in LiveEscaped' <=> x \in LiveBlocks' /\ Cls(x)' = ESCAPED
       /\ LiveBlocks \subseteq Blocks
  BY Zenon DEF LiveEscaped, LiveBlocks
<1>14. escaped' = Cardinality(LiveEscaped')
  <2>1. CASE c = ESCAPED
    <3>1. LiveEscaped' = LiveEscaped \cup {b} /\ b \notin LiveEscaped
      BY Zenon, <1>2, <1>10, <1>11, <1>13, <2>1
    <3>2. QED BY Zenon, <2>1, <3>1, CountsFinite, OneMore DEF CountersInv, Handed
  <2>2. CASE c # ESCAPED
    <3>1. LiveEscaped' = LiveEscaped
      BY Zenon, <1>2, <1>10, <1>11, <1>13, <2>2
    <3>2. QED BY Zenon, <2>2, <3>1 DEF CountersInv, Handed
  <2>3. QED BY Zenon, <2>1, <2>2
<1>15. QED BY ZenonT(30), <1>3, <1>8, <1>12, <1>14 DEF CountersInv

(* When the same blocks are counted, live and escaped stay. *)
LEMMA CountersStay ==
  ASSUME CountersInv, Kept, live' = live, escaped' = escaped,
         \A x \in Blocks : IsHeld(x)' \/ IsGoing(x)' <=> IsHeld(x) \/ IsGoing(x),
         \A x \in Blocks : Refs(x)' = Cardinality(HeldBy(x)')
  PROVE  CountersInv'
<1>1. LiveBlocks' = LiveBlocks
  <2>1. \A x : x \in LiveBlocks' <=> x \in LiveBlocks
    BY Zenon, LiveIs DEF Kept
  <2>2. QED BY Zenon, <2>1
<1>2. LiveEscaped' = LiveEscaped
  <2>1. LiveBlocks \subseteq Blocks
    BY Zenon DEF LiveBlocks
  <2>2. \A x : x \in LiveEscaped' <=> x \in LiveEscaped
    BY Zenon, <1>1, <2>1 DEF LiveEscaped, Kept
  <2>3. QED BY Zenon, <2>2
<1>3. QED BY Zenon, <1>1, <1>2 DEF CountersInv, Kept

LEMMA CountCopy ==
  ASSUME CardFacts, PoolTypes, PlaceInv, CountersInv,
         NEW h \in Handles, NEW g \in Handles, Copy(h, g)
  PROVE  CountersInv' /\ Kept /\ header' \in [Blocks' -> Headers]
<1>0. PICK b : b = handle[g]
  OBVIOUS
<1>1. /\ handle[h] = Null /\ b # Null /\ leaving' = leaving /\ step' = step
      /\ handle' = [handle EXCEPT ![h] = b] /\ header' = [header EXCEPT ![b].refcount = @ + 1]
      /\ live' = live /\ escaped' = escaped
  BY <1>0 DEF Copy
<1>2. b \in Blocks
  BY <1>0, <1>1 DEF PlaceInv
<1>3. Refs(b) + 1 \in Nat /\ header' = [header EXCEPT ![b].refcount = Refs(b) + 1]
  BY <1>1, <1>2 DEF PoolTypes, Headers, Refs
<1>4. /\ Kept /\ header' \in [Blocks' -> Headers]
      /\ Refs(b)' = Refs(b) + 1 /\ \A x \in Blocks \ {b} : Refs(x)' = Refs(x)
  BY Zenon, <1>2, <1>3, CountChanged DEF Kept
<1>5. handle'[h] = b /\ \A f \in Handles : f # h => handle'[f] = handle[f]
  BY <1>1 DEF PoolTypes
<1>6. /\ HeldBy(b)' = HeldBy(b) \cup {h} /\ h \notin HeldBy(b)
      /\ \A x : x # b /\ x # Null => HeldBy(x)' = HeldBy(x)
  <2>1. handle[h] # b
    BY Zenon, <1>1
  <2>2. /\ HeldBy(b)' = HeldBy(b) \cup {h} /\ h \notin HeldBy(b)
        /\ \A x : x # b /\ x # handle[h] => HeldBy(x)' = HeldBy(x)
    BY Zenon, <1>5, <2>1, HoldersAfter
  <2>3. QED BY Zenon, <1>1, <2>2
<1>7. ASSUME NEW x \in Blocks PROVE Refs(x)' = Cardinality(HeldBy(x)')
  <2>1. CASE x = b
    <3>1. Cardinality(HeldBy(b)') = Cardinality(HeldBy(b)) + 1
      BY Zenon, <1>6, HoldersFinite, OneMore
    <3>2. QED BY Zenon, <1>2, <1>4, <2>1, <3>1 DEF CountersInv
  <2>2. CASE x # b
    <3>1. x # Null
      BY PoolAssumption DEF PoolTypes
    <3>2. QED BY ZenonT(30), <1>4, <1>6, <2>2, <3>1 DEF CountersInv
  <2>3. QED BY Zenon, <2>1, <2>2
<1>8. ASSUME NEW x \in Blocks PROVE IsHeld(x)' \/ IsGoing(x)' <=> IsHeld(x) \/ IsGoing(x)
  <2>1. x # Null
    BY PoolAssumption DEF PoolTypes
  <2>2. IsGoing(x)' <=> IsGoing(x)
    BY Zenon, <1>1 DEF IsGoing
  <2>3. IsHeld(x)' <=> IsHeld(x)
    BY Zenon, <1>0, <1>1, <1>5, <2>1 DEF IsHeld
  <2>4. QED BY Zenon, <2>2, <2>3
<1>9. QED BY Zenon, <1>1, <1>4, <1>7, <1>8, CountersStay

LEMMA CountMove ==
  ASSUME CardFacts, PoolTypes, PlaceInv, CountersInv, NEW h \in Handles, NEW g \in Handles, h # g,
         Move(h, g)
  PROVE  CountersInv' /\ Kept /\ header' \in [Blocks' -> Headers]
<1>0. PICK b : b = handle[g]
  OBVIOUS
<1>1. /\ handle[h] = Null /\ b # Null /\ header' = header /\ leaving' = leaving /\ step' = step
      /\ live' = live /\ escaped' = escaped
  BY <1>0 DEF Move
<1>2. /\ Kept /\ header' \in [Blocks' -> Headers] /\ \A x \in Blocks : Refs(x)' = Refs(x)
  BY ZenonT(30), <1>1 DEF Kept, Blocks, Cls, Slot, Refs, PoolTypes
<1>3. /\ handle'[h] = b /\ handle'[g] = Null
      /\ \A f \in Handles : f # h /\ f # g => handle'[f] = handle[f]
  BY <1>0 DEF PoolTypes, Move
<1>4. /\ \A x, f : f \in HeldBy(x) <=> f \in Handles /\ handle[f] = x
      /\ \A x, f : f \in HeldBy(x)' <=> f \in Handles /\ handle'[f] = x
  BY ZenonT(30) DEF HeldBy
<1>5. HeldBy(b)' = (HeldBy(b) \ {g}) \cup {h} /\ g \in HeldBy(b) /\ h \notin HeldBy(b)
  BY SMTT(30), <1>0, <1>1, <1>3, <1>4
<1>6. ASSUME NEW x, x # b, x # Null PROVE HeldBy(x)' = HeldBy(x)
  BY <1>0, <1>1, <1>3, <1>4, <1>6
<1>7. Cardinality(HeldBy(b)') = Cardinality(HeldBy(b))
  <2>1. IsFiniteSet(HeldBy(b)) /\ IsFiniteSet(HeldBy(b) \ {g}) /\ h \notin HeldBy(b) \ {g}
    <3>1. HeldBy(b) \ {g} \subseteq HeldBy(b)
      BY Zenon
    <3>2. QED BY Zenon, <1>5, <3>1, HoldersFinite DEF CardFacts
  <2>2. /\ Cardinality(HeldBy(b)) \in Nat
        /\ Cardinality(HeldBy(b) \ {g}) = Cardinality(HeldBy(b)) - 1
    BY Zenon, <1>5, <2>1, OneLess
  <2>3. Cardinality(HeldBy(b)') = Cardinality(HeldBy(b) \ {g}) + 1
    BY Zenon, <1>5, <2>1, OneMore
  <2>4. QED BY <2>2, <2>3
<1>8. ASSUME NEW x \in Blocks PROVE Refs(x)' = Cardinality(HeldBy(x)')
  <2>1. x # Null
    BY PoolAssumption DEF PoolTypes
  <2>2. QED BY ZenonT(30), <1>2, <1>6, <1>7, <2>1 DEF CountersInv
<1>9. ASSUME NEW x \in Blocks PROVE IsHeld(x)' \/ IsGoing(x)' <=> IsHeld(x) \/ IsGoing(x)
  <2>1. x # Null
    BY PoolAssumption DEF PoolTypes
  <2>2. IsGoing(x)' <=> IsGoing(x)
    BY Zenon, <1>1 DEF IsGoing
  <2>3. IsHeld(x)' <=> IsHeld(x)
    BY Zenon, <1>0, <1>1, <1>3, <2>1 DEF IsHeld
  <2>4. QED BY Zenon, <2>2, <2>3
<1>10. QED BY Zenon, <1>1, <1>2, <1>8, <1>9, CountersStay

LEMMA CountRelease ==
  ASSUME CardFacts, PoolTypes, PlaceInv, CountersInv, NEW h \in Handles, Release(h)
  PROVE  CountersInv' /\ Kept /\ header' \in [Blocks' -> Headers]
<1>0. PICK b : b = handle[h]
  OBVIOUS
<1>1. /\ step[h] = "none" /\ b # Null /\ header' = [header EXCEPT ![b].refcount = @ - 1]
      /\ IF Refs(b) = 1
         THEN leaving' = [leaving EXCEPT ![h] = b] /\ step' = [step EXCEPT ![h] = "stats"]
         ELSE leaving' = leaving /\ step' = step
      /\ handle' = [handle EXCEPT ![h] = Null] /\ live' = live /\ escaped' = escaped
  BY <1>0 DEF Release, Refs, Idle
<1>2. b \in Blocks /\ leaving[h] = Null
  BY <1>0, <1>1 DEF PlaceInv
<1>3. Refs(b) > 0 /\ (Refs(b) = 1 <=> \A g \in Handles : handle[g] = b => g = h)
  BY Zenon, <1>0, <1>2, LastHolder
<1>4. Refs(b) - 1 \in Nat /\ header' = [header EXCEPT ![b].refcount = Refs(b) - 1]
  BY <1>1, <1>2, <1>3 DEF PoolTypes, Headers, Refs
<1>5. /\ Kept /\ header' \in [Blocks' -> Headers]
      /\ Refs(b)' = Refs(b) - 1 /\ \A x \in Blocks \ {b} : Refs(x)' = Refs(x)
  BY Zenon, <1>2, <1>4, CountChanged DEF Kept
<1>6. handle'[h] = Null /\ \A f \in Handles : f # h => handle'[f] = handle[f]
  BY <1>1 DEF PoolTypes
<1>7. /\ HeldBy(b)' = HeldBy(b) \ {h} /\ h \in HeldBy(b)
      /\ \A x : x # b /\ x # Null => HeldBy(x)' = HeldBy(x)
  <2>1. handle[h] # Null
    BY Zenon, <1>0, <1>1
  <2>2. /\ \A x : x = handle[h] => HeldBy(x)' = HeldBy(x) \ {h} /\ h \in HeldBy(x)
        /\ \A x : x # Null /\ x # handle[h] => HeldBy(x)' = HeldBy(x)
    BY Zenon, <1>6, <2>1, HoldersAfter
  <2>3. QED BY Zenon, <1>0, <2>2
<1>8. ASSUME NEW x \in Blocks PROVE Refs(x)' = Cardinality(HeldBy(x)')
  <2>1. x # Null
    BY PoolAssumption DEF PoolTypes
  <2>2. Cardinality(HeldBy(b)') = Cardinality(HeldBy(b)) - 1
    BY Zenon, <1>7, HoldersFinite, OneLess
  <2>3. QED BY ZenonT(30), <1>2, <1>5, <1>7, <2>1, <2>2 DEF CountersInv
<1>9. ASSUME NEW x \in Blocks PROVE IsHeld(x)' \/ IsGoing(x)' <=> IsHeld(x) \/ IsGoing(x)
  <2>1. x # Null
    BY PoolAssumption DEF PoolTypes
  <2>2. CASE Refs(b) # 1
    <3>1. leaving' = leaving /\ step' = step
      BY Zenon, <1>1, <2>2
    <3>2. IsGoing(x)' <=> IsGoing(x)
      BY Zenon, <3>1 DEF IsGoing
    <3>3. PICK g \in Handles : handle[g] = b /\ g # h
      BY Zenon, <1>3, <2>2
    <3>4. IsHeld(x)' <=> IsHeld(x)
      BY Zenon, <1>0, <1>6, <2>1, <3>3 DEF IsHeld
    <3>5. QED BY Zenon, <3>2, <3>4
  <2>3. CASE Refs(b) = 1
    <3>1. /\ leaving'[h] = b /\ step'[h] = "stats"
          /\ \A g \in Handles : g # h => leaving'[g] = leaving[g] /\ step'[g] = step[g]
      BY <1>1, <2>3 DEF PoolTypes
    <3>2. CASE x = b
      BY Zenon, <1>0, <3>1, <3>2 DEF IsHeld, IsGoing
    <3>3. CASE x # b
      <4>1. IsHeld(x)' <=> IsHeld(x)
        BY Zenon, <1>0, <1>6, <2>1, <3>3 DEF IsHeld
      <4>2. IsGoing(x)' <=> IsGoing(x)
        BY Zenon, <1>2, <2>1, <3>1, <3>3 DEF IsGoing
      <4>3. QED BY Zenon, <4>1, <4>2
    <3>4. QED BY Zenon, <3>2, <3>3
  <2>4. QED BY Zenon, <2>2, <2>3
<1>10. QED BY Zenon, <1>1, <1>5, <1>8, <1>9, CountersStay

LEMMA CountStats ==
  ASSUME CardFacts, PoolTypes, PlaceInv, CountersInv, NEW h \in Handles, ReleaseStats(h)
  PROVE  CountersInv'
<1>0. PICK b : b = leaving[h]
  OBVIOUS
<1>1. /\ step[h] = "stats" /\ step' = [step EXCEPT ![h] = "recycle"] /\ live' = live - 1
      /\ escaped' = (IF Cls(b) = ESCAPED THEN escaped - 1 ELSE escaped)
      /\ header' = header /\ handle' = handle /\ leaving' = leaving
  BY ZenonT(30), <1>0 DEF ReleaseStats, Cls
<1>2. b # Null /\ b \in Blocks
  BY ZenonT(30), <1>0, <1>1 DEF PlaceInv
<1>3. /\ Blocks' = Blocks /\ \A x : Cls(x)' = Cls(x) /\ Refs(x)' = Refs(x) /\ HeldBy(x)' = HeldBy(x)
  BY Zenon, <1>1 DEF Blocks, Cls, Refs, HeldBy
<1>4. step'[h] = "recycle" /\ \A g \in Handles : g # h => step'[g] = step[g]
  BY <1>1 DEF PoolTypes
<1>5. \A g \in Handles : handle[g] # b /\ (g # h => leaving[g] # b)
  BY Zenon, <1>0, <1>2 DEF PlaceInv
<1>6. IsGoing(b) /\ ~IsHeld(b)' /\ ~IsGoing(b)'
  <2>1. IsGoing(b)
    BY Zenon, <1>0, <1>1 DEF IsGoing
  <2>2. ~IsHeld(b)'
    BY ZenonT(30), <1>1, <1>5 DEF IsHeld
  <2>3. ~IsGoing(b)'
    BY <1>1, <1>4, <1>5 DEF IsGoing
  <2>4. QED BY Zenon, <2>1, <2>2, <2>3
<1>7. ASSUME NEW x, x # b PROVE IsHeld(x)' \/ IsGoing(x)' <=> IsHeld(x) \/ IsGoing(x)
  <2>1. IsHeld(x)' <=> IsHeld(x)
    BY Zenon, <1>1 DEF IsHeld
  <2>2. IsGoing(x)' <=> IsGoing(x)
    BY Zenon, <1>0, <1>1, <1>4, <1>7 DEF IsGoing
  <2>3. QED BY Zenon, <2>1, <2>2
<1>8. LiveBlocks' = LiveBlocks \ {b} /\ b \in LiveBlocks
  <2>1. \A x : x \in LiveBlocks' <=> x \in LiveBlocks /\ x # b
    BY Zenon, <1>3, <1>6, <1>7, LiveIs
  <2>2. QED BY Zenon, <1>2, <1>6, <2>1, LiveIs
<1>9. live' = Cardinality(LiveBlocks')
  BY Zenon, <1>1, <1>8, CountsFinite, OneLess DEF CountersInv
<1>10. escaped' = Cardinality(LiveEscaped')
  <2>1. CASE Cls(b) = ESCAPED
    <3>1. LiveEscaped' = LiveEscaped \ {b} /\ b \in LiveEscaped
      BY Zenon, <1>3, <1>8, <2>1 DEF LiveEscaped
    <3>2. QED BY Zenon, <1>1, <2>1, <3>1, CountsFinite, OneLess DEF CountersInv
  <2>2. CASE Cls(b) # ESCAPED
    <3>1. LiveEscaped' = LiveEscaped
      <4>1. \A x : x \in LiveEscaped' <=> x \in LiveEscaped
        <5>1. /\ \A x : x \in LiveEscaped <=> x \in LiveBlocks /\ Cls(x) = ESCAPED
              /\ \A x : x \in LiveEscaped' <=> x \in LiveBlocks' /\ Cls(x)' = ESCAPED
          BY Zenon DEF LiveEscaped
        <5>2. QED BY Zenon, <1>3, <1>8, <2>2, <5>1
      <4>2. QED BY Zenon, <4>1
    <3>2. QED BY Zenon, <1>1, <2>2, <3>1 DEF CountersInv
  <2>3. QED BY Zenon, <2>1, <2>2
<1>11. QED BY Zenon, <1>3, <1>9, <1>10 DEF CountersInv

LEMMA CountRecycle ==
  ASSUME CardFacts, PoolTypes, PlaceInv, CountersInv, NEW h \in Handles, Recycle(h)
  PROVE  CountersInv' /\ header' \in [Blocks' -> Headers]
<1>0. PICK b : b = leaving[h]
  OBVIOUS
<1>1. /\ step[h] = "recycle" /\ step' = [step EXCEPT ![h] = "none"]
      /\ leaving' = [leaving EXCEPT ![h] = Null] /\ live' = live /\ escaped' = escaped
      /\ header' = [header EXCEPT ![b].magic = FALSE] /\ handle' = handle
  BY Zenon, <1>0 DEF Recycle
<1>2. b # Null /\ b \in Blocks
  BY <1>0, <1>1 DEF PlaceInv
<1>3. /\ Kept /\ header' \in [Blocks' -> Headers] /\ \A x \in Blocks : Refs(x)' = Refs(x)
  BY Zenon, <1>1, <1>2, MagicGone DEF Kept
<1>4. /\ leaving'[h] = Null /\ step'[h] = "none"
      /\ \A g \in Handles : g # h => leaving'[g] = leaving[g] /\ step'[g] = step[g]
  BY <1>1 DEF PoolTypes
<1>5. ASSUME NEW x \in Blocks PROVE IsHeld(x)' \/ IsGoing(x)' <=> IsHeld(x) \/ IsGoing(x)
  <2>1. IsHeld(x)' <=> IsHeld(x)
    BY Zenon, <1>1 DEF IsHeld
  <2>2. IsGoing(x)' <=> IsGoing(x)
    BY <1>1, <1>4 DEF IsGoing
  <2>3. QED BY Zenon, <2>1, <2>2
<1>6. \A x \in Blocks : Refs(x)' = Cardinality(HeldBy(x)')
  BY Zenon, <1>1, <1>3 DEF CountersInv, HeldBy
<1>7. QED BY Zenon, <1>1, <1>3, <1>5, <1>6, CountersStay

-----------------------------------------------------------------------------
(* The pool's steps, and what follows. *)

PoolInv ==
  PoolTypes /\ PlaceInv /\ BinsInv /\ RoomInv /\ CapInv /\ CountersInv

LEMMA PoolStart ==
  ASSUME CardFacts, PoolInit
  PROVE  PoolInv
<1>1. /\ bump = 0 /\ bins = [c \in Classes |-> <<>>] /\ header = <<>>
      /\ live = 0 /\ escaped = 0 /\ made = 0
      /\ handle = [h \in Handles |-> Null] /\ cap = [h \in Buffers |-> 0]
      /\ leaving = [h \in Handles |-> Null] /\ step = [h \in Handles |-> "none"]
  BY Zenon DEF PoolInit
<1>2. Blocks = {}
  BY <1>1 DEF Blocks
<1>3. PoolTypes
  <2>1. header \in [Blocks -> Headers]
    BY <1>1 DEF Blocks
  <2>2. QED BY <1>1, <1>2, <2>1 DEF PoolTypes
<1>4. \A c \in Classes : Free(c) = {}
  BY <1>1 DEF Free
<1>5. PlaceInv
  <2>1. \A h \in Handles : step[h] = "none" /\ leaving[h] = Null /\ handle[h] = Null
    BY <1>1
  <2>2. Buffers \subseteq Handles
    BY PoolAssumption
  <2>3. QED BY Zenon, <1>2, <1>4, <2>1, <2>2 DEF PlaceInv
<1>6. BinsInv
  BY <1>1 DEF BinsInv, Once
<1>7. RoomInv
  <2>1. bump <= arena_bytes
    BY SMTT(30), <1>1, ArenaSize
  <2>2. QED BY Zenon, <1>2, <2>1 DEF RoomInv
<1>8. CapInv
  BY <1>1, PoolAssumption DEF CapInv
<1>9. CountersInv
  <2>1. LiveBlocks = {} /\ LiveEscaped = {}
    BY Zenon, <1>2 DEF LiveBlocks, LiveEscaped
  <2>2. QED BY Zenon, <1>1, <1>2, <2>1 DEF CountersInv, CardFacts
<1>10. QED BY Zenon, <1>3, <1>5, <1>6, <1>7, <1>8, <1>9 DEF PoolInv

(* make_pool(), the constructor of a buffer, and reserve(). *)
LEMMA PoolAllocate ==
  ASSUME CardFacts, PoolInv, NEW h \in Handles, NEW bytes \in Requests, step[h] = "none",
         handle[h] # Null => h \in Buffers, allocate(h, bytes),
         cap' = IF h \in Buffers THEN [cap EXCEPT ![h] = bytes] ELSE cap
  PROVE  PoolInv'
<1>1. bytes \in Nat
  BY PoolAssumption
<1>2. handle[h] # Null => h \in Buffers /\ Refs(handle[h]) = 1
  <2> SUFFICES ASSUME handle[h] # Null PROVE h \in Buffers /\ Refs(handle[h]) = 1
    OBVIOUS
  <2>1. h \in Buffers /\ handle[h] \in Blocks
    BY Zenon DEF PoolInv, PlaceInv
  <2>2. \A g \in Handles : handle[g] = handle[h] => g = h
    BY Zenon, <2>1 DEF PoolInv, PlaceInv
  <2>3. QED BY ZenonT(30), <2>1, <2>2, LastHolder DEF PoolInv
<1>3. Allocated(h, bytes)
  BY Zenon, <1>1, <1>2, Allocate DEF PoolInv
<1>4. PICK b \in Nat, c \in Classes \cup {ESCAPED}, slot \in Nat : Handed(h, bytes, b, c, slot)
  BY Zenon, <1>3 DEF Allocated
<1>5. /\ Given(h, b, c, slot) /\ bytes <= slot /\ handle' = [handle EXCEPT ![h] = b]
      /\ \/ handle[h] = Null /\ leaving' = leaving /\ step' = step
         \/ /\ handle[h] # Null /\ h \in Buffers
            /\ leaving' = [leaving EXCEPT ![h] = handle[h]]
            /\ step' = [step EXCEPT ![h] = "stats"]
      /\ \A g \in Handles : handle[g] # b /\ leaving[g] # b
      /\ \A x \in Classes : Free(x)' = Free(x) \ {b}
  BY Zenon, <1>4 DEF Handed
<1>6. PlaceInv'
  BY Zenon, <1>5, PlaceGiven DEF PoolInv
<1>7. CountersInv'
  BY Zenon, <1>1, <1>4, CountHanded DEF PoolInv
<1>8. PoolTypes'
  <2>1. /\ header' \in [Blocks' -> Headers] /\ Blocks' \subseteq Nat
        /\ bins' \in [Classes -> Seq(Nat)] /\ bump' \in Nat /\ made' \in Nat
    BY ZenonT(30), <1>3, <1>5 DEF Given, Allocated, PoolInv, PoolTypes
  <2>2. /\ handle' \in [Handles -> Nat \cup {Null}] /\ leaving' \in [Handles -> Nat \cup {Null}]
        /\ step' \in [Handles -> {"none", "stats", "recycle"}]
    BY ZenonT(30), <1>5 DEF PoolInv, PoolTypes
  <2>3. cap' \in [Buffers -> Nat]
    BY <1>1 DEF PoolInv, PoolTypes
  <2>4. QED BY Zenon, <2>1, <2>2, <2>3 DEF PoolTypes, Headers, Classes
<1>9. CapInv'
  <2> SUFFICES ASSUME NEW g \in Buffers
               PROVE  (IF handle[g] = Null THEN cap[g] = 0 ELSE cap[g] <= Slot(handle[g]))'
    BY ZenonT(30) DEF CapInv
  <2>0. g \in Handles /\ b # Null
    BY PoolAssumption
  <2>1. CASE g = h
    <3>1. handle'[g] = b /\ cap'[g] = bytes /\ Slot(b)' = slot
      BY <1>5, <2>1 DEF PoolInv, PoolTypes, Given
    <3>2. cap'[g] <= Slot(b)'
      BY Zenon, <1>5, <3>1
    <3>3. QED BY ZenonT(30), <2>0, <3>1, <3>2 DEF Slot
  <2>2. CASE g # h
    <3>1. handle'[g] = handle[g] /\ cap'[g] = cap[g] /\ handle[g] # b
      BY <1>5, <2>0, <2>2 DEF PoolInv, PoolTypes
    <3>2. CASE handle[g] = Null
      BY Zenon, <3>1, <3>2 DEF PoolInv, CapInv
    <3>3. CASE handle[g] # Null
      <4>1. PICK x \in Blocks : x = handle[g]
        BY Zenon, <2>0, <3>3 DEF PoolInv, PlaceInv
      <4>2. cap[g] <= Slot(x) /\ Slot(x)' = Slot(x)
        BY Zenon, <1>5, <3>1, <3>3, <4>1 DEF PoolInv, CapInv, Given
      <4>3. QED BY Zenon, <3>1, <3>3, <4>1, <4>2 DEF Slot
    <3>4. QED BY ZenonT(30), <3>2, <3>3
  <2>3. QED BY Zenon, <2>1, <2>2
<1>10. QED BY ZenonT(30), <1>3, <1>6, <1>7, <1>8, <1>9 DEF PoolInv, Allocated

(* A step that makes no block and leaves the buffers alone, or empties one, or
   hands one on. *)
LEMMA CapKept ==
  ASSUME PoolInv, Kept,
         \A f \in Buffers : \/ handle'[f] = Null /\ cap'[f] = 0
                            \/ \E g \in Buffers : handle'[f] = handle[g] /\ cap'[f] = cap[g]
  PROVE  CapInv'
<1> SUFFICES ASSUME NEW f \in Buffers
             PROVE  (IF handle[f] = Null THEN cap[f] = 0 ELSE cap[f] <= Slot(handle[f]))'
  BY Zenon DEF CapInv
<1>1. CASE handle'[f] = Null /\ cap'[f] = 0
  BY Zenon, <1>1
<1>2. ASSUME NEW g \in Buffers, handle'[f] = handle[g], cap'[f] = cap[g]
      PROVE  (IF handle[f] = Null THEN cap[f] = 0 ELSE cap[f] <= Slot(handle[f]))'
  <2>1. CASE handle[g] = Null
    BY Zenon, <1>2, <2>1 DEF PoolInv, CapInv
  <2>2. CASE handle[g] # Null
    <3>1. g \in Handles
      BY PoolAssumption
    <3>2. PICK x \in Blocks : x = handle[g]
      BY Zenon, <2>2, <3>1 DEF PoolInv, PlaceInv
    <3>3. cap[g] <= Slot(x) /\ Slot(x)' = Slot(x)
      BY Zenon, <2>2, <3>2 DEF PoolInv, CapInv, Kept
    <3>4. QED BY ZenonT(30), <1>2, <2>2, <3>2, <3>3 DEF Slot
  <2>3. QED BY Zenon, <2>1, <2>2
<1>3. QED BY Zenon, <1>1, <1>2

LEMMA BinsKept == ASSUME BinsInv, bins' = bins PROVE BinsInv'
BY ZenonT(30) DEF BinsInv, Once

LEMMA PoolStep ==
  ASSUME CardFacts, PoolInv, [PoolNext]_pool_vars
  PROVE  PoolInv'
<1>0. /\ PoolTypes /\ PlaceInv /\ BinsInv /\ RoomInv /\ CapInv /\ CountersInv
      /\ Buffers \subseteq Handles
  BY PoolAssumption DEF PoolInv
<1>1. ASSUME NEW h \in Handles, Release(h) PROVE PoolInv'
  <2>1. /\ handle[h] # Null /\ bump' = bump /\ made' = made /\ bins' = bins
        /\ handle' = [handle EXCEPT ![h] = Null]
        /\ cap' = IF h \in Buffers THEN [cap EXCEPT ![h] = 0] ELSE cap
        /\ leaving' \in {leaving, [leaving EXCEPT ![h] = handle[h]]}
        /\ step' \in {step, [step EXCEPT ![h] = "stats"]}
    BY <1>1 DEF Release
  <2>2. handle[h] \in Blocks
    BY Zenon, <1>0, <2>1 DEF PlaceInv
  <2>3. PlaceInv'
    BY Zenon, <1>0, <1>1, <2>2, LastHolder, PlaceRelease
  <2>4. CountersInv' /\ Kept /\ header' \in [Blocks' -> Headers]
    BY ZenonT(30), <1>0, <1>1, CountRelease
  <2>5. \A f \in Buffers : \/ handle'[f] = Null /\ cap'[f] = 0
                           \/ handle'[f] = handle[f] /\ cap'[f] = cap[f]
    BY <1>0, <2>1 DEF PoolTypes
  <2>6. CapInv'
    BY Zenon, <2>4, <2>5, CapKept
  <2>7. PoolTypes'
    <3>1. /\ handle' \in [Handles -> Nat \cup {Null}] /\ leaving' \in [Handles -> Nat \cup {Null}]
          /\ step' \in [Handles -> {"none", "stats", "recycle"}]
          /\ cap' \in [Buffers -> Nat]
      BY SMTT(30), <1>0, <2>1 DEF PoolTypes
    <3>2. Blocks' \subseteq Nat
      BY Zenon, <1>0, <2>4 DEF Kept, PoolTypes
    <3>3. QED BY ZenonT(30), <1>0, <2>1, <2>4, <3>1, <3>2 DEF PoolTypes, Headers, Classes
  <2>8. QED BY Zenon, <1>0, <2>1, <2>3, <2>4, <2>6, <2>7, RoomKept, BinsKept DEF PoolInv
<1>2. ASSUME NEW h \in Handles, ReleaseStats(h) PROVE PoolInv'
  <2>1. /\ step[h] = "stats" /\ step' = [step EXCEPT ![h] = "recycle"]
        /\ UNCHANGED <<bump, bins, header, made, handle, cap, leaving>>
    BY Zenon, <1>2 DEF ReleaseStats
  <2>2. Kept
    BY Zenon, <2>1 DEF Kept, Blocks, Cls, Slot
  <2>3. step'[h] = "recycle" /\ \A g \in Handles : g # h => step'[g] = step[g]
    BY SMTT(30), <1>0, <2>1 DEF PoolTypes
  <2>5. \A g \in Handles : (step[g] = "none" <=> leaving[g] = Null)'
    BY ZenonT(30), <1>0, <2>1, <2>3 DEF PlaceInv
  <2>6. PlaceInv'
    BY Zenon, <1>0, <2>1, <2>5, PlaceStays
  <2>7. CountersInv'
    BY Zenon, <1>0, <1>2, CountStats
  <2>8. CapInv'
    BY Zenon, <2>1, <2>2, CapKept
  <2>9. PoolTypes'
    <3>1. step' \in [Handles -> {"none", "stats", "recycle"}]
      BY <1>0, <2>1 DEF PoolTypes
    <3>2. QED BY ZenonT(30), <1>0, <2>1, <3>1 DEF PoolTypes, Headers, Classes, Blocks
  <2>10. QED BY Zenon, <1>0, <2>1, <2>2, <2>6, <2>7, <2>8, <2>9, RoomKept, BinsKept DEF PoolInv
<1>3. ASSUME NEW h \in Handles, Recycle(h) PROVE PoolInv'
  <2>1. /\ step' = [step EXCEPT ![h] = "none"] /\ leaving' = [leaving EXCEPT ![h] = Null]
        /\ UNCHANGED <<bump, made, handle, cap>>
    BY Zenon, <1>3 DEF Recycle
  <2>2. PlaceInv' /\ BinsInv' /\ Kept /\ bins' \in [Classes -> Seq(Nat)]
    BY Zenon, <1>0, <1>3, PlaceRecycle
  <2>3. CountersInv' /\ header' \in [Blocks' -> Headers]
    BY Zenon, <1>0, <1>3, CountRecycle
  <2>4. CapInv'
    BY Zenon, <2>1, <2>2, CapKept
  <2>5. PoolTypes'
    <3>1. /\ leaving' \in [Handles -> Nat \cup {Null}]
          /\ step' \in [Handles -> {"none", "stats", "recycle"}]
      BY <1>0, <2>1 DEF PoolTypes
    <3>2. QED BY ZenonT(30), <1>0, <2>1, <2>2, <2>3, <3>1 DEF PoolTypes, Headers, Classes, Kept
  <2>6. QED BY Zenon, <1>0, <2>1, <2>2, <2>3, <2>4, <2>5, RoomKept DEF PoolInv
<1>4. ASSUME NEW h \in Handles, NEW bytes \in Requests, Make(h, bytes) \/ Reserve(h, bytes)
      PROVE  PoolInv'
  <2>1. /\ step[h] = "none" /\ (handle[h] # Null => h \in Buffers) /\ allocate(h, bytes)
        /\ cap' = IF h \in Buffers THEN [cap EXCEPT ![h] = bytes] ELSE cap
    BY Zenon, <1>4 DEF Make, Reserve, Idle
  <2>2. QED BY Zenon, <2>1, PoolAllocate
<1>5. ASSUME NEW h \in Handles, NEW g \in Handles, h # g, Copy(h, g) PROVE PoolInv'
  <2>1. /\ h \notin Buffers /\ handle' = [handle EXCEPT ![h] = handle[g]]
        /\ UNCHANGED <<bump, bins, made, cap, leaving, step>>
    BY <1>5 DEF Copy
  <2>2. CountersInv' /\ Kept /\ header' \in [Blocks' -> Headers]
    BY Zenon, <1>0, <1>5, CountCopy
  <2>3. PlaceInv'
    BY ZenonT(30), <1>0, <1>5, PlaceCopy
  <2>4. \A f \in Buffers : handle'[f] = handle[f] /\ cap'[f] = cap[f]
    BY <1>0, <2>1 DEF PoolTypes
  <2>5. CapInv'
    BY Zenon, <2>2, <2>4, CapKept
  <2>6. PoolTypes'
    <3>1. handle' \in [Handles -> Nat \cup {Null}]
      BY <1>0, <2>1 DEF PoolTypes
    <3>2. QED BY ZenonT(30), <1>0, <2>1, <2>2, <3>1 DEF PoolTypes, Headers, Classes, Kept
  <2>7. QED BY ZenonT(30), <1>0, <2>1, <2>2, <2>3, <2>5, <2>6, RoomKept, BinsKept DEF PoolInv
<1>6. ASSUME NEW h \in Handles, NEW g \in Handles, h # g, Move(h, g) PROVE PoolInv'
  <2>1. /\ h \in Buffers <=> g \in Buffers
        /\ handle[h] = Null /\ handle' = [handle EXCEPT ![h] = handle[g], ![g] = Null]
        /\ cap' = IF h \in Buffers THEN [cap EXCEPT ![h] = cap[g], ![g] = 0] ELSE cap
        /\ UNCHANGED <<bump, bins, made, leaving, step>>
    BY Zenon, <1>6 DEF Move
  <2>2. CountersInv' /\ Kept /\ header' \in [Blocks' -> Headers]
    BY Zenon, <1>0, <1>6, CountMove
  <2>3. PlaceInv'
    BY Zenon, <1>0, <1>6, PlaceMove
  <2>4. ASSUME NEW f \in Buffers
        PROVE  \/ handle'[f] = Null /\ cap'[f] = 0
               \/ \E e \in Buffers : handle'[f] = handle[e] /\ cap'[f] = cap[e]
    <3>1. f \in Handles
      BY Zenon, <1>0
    <3>2. CASE f = g
      <4>1. handle'[f] = Null /\ cap'[f] = 0
        BY <1>0, <2>1, <3>2 DEF PoolTypes
      <4>2. QED BY ZenonT(30), <4>1
    <3>3. CASE f = h
      <4>1. g \in Buffers /\ handle'[f] = handle[g] /\ cap'[f] = cap[g]
        BY <1>0, <1>6, <2>1, <3>3 DEF PoolTypes
      <4>2. QED BY ZenonT(30), <4>1
    <3>4. CASE f # g /\ f # h
      <4>1. handle'[f] = handle[f] /\ cap'[f] = cap[f]
        BY <1>0, <2>1, <3>1, <3>4 DEF PoolTypes
      <4>2. QED BY ZenonT(30), <4>1
    <3>5. QED BY Zenon, <3>2, <3>3, <3>4
  <2>5. CapInv'
    BY Zenon, <2>2, <2>4, CapKept
  <2>6. PoolTypes'
    <3>1. handle' \in [Handles -> Nat \cup {Null}] /\ cap' \in [Buffers -> Nat]
      BY ZenonT(30), <1>0, <2>1 DEF PoolTypes
    <3>2. QED BY ZenonT(30), <1>0, <2>1, <2>2, <3>1 DEF PoolTypes, Headers, Classes, Kept
  <2>7. QED BY ZenonT(30), <1>0, <2>1, <2>2, <2>3, <2>5, <2>6, RoomKept, BinsKept DEF PoolInv
<1>7. CASE UNCHANGED pool_vars
  <2>1. UNCHANGED <<bump, bins, header, live, escaped, made, handle, cap, leaving, step>>
    BY Zenon, <1>7 DEF pool_vars
  <2>2. PoolTypes'
    BY Zenon, <1>0, <2>1 DEF PoolTypes, Blocks, Headers, Classes
  <2>3. PlaceInv'
    <3>1. \A g \in Handles : (step[g] = "none" <=> leaving[g] = Null)'
      BY Zenon, <1>0, <2>1 DEF PlaceInv
    <3>2. QED BY Zenon, <1>0, <2>1, <3>1, PlaceStays
  <2>4. Kept
    BY Zenon, <2>1 DEF Kept, Blocks, Cls, Slot
  <2>5. CapInv'
    BY Zenon, <2>1, <2>4, CapKept
  <2>6. \A x \in Blocks : Refs(x)' = Cardinality(HeldBy(x)')
    BY Zenon, <1>0, <2>1 DEF CountersInv, HeldBy, Refs
  <2>7. \A x \in Blocks : IsHeld(x)' \/ IsGoing(x)' <=> IsHeld(x) \/ IsGoing(x)
    BY Zenon, <2>1 DEF IsHeld, IsGoing
  <2>8. CountersInv'
    BY Zenon, <1>0, <2>1, <2>4, <2>6, <2>7, CountersStay
  <2>9. QED BY Zenon, <1>0, <2>1, <2>2, <2>3, <2>4, <2>5, <2>8, RoomKept, BinsKept DEF PoolInv
<1>8. QED BY ZenonT(30), <1>1, <1>2, <1>3, <1>4, <1>5, <1>6, <1>7 DEF PoolNext

LEMMA CountsFollow ==
  ASSUME CardFacts, PoolInv
  PROVE  CountIsHandles
<1>0. PoolTypes /\ PlaceInv /\ CountersInv
  BY Zenon DEF PoolInv
<1>1. ASSUME NEW b \in Blocks
      PROVE  /\ header[b].refcount = Cardinality(HeldBy(b))
             /\ HeldBy(b) # {} => header[b].magic /\ InBin(b) = {}
             /\ Cardinality(Leaving(b)) <= 1
             /\ Leaving(b) # {} => HeldBy(b) = {} /\ InBin(b) = {}
  <2>0. b # Null
    BY <1>0, PoolAssumption DEF PoolTypes
  <2>1. header[b].refcount = Cardinality(HeldBy(b))
    BY Zenon, <1>0 DEF CountersInv, Refs
  <2>2. ASSUME HeldBy(b) # {} PROVE header[b].magic /\ InBin(b) = {}
    <3>1. PICK h \in Handles : handle[h] = b
      BY ZenonT(30), <2>2 DEF HeldBy
    <3>2. header[b].magic
      BY <1>0, <2>0, <3>1 DEF PlaceInv, Magic
    <3>3. InBin(b) = {}
      BY ZenonT(30), <1>0, <3>1 DEF PlaceInv, InBin
    <3>4. QED BY Zenon, <3>2, <3>3
  <2>3. ASSUME Leaving(b) # {}
        PROVE  HeldBy(b) = {} /\ InBin(b) = {} /\ Cardinality(Leaving(b)) = 1
    <3>1. PICK h \in Handles : leaving[h] = b
      BY ZenonT(30), <2>3 DEF Leaving
    <3>2. \A g \in Handles : handle[g] # b /\ (leaving[g] = b => g = h)
      BY Zenon, <1>0, <2>0, <3>1 DEF PlaceInv
    <3>3. HeldBy(b) = {}
      BY Zenon, <3>2 DEF HeldBy
    <3>4. InBin(b) = {}
      BY ZenonT(30), <1>0, <3>1 DEF PlaceInv, InBin
    <3>5. Leaving(b) = {h}
      BY <3>1, <3>2 DEF Leaving
    <3>6. QED BY Zenon, <3>3, <3>4, <3>5 DEF CardFacts
  <2>4. Cardinality(Leaving(b)) <= 1
    <3>1. CASE Leaving(b) = {}
      <4>1. Cardinality(Leaving(b)) = 0
        BY Zenon, <3>1 DEF CardFacts
      <4>2. QED BY <4>1
    <3>2. CASE Leaving(b) # {}
      BY <2>3, <3>2
    <3>3. QED BY Zenon, <3>1, <3>2
  <2>5. QED BY ZenonT(30), <2>1, <2>2, <2>3, <2>4
<1>2. live = Cardinality(LiveBlocks)
  BY Zenon, <1>0 DEF CountersInv
<1>3. escaped = Cardinality({b \in LiveBlocks : header[b].cls = ESCAPED})
  BY Zenon, <1>0 DEF CountersInv, LiveEscaped, Cls
<1>4. QED BY Zenon, <1>1, <1>2, <1>3 DEF CountIsHandles

LEMMA PlacesFollow ==
  ASSUME CardFacts, PoolInv
  PROVE  NoBlockLost
<1>0. PoolTypes /\ PlaceInv /\ BinsInv /\ RoomInv /\ CapInv
  BY Zenon DEF PoolInv
<1>1. ASSUME NEW b \in Arena
      PROVE  /\ End(b) <= arena_bytes
             /\ \A d \in Arena : b < d => End(b) <= d
  <2>1. b \in Blocks /\ Cls(b) # ESCAPED
    BY Zenon DEF Arena, Cls
  <2>2. /\ need(Slot(b)) \in Nat /\ b + need(Slot(b)) <= bump
        /\ HeaderSize + Slot(b) <= need(Slot(b))
    BY ZenonT(30), <1>0, <2>1, ArenaBlock
  <2>3. b \in Nat /\ Slot(b) \in Nat /\ HeaderSize \in Nat /\ bump \in Nat /\ arena_bytes \in Nat
    BY <1>0, <2>1, BlockFields, ArenaSize, PoolAssumption DEF PoolTypes
  <2>4. End(b) = b + HeaderSize + Slot(b) /\ bump <= arena_bytes
    BY Zenon, <1>0 DEF End, Slot, RoomInv
  <2>5. End(b) \in Nat /\ End(b) <= b + need(Slot(b)) /\ End(b) <= arena_bytes
    BY <2>2, <2>3, <2>4
  <2>6. ASSUME NEW d \in Arena, b < d PROVE End(b) <= d
    <3>1. d \in Blocks /\ Cls(d) # ESCAPED
      BY Zenon DEF Arena, Cls
    <3>2. d \in Nat /\ b + need(Slot(b)) <= d
      BY Zenon, <1>0, <2>1, <2>6, <3>1, BlockFields DEF RoomInv
    <3>3. QED BY <2>2, <2>3, <2>5, <3>2
  <2>7. QED BY Zenon, <2>5, <2>6
<1>2. Disjoint
  BY Zenon, <1>1 DEF Disjoint
<1>3. \A h \in Buffers :
        IF handle[h] = Null THEN cap[h] = 0 ELSE cap[h] <= header[handle[h]].slot
  BY Zenon, <1>0 DEF CapInv, Slot
<1>4. \A c \in Classes :
        /\ \A i, j \in 1..Len(bins[c]) : bins[c][i] = bins[c][j] => i = j
        /\ \A b \in Free(c) : header[b].cls = c
  BY Zenon, <1>0 DEF BinsInv, Once, PlaceInv, Cls
<1>5. ASSUME NEW b \in Arena
      PROVE  Cardinality(InBin(b)) + Cardinality(Leaving(b))
               + (IF HeldBy(b) # {} THEN 1 ELSE 0) = 1
  <2>1. b \in Blocks /\ Cls(b) # ESCAPED
    BY Zenon DEF Arena, Cls
  <2>2. b # Null /\ Cls(b) \in Classes
    BY <1>0, <2>1, BlockFields, PoolAssumption DEF PoolTypes
  <2>3. Cardinality({}) = 0 /\ \A x : Cardinality({x}) = 1
    BY Zenon DEF CardFacts
  <2>4. \A c \in Classes : b \in Free(c) =>
          c = Cls(b) /\ \A h \in Handles : handle[h] # b /\ leaving[h] # b
    BY Zenon, <1>0 DEF PlaceInv
  <2>5. CASE Filed(b)
    <3>1. InBin(b) = {Cls(b)} /\ Leaving(b) = {} /\ HeldBy(b) = {}
      <4>1. \A h \in Handles : handle[h] # b /\ leaving[h] # b
        BY Zenon, <2>2, <2>4, <2>5 DEF Filed
      <4>2. Leaving(b) = {} /\ HeldBy(b) = {}
        BY ZenonT(30), <4>1 DEF Leaving, HeldBy
      <4>3. InBin(b) = {Cls(b)}
        BY <2>2, <2>4, <2>5 DEF InBin, Filed
      <4>4. QED BY Zenon, <4>2, <4>3
    <3>2. Cardinality(InBin(b)) = 1 /\ Cardinality(Leaving(b)) = 0
      BY Zenon, <2>3, <3>1
    <3>3. QED BY <3>1, <3>2
  <2>6. ASSUME NEW h \in Handles, handle[h] = b \/ leaving[h] = b PROVE InBin(b) = {}
    BY Zenon, <2>4, <2>6 DEF InBin
  <2>7. ASSUME NEW h \in Handles, leaving[h] = b
        PROVE  Leaving(b) = {h} /\ HeldBy(b) = {}
    <3>1. \A g \in Handles : handle[g] # b /\ (leaving[g] = b => g = h)
      BY Zenon, <1>0, <2>2, <2>7 DEF PlaceInv
    <3>2. HeldBy(b) = {}
      BY ZenonT(30), <3>1 DEF HeldBy
    <3>3. Leaving(b) = {h}
      BY <2>7, <3>1 DEF Leaving
    <3>4. QED BY Zenon, <3>2, <3>3
  <2>8. ASSUME NEW h \in Handles, handle[h] = b
        PROVE  Leaving(b) = {} /\ HeldBy(b) # {}
    <3>1. \A g \in Handles : leaving[g] # b
      BY ZenonT(30), <1>0, <2>2, <2>8 DEF PlaceInv
    <3>2. QED BY Zenon, <2>8, <3>1 DEF Leaving, HeldBy
  <2>9. ASSUME NEW h \in Handles, leaving[h] = b
        PROVE  Cardinality(InBin(b)) + Cardinality(Leaving(b))
                 + (IF HeldBy(b) # {} THEN 1 ELSE 0) = 1
    <3>1. InBin(b) = {} /\ Leaving(b) = {h} /\ HeldBy(b) = {}
      BY Zenon, <2>6, <2>7, <2>9
    <3>2. Cardinality(InBin(b)) = 0 /\ Cardinality(Leaving(b)) = 1
      BY Zenon, <2>3, <3>1
    <3>3. QED BY <3>1, <3>2
  <2>10. ASSUME NEW h \in Handles, handle[h] = b
         PROVE  Cardinality(InBin(b)) + Cardinality(Leaving(b))
                  + (IF HeldBy(b) # {} THEN 1 ELSE 0) = 1
    <3>1. InBin(b) = {} /\ Leaving(b) = {} /\ HeldBy(b) # {}
      BY Zenon, <2>6, <2>8, <2>10
    <3>2. Cardinality(InBin(b)) = 0 /\ Cardinality(Leaving(b)) = 0
      BY Zenon, <2>3, <3>1
    <3>3. QED BY <3>1, <3>2
  <2>11. QED BY ZenonT(30), <1>0, <2>1, <2>5, <2>9, <2>10 DEF PlaceInv
<1>6. QED BY Zenon, <1>2, <1>3, <1>4, <1>5 DEF NoBlockLost

-----------------------------------------------------------------------------
(* The conclusions *)

INSTANCE FiniteSetTheorems

LEMMA CardinalityFacts == CardFacts
<1>1. \A S, x : IsFiniteSet(S) /\ x \notin S => Cardinality(S \cup {x}) = Cardinality(S) + 1
  BY Zenon, FS_AddElement
<1>2. \A S, x : IsFiniteSet(S) /\ x \in S => Cardinality(S \ {x}) = Cardinality(S) - 1
  BY Zenon, FS_RemoveElement
<1>3. \A S, T : IsFiniteSet(S) /\ T \subseteq S => IsFiniteSet(T)
  BY Zenon, FS_Subset
<1>4. QED
  BY ZenonT(30), <1>1, <1>2, <1>3, FS_EmptySet, FS_Singleton, FS_AddElement, FS_CardinalityType
  DEF CardFacts

LEMMA PoolHolds == PoolSpec => []PoolInv
<1>1. PoolInit => PoolInv
  BY ZenonT(30), CardinalityFacts, PoolStart
<1>2. PoolInv /\ [PoolNext]_pool_vars => PoolInv'
  BY Zenon, CardinalityFacts, PoolStep
<1>3. QED BY PTL, <1>1, <1>2 DEF PoolSpec

(* memory_pool.hpp, retain() and release(): a reference count is the number of
   handles, a handle never points to a block that is on its way out or free, and
   live and escaped count what is handed out, for every number of handles, sizes
   and threads' interleaving of releases. *)
THEOREM CountsAreRight == PoolSpec => []CountIsHandles
<1>1. PoolInv => CountIsHandles
  BY ZenonT(30), CardinalityFacts, CountsFollow
<1>2. QED BY PTL, <1>1, PoolHolds

(* memory_pool.hpp, carve_from_arena(), pop_free() and push_free(): every block of
   the arena has bytes of its own and is in exactly one place, for every arena, list
   of classes and number of handles; a buffer's capacity fits into its block. *)
THEOREM BlocksAreKept == PoolSpec => []NoBlockLost
<1>1. PoolInv => NoBlockLost
  BY ZenonT(30), CardinalityFacts, PlacesFollow
<1>2. QED BY PTL, <1>1, PoolHolds

LEMMA PoolInvariants ==
  WorkersAssumption => (Spec => [](TypeOK /\ PlacesInv /\ CountInv))
<1> SUFFICES ASSUME WorkersAssumption PROVE Spec => [](TypeOK /\ PlacesInv /\ CountInv)
  OBVIOUS
<1>1. Init => TypeOK /\ PlacesInv /\ CountInv
  BY ZenonT(30), CardinalityFacts, PoolAtStart
<1>2. TypeOK /\ PlacesInv /\ CountInv /\ [Next]_vars => TypeOK' /\ PlacesInv' /\ CountInv'
  BY ZenonT(30), CardinalityFacts, TypeStep, PlacesStep, CountStep
<1>3. QED BY <1>1, <1>2, PTL DEF Spec

(* The pool's tasks add up: each one enqueue() gave out a valid future for is in one
   place, has run at most once, and outstanding counts those not yet done. *)
THEOREM TasksAddUp == WorkersAssumption => (Spec => []OutstandingCounts)
<1> SUFFICES ASSUME WorkersAssumption PROVE Spec => []OutstandingCounts
  OBVIOUS
<1>1. Spec => [](TypeOK /\ PlacesInv /\ CountInv)
  BY PoolInvariants
<1>2. TypeOK /\ PlacesInv /\ CountInv => OutstandingCounts
  BY ZenonT(30), CardinalityFacts, PlacesCount
<1>3. QED BY <1>1, <1>2, PTL

(* wait_empty() returns only when every task accepted before has run, for every
   number of workers, submitters and waiters. *)
THEOREM WaitEmptyIsRight == WorkersAssumption => (Spec => WaitEmptyMeansDone)
<1> SUFFICES ASSUME WorkersAssumption PROVE Spec => WaitEmptyMeansDone
  OBVIOUS
<1> DEFINE Returns ==
      \A x \in Waiters :
        waiter[x] # "back" /\ waiter'[x] = "back" => \A k \in accepted : executed[k] = 1
<1>1. Spec => [](TypeOK /\ PlacesInv /\ CountInv)
  BY PoolInvariants
<1>2. TypeOK /\ PlacesInv /\ CountInv /\ [Next]_vars => [Returns]_vars
  BY Zenon, CardinalityFacts, ReturnsDone
<1>3. QED BY <1>1, <1>2, PTL DEF Spec, WaitEmptyMeansDone
=============================================================================
