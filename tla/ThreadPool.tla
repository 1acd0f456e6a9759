----------------------------- MODULE ThreadPool -----------------------------
(***************************************************************************)
(* The worker pool every reactor shard runs its handlers on                *)
(* (src/muses/thread_pool.hpp).                                            *)
(*                                                                         *)
(* One step is one critical section under queue_mutex, one notification,   *)
(* which the code sends after it has released the mutex, or one task.      *)
(***************************************************************************)
EXTENDS Naturals, Sequences, FiniteSets, CondVar

CONSTANTS
  Workers,     \* the num_threads threads of the pool
  Submitters,  \* threads that call enqueue()
  Waiters,     \* threads that call wait_empty()
  MaxTasks     \* bound: calls of enqueue() per submitter

(* What is assumed of them. *)
WorkersAssumption ==
  IsFiniteSet(Workers) /\ Workers \cap Waiters = {} /\ MaxTasks \in Nat

VARIABLES
  tasks,        \* tasks
  outstanding,  \* outstanding
  stop,         \* stop
  idlers,       \* workers asleep on condition
  drainers,     \* threads asleep on drained_condition
  worker,       \* what each worker does: "loop", "run", "done", "notify", "exit"
  running,      \* the task a worker holds
  submitter,    \* "idle", or "notify" between unlock and notify_one()
  waiter,       \* "idle", "wait" inside wait_empty(), "back" after it
  stopper,      \* progress of stop_pool() and the joins of the destructor
  sent,         \* calls of enqueue() each submitter has made
  accepted,     \* history: tasks whose future was valid
  executed      \* history: how often each accepted task has run

vars == <<tasks, outstanding, stop, idlers, drainers, worker, running, submitter,
          waiter, stopper, sent, accepted, executed>>

Tasks == Submitters \X (1..MaxTasks)

Init ==
  /\ tasks = <<>> /\ outstanding = 0 /\ stop = FALSE
  /\ idlers = {} /\ drainers = {}
  /\ worker = [w \in Workers |-> "loop"]
  /\ running = [w \in Workers |-> <<>>]
  /\ submitter = [s \in Submitters |-> "idle"]
  /\ waiter = [x \in Waiters |-> "idle"]
  /\ stopper = "ready"
  /\ sent = [s \in Submitters |-> 0]
  /\ accepted = {}
  /\ executed = [k \in Tasks |-> 0]

-----------------------------------------------------------------------------
(* ++outstanding, and the slip that forgets it. *)
Uncounted == outstanding
Counted == outstanding + 1

(* enqueue(): a stopped pool answers with an invalid future. *)
Enqueue(s) ==
  LET k == <<s, sent[s] + 1>>
  IN  /\ submitter[s] = "idle" /\ sent[s] < MaxTasks
      /\ sent' = [sent EXCEPT ![s] = @ + 1]
      /\ \/ stop /\ UNCHANGED <<tasks, outstanding, submitter, accepted>>
         \/ /\ ~stop
            /\ tasks' = Append(tasks, k)
            /\ outstanding' = Counted
            /\ submitter' = [submitter EXCEPT ![s] = "notify"]
            /\ accepted' = accepted \cup {k}
      /\ UNCHANGED <<stop, idlers, drainers, worker, running, waiter, stopper,
                     executed>>

NotifyWorker(s) ==
  /\ submitter[s] = "notify"
  /\ submitter' = [submitter EXCEPT ![s] = "idle"]
  /\ idlers' \in AfterNotifyOne(idlers)
  /\ UNCHANGED <<tasks, outstanding, stop, drainers, worker, running, waiter,
                 stopper, sent, accepted, executed>>

-----------------------------------------------------------------------------
(* When a worker leaves its loop. *)
MayExit == stop /\ tasks = <<>>

(* tasks.pop(). *)
Popped == Tail(tasks)

(* The worker's first critical section: sleep, exit, or take the front task. *)
WorkerTake(w) ==
  /\ worker[w] = "loop" /\ w \notin idlers
  /\ \/ /\ ~stop /\ tasks = <<>>
        /\ idlers' = idlers \cup {w}
        /\ UNCHANGED <<tasks, worker, running>>
     \/ /\ MayExit
        /\ worker' = [worker EXCEPT ![w] = "exit"]
        /\ UNCHANGED <<tasks, idlers, running>>
     \/ /\ ~MayExit /\ tasks # <<>>
        /\ tasks' = Popped
        /\ running' = [running EXCEPT ![w] = Head(tasks)]
        /\ worker' = [worker EXCEPT ![w] = "run"]
        /\ UNCHANGED idlers
  /\ UNCHANGED <<outstanding, stop, drainers, submitter, waiter, stopper, sent,
                 accepted, executed>>

(* The task runs; a packaged_task keeps its exceptions to itself. *)
WorkerRun(w) ==
  /\ worker[w] = "run"
  /\ executed' = [executed EXCEPT ![running[w]] = @ + 1]
  /\ worker' = [worker EXCEPT ![w] = "done"]
  /\ UNCHANGED <<tasks, outstanding, stop, idlers, drainers, running, submitter,
                 waiter, stopper, sent, accepted>>

(* The second critical section. *)
WorkerDone(w) ==
  /\ worker[w] = "done"
  /\ outstanding' = outstanding - 1
  /\ worker' = [worker EXCEPT ![w] = "notify"]
  /\ UNCHANGED <<tasks, stop, idlers, drainers, running, submitter, waiter,
                 stopper, sent, accepted, executed>>

(* drained_condition.notify_all(), outside the mutex. *)
WorkerNotify(w) ==
  /\ worker[w] = "notify"
  /\ worker' = [worker EXCEPT ![w] = "loop"]
  /\ drainers' \in AfterNotifyAll(drainers)
  /\ UNCHANGED <<tasks, outstanding, stop, idlers, running, submitter, waiter,
                 stopper, sent, accepted, executed>>

-----------------------------------------------------------------------------
(* The predicate of wait_empty(); the slip looks at the queue only. *)
DrainedQueueOnly == tasks = <<>>
Drained == outstanding = 0

WaitEmpty(x) ==
  /\ waiter[x] = "idle" \/ (waiter[x] = "wait" /\ x \notin drainers)
  /\ \/ /\ Drained
        /\ waiter' = [waiter EXCEPT ![x] = "back"]
        /\ UNCHANGED drainers
     \/ /\ ~Drained
        /\ waiter' = [waiter EXCEPT ![x] = "wait"]
        /\ drainers' = drainers \cup {x}
  /\ UNCHANGED <<tasks, outstanding, stop, idlers, worker, running, submitter,
                 stopper, sent, accepted, executed>>

(* condition.notify_all(); the slip notifies one worker. *)
StopWakesOne == AfterNotifyOne(idlers)
StopWakes == AfterNotifyAll(idlers)

(* stop_pool(): the flag under the mutex, then both notifications; and the
   destructor's joins. *)
StopPool ==
  /\ \/ /\ stopper = "ready" /\ stopper' = "notify"
        /\ stop' = TRUE
        /\ UNCHANGED <<idlers, drainers>>
     \/ /\ stopper = "notify" /\ stopper' = "drained"
        /\ idlers' \in StopWakes
        /\ UNCHANGED <<stop, drainers>>
     \/ /\ stopper = "drained" /\ stopper' = "join"
        /\ drainers' \in AfterNotifyAll(drainers)
        /\ UNCHANGED <<stop, idlers>>
     \/ /\ stopper = "join" /\ stopper' = "joined"
        /\ \A w \in Workers : worker[w] = "exit"
        /\ UNCHANGED <<stop, idlers, drainers>>
  /\ UNCHANGED <<tasks, outstanding, worker, running, submitter, waiter, sent,
                 accepted, executed>>

SpuriousWakeup(t) ==
  /\ t \in idlers \cup drainers
  /\ idlers' = idlers \ {t}
  /\ drainers' = drainers \ {t}
  /\ UNCHANGED <<tasks, outstanding, stop, worker, running, submitter, waiter,
                 stopper, sent, accepted, executed>>

WorkerStep(w) ==
  WorkerTake(w) \/ WorkerRun(w) \/ WorkerDone(w) \/ WorkerNotify(w)

Next ==
  \/ \E s \in Submitters : Enqueue(s) \/ NotifyWorker(s)
  \/ \E w \in Workers : WorkerStep(w)
  \/ \E x \in Waiters : WaitEmpty(x)
  \/ \E t \in Workers \cup Waiters : SpuriousWakeup(t)
  \/ StopPool

Spec == Init /\ [][Next]_vars

(* Threads are scheduled, tasks return, and whoever began stop_pool() goes on.
   Nobody has to submit, to wait or to stop the pool. *)
Fairness ==
  /\ \A w \in Workers : WF_vars(WorkerStep(w))
  /\ \A s \in Submitters : WF_vars(NotifyWorker(s))
  /\ \A x \in Waiters : WF_vars(waiter[x] = "wait" /\ WaitEmpty(x))
  /\ WF_vars(stop /\ StopPool)
FairSpec == Spec /\ Fairness

-----------------------------------------------------------------------------
(* outstanding, a std::size_t, never goes below zero, and every thread is at one
   of the points the code has. *)
TypeOK ==
  /\ tasks \in Seq(Tasks) /\ outstanding \in Nat /\ stop \in BOOLEAN
  /\ idlers \subseteq Workers /\ drainers \subseteq Waiters
  /\ worker \in [Workers -> {"loop", "run", "done", "notify", "exit"}]
  /\ running \in [Workers -> Tasks \cup {<<>>}]
  /\ submitter \in [Submitters -> {"idle", "notify"}]
  /\ waiter \in [Waiters -> {"idle", "wait", "back"}]
  /\ stopper \in {"ready", "notify", "drained", "join", "joined"}
  /\ sent \in [Submitters -> 0..MaxTasks]
  /\ accepted \subseteq Tasks /\ executed \in [Tasks -> Nat]

(* Every accepted task is queued, in the hands of one worker, or has run once:
   the worker loop never takes a task twice and never loses one. *)
EachTaskOnce ==
  \A k \in Tasks :
    Cardinality({i \in 1..Len(tasks) : tasks[i] = k})
    + Cardinality({w \in Workers : worker[w] = "run" /\ running[w] = k})
    + executed[k] = (IF k \in accepted THEN 1 ELSE 0)

(* The tasks add up: each accepted one is in one place, and outstanding counts
   those not yet counted down, so that it never underflows and is zero exactly
   when nothing is queued or held. *)
OutstandingCounts ==
  /\ EachTaskOnce
  /\ outstanding = Len(tasks)
                   + Cardinality({w \in Workers : worker[w] \in {"run", "done"}})

(* wait_empty() returns only when every task accepted before is done. *)
WaitEmptyMeansDone ==
  [][\A x \in Waiters :
       waiter[x] # "back" /\ waiter'[x] = "back" =>
         \A k \in accepted : executed[k] = 1]_vars

(* wait_empty() returns unless new tasks keep it. *)
WaitEmptyReturns ==
  \A x \in Waiters : waiter[x] = "wait" ~> waiter[x] = "back"

(* The destructor's joins come to an end, and "in-flight queued tasks are still
   executed": by then every task whose future was valid has run, once. *)
StopJoins ==
  stop ~> stopper = "joined" /\ \A k \in accepted : executed[k] = 1

=============================================================================
