----------------------------- MODULE MCWaiting -----------------------------
(***************************************************************************)
(* The parts whose threads wait for one another on condition variables and *)
(* joins, each checked on its own in one run: the two queues under a mutex,*)
(* the worker pool and the logger.  `subject` is the part a behaviour is   *)
(* about; the others rest in their initial state, and the fairness of each *)
(* is required of it only while it is the subject.                         *)
(***************************************************************************)
EXTENDS BlockingQueue, Logger

CONSTANTS
  PopModes, Capacities, Unlimited,                   \* ThreadSafeQueue
  Workers, Submitters, Waiters, MaxTasks             \* ThreadPool

VARIABLES
  subject,
  data_queue, capacity, q_stopped, sleepers, q_call, q_calls,
  tasks, outstanding, stop, idlers, drainers, worker, running, submitter, waiter, stopper,
  sent, accepted, executed

queue_vars == <<data_queue, capacity, q_stopped, sleepers, q_call, q_calls>>
pool_vars == <<tasks, outstanding, stop, idlers, drainers, worker, running, submitter, waiter,
               stopper, sent, accepted, executed>>
all_vars == <<subject, vars, queue_vars, pool_vars, log_vars>>

TSQ == INSTANCE ThreadSafeQueue WITH stopped <- q_stopped, call <- q_call, calls <- q_calls
Pool == INSTANCE ThreadPool

WaitingInit ==
  /\ subject \in {"blocking", "shared", "pool", "logger"}
  /\ Init /\ TSQ!Init /\ Pool!Init /\ LogInit

WaitingNext ==
  \/ /\ subject = "blocking" /\ Next
     /\ UNCHANGED <<subject, queue_vars, pool_vars, log_vars>>
  \/ /\ subject = "shared" /\ TSQ!Next
     /\ UNCHANGED <<subject, vars, pool_vars, log_vars>>
  \/ /\ subject = "pool" /\ Pool!Next
     /\ UNCHANGED <<subject, vars, queue_vars, log_vars>>
  \/ /\ subject = "logger" /\ LogNext
     /\ UNCHANGED <<subject, vars, queue_vars, pool_vars>>

(* Each part's own fairness; the pool's workers and the writer can move from the
   start, and have to only where they are the subject. *)
WaitingFairness ==
  /\ Fairness /\ TSQ!Fairness
  /\ \A w \in Workers : WF_pool_vars(subject = "pool" /\ Pool!WorkerStep(w))
  /\ \A s \in Submitters : WF_pool_vars(Pool!NotifyWorker(s))
  /\ \A x \in Waiters : WF_pool_vars(waiter[x] = "wait" /\ Pool!WaitEmpty(x))
  /\ WF_pool_vars(stop /\ Pool!StopPool)
  /\ \A p \in Loggers : WF_log_vars(LogStored(p))
  /\ WF_log_vars(subject = "logger" /\ WriterStep)
  /\ WF_log_vars(subject = "logger" /\ DestructorStep)
  /\ \A f \in Flushers :
        WF_log_vars(subject = "logger" /\ at[Owner] = "idle" /\ FlushStep(f))

WaitingSpec == WaitingInit /\ [][WaitingNext]_all_vars /\ WaitingFairness

(* Both queues are bounded FIFOs: items leave push()'s deque in the order they
   entered, each once, and never more than the capacity are inside. *)
QueuesAreFifos == ImplementsFifo /\ TSQ!ImplementsFifo

(* No caller of the Block queue sleeps for ever where it could go on, nor does a
   consumer of ThreadSafeQueue as long as that has no capacity; and stop() gets
   everybody out of push(), wait_pop() and wait_and_pop() of both.  (A producer of a
   ThreadSafeQueue with a capacity may sleep for ever: PushUnblocks.) *)
QueueCallsReturn == CallsReturn /\ TSQ!PopReturns /\ TSQ!StopReleasesAll

(* ThreadSafeQueue without a capacity: a consumer asleep in wait_and_pop() beside an
   item has somebody awake who will pass it on. *)
SomebodyIsAwake == TSQ!SomebodyIsAwake

(* ThreadPool: each accepted task is in one place and outstanding counts those not
   yet counted down. *)
OutstandingCounts == Pool!OutstandingCounts

(* ThreadPool: wait_empty() returns only when every task accepted before is done. *)
WaitEmptyMeansDone == Pool!WaitEmptyMeansDone

(* ThreadPool: wait_empty() comes back, and the destructor's joins end with every
   accepted task run once. *)
PoolWaitsEnd == Pool!WaitEmptyReturns /\ Pool!StopJoins

(* Logger: the destructor ends, and what was pushed before it began and was not
   evicted is on disk. *)
LoggerShutsDown == subject = "logger" => ShutdownKeepsEntries

============================================================================
