\* No symmetry: temporal properties.
SPECIFICATION WaitingSpec
CONSTANTS
  \* BlockingQueue: two producers against two consumers
  Producers = {p1, p2}
  Consumers = {c1, c2}
  Capacity = 1
  MaxPush = 2
  MaxPop = 2
  \* ThreadSafeQueue: both pops, and a capacity set at any moment
  PopModes = {"wait", "try"}
  Capacities = {1}
  Unlimited = 9
  \* ThreadPool: two threads submit a task each, one is in wait_empty()
  Workers = {w1, w2}
  Submitters = {s1, s2}
  Waiters = {x1}
  MaxTasks = 1
  \* Logger: the writer, one flush() at any moment, the destructor
  Loggers = {p1}
  Flushers = {f1}
  LogCapacity = 2
  Threshold = 2
  MaxLog = 3
  None = none
INVARIANTS NoLostWakeup SomebodyIsAwake OutstandingCounts EachEntryOnce FileInOrder
PROPERTIES QueuesAreFifos QueueCallsReturn WaitEmptyMeansDone PoolWaitsEnd LoggerShutsDown
CHECK_DEADLOCK FALSE
