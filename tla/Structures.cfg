SPECIFICATION Spec
CONSTANTS
  \* FileCache
  Workers = {w1, w2}
  Keys = {k1, k2, k3}
  max_entries = 2
  MaxVersion = 1
  MaxUses = 5
  NoKey = none
  \* MemoryPool
  Handles = {h1, h2, h3, h4}
  Buffers = {h3, h4}
  classes <- MCClasses
  HeaderSize = 1
  Align = 2
  requested = 9
  Requests = {1, 2, 3}
  MaxEscaped = 1
  MaxRefs = 3
  Null = null
  \* RequestScan
  Streams <- MCStreams
  ReadSize = 9
  MaxRequest = 14
  \* BloomCounters, BloomFilter
  ItemA = ItemA
  ItemB = ItemB
  Items = {ItemA, ItemB}
  num_slots = 4
  Probes <- MCProbes
  Shifts <- MCShifts
  RemoveAbsent = FALSE
  MaxFresh = 8
  \* RateLimiter
  Rate = 2
  Window = 2
  Prune = 4
  DecayEvery = 3
  MaxTime = 6
  NoWindow = none
  \* KqueuePoller
  KqFds = {3, 4}
  UseMod = TRUE
  OutSize = 2
  MaxPending = 4
INVARIANTS IndexMatchesList CountIsHandles NoBlockLost OneRequestEach NothingStuck FoundUntilFaded TwiceTheRateAtMost ChangesReachTheKernel
PROPERTIES EvictsLeastRecent BanHolds
CHECK_DEADLOCK FALSE
