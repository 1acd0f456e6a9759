\* The logger's queue from the consumer's side: it waits, and is overrun.
SPECIFICATION FairSpec
CONSTANTS
  Producers = {p1}
  Consumers = {c1}
  Cells <- MCCells
  Policy = "DropOldest"
  PopModes = {"wait", "wait_for"}
  MaxPush = 4
  MaxPop = 3
  StopPermits = 2
  None = None
INVARIANTS NoStrandedItem RingDataInv
PROPERTIES RingCallsReturn
CHECK_DEADLOCK FALSE
