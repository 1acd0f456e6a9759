SPECIFICATION Spec
CONSTANTS
  Producers = {p1, p2}
  Consumers = {c1, c2}
  Cells <- MCCells
  Policy = "DropNew"
  PopModes = {"last"}
  MaxPush = 2
  MaxPop = 2
  StopPermits = 2
  None = None
SYMMETRY Symmetry
INVARIANTS CellExclusive FifoOnce NothingLost
PROPERTIES ImplementsFifo DropsOnlyWhenCellInUse
CHECK_DEADLOCK FALSE
