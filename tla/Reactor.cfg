SPECIFICATION Spec
CONSTANTS
  Clients = {c1, c2}
  None = none
  Fds <- MCFds
  Hangups <- OrderlyOnly
  OutboxCapacity = 2
  MaxConnections = 0
  AcceptBatch = 128
  IdleSweep = FALSE
  MayStop = FALSE
  Failures = {"wait", "add", "accept"}
  Fragments <- TwoRequestsFromEach
  Talker = c1
  Parts = 2
SYMMETRY Symmetry
INVARIANTS RepliesMatchRequests DispatchedIsAccurate EntriesOwnTheirSockets
