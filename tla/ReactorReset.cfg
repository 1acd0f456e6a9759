SPECIFICATION Spec
CONSTANTS
  Clients = {c1, c2}
  None = none
  Fds <- MCFds
  Hangups <- AnyHangup
  OutboxCapacity = 2
  MaxConnections = 0
  AcceptBatch = 128
  IdleSweep = FALSE
  MayStop = FALSE
  Failures = {}
  Fragments <- OneRequestFromEach
  Talker = c1
  Parts = 1
INVARIANT
  RepliesMatchRequests
