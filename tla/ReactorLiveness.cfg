SPECIFICATION FairSpec
CONSTANTS
  Clients = {c1, c2}
  None = none
  Fds <- MCFds
  Hangups <- OrderlyOnly
  OutboxCapacity = 2
  MaxConnections = 0
  AcceptBatch = 128
  IdleSweep = TRUE
  MayStop = TRUE
  Failures = {"add"}
  Fragments <- OneTalks
  Talker = c1
  Parts = 1
PROPERTIES EveryRequestAnswered HangupsReclaimed StopCompletes
CHECK_DEADLOCK FALSE
