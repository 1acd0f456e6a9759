SPECIFICATION FairSpec
CONSTANTS
  c1 = c1
  c2 = c2
  u1 = u1
  u2 = u2
  Clients = {c1}
  Upstreams = {u1, u2}
  None = none
  routes_ <- MCRoutes
  Url <- BothToOne
  Matches <- MCMatches
  max_retries_ = 1
  PoolDepth = 1
  AcceptBatch = 128
  Fds <- MCFds
  Requests <- OneRequest
  WithBody = {}
  Framings = {"length"}
  Cuts = {}
  AtOnce = {}
  Leavers = {}
  Blocks = {}
  MayStop = FALSE
PROPERTY ClosedAfterLastReply
CHECK_DEADLOCK FALSE
