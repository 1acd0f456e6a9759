SPECIFICATION Spec
CONSTANTS
  c1 = c1
  c2 = c2
  u1 = u1
  u2 = u2
  Clients = {c1, c2}
  Upstreams = {u1, u2}
  None = none
  routes_ <- MCRoutes
  Url <- BothToOne
  Matches <- MCMatches
  max_retries_ = 1
  PoolDepth = 1
  AcceptBatch = 128
  Fds <- MCFds
  Requests <- OneRequest
  WithBody = {c2}
  Framings = {"length", "chunked"}
  Cuts = {"chunked"}
  AtOnce = {"refused"}
  Leavers = {c2}
  Blocks = {"send"}
  MayStop = FALSE
INVARIANTS HandlesAreSuspended ConnectionsHaveOneOwner RepliesAreOwn
CHECK_DEADLOCK FALSE
