SPECIFICATION KqSpec
CONSTANTS
  KqFds = {3, 4}
  UseMod = TRUE
  OutSize = 2
  MaxPending = 4
INVARIANT NoTransitionLost
CHECK_DEADLOCK FALSE
