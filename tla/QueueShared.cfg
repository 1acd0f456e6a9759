\* One producer and two consumers that share the condition variable.
SPECIFICATION FairSpec
CONSTANTS
  Producers = {p1}
  Consumers = {c1, c2}
  PopModes = {"wait"}
  Capacities = {1}
  Unlimited = 9
  MaxPush = 4
  MaxPop = 4
PROPERTIES PushUnblocks
CHECK_DEADLOCK FALSE
