SPECIFICATION HarnessSpec
CONSTANTS
  Producers = {p1, p2}
  Consumers = {c1}
  Consumer = c1
  p1 = p1
  p2 = p2
  c1 = c1
  Capacities = {1}
  WaitStrategies = {"ConditionVariable"}
  MaxEvents = 2
  Warmup = 0
  StopScopes <- MCStopScopes
INVARIANTS
  DropDrained
