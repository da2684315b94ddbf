SPECIFICATION PipelineSpec
CONSTANTS
  Producers = {p1, p2}
  Consumers = {c1, c2}
  p1 = p1
  p2 = p2
  c1 = c1
  c2 = c2
  Capacities = {2}
  WaitStrategies = {"ConditionVariable", "SpinYield"}
  MaxEvents = 3
  Warmup = 1
  StopScopes <- MCStopScopes
INVARIANTS
  PipelineTypeOK
  EventsAccounted
  NoLostWakeup
PROPERTIES
  Contract
  UsesQueue
  Terminates
