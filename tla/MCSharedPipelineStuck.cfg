SPECIFICATION PipelineSpec
CONSTANTS
  Producers = {p1, p2}
  Consumers = {c1}
  p1 = p1
  p2 = p2
  c1 = c1
  Capacities = {1}
  WaitStrategies = {"ConditionVariable"}
  MaxEvents = 4
  Warmup = 1
  StopScopes <- MCStopScopes
PROPERTIES
  Terminates
