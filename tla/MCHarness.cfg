SPECIFICATION HarnessSpec
CONSTANTS
  Producers = {p1, p2}
  Consumers = {c1}
  Consumer = c1
  p1 = p1
  p2 = p2
  c1 = c1
  Capacities = {0, 1, 2}
  WaitStrategies = {"ConditionVariable", "SpinYield"}
  MaxEvents = 4
  Warmup = 1
  StopScopes <- MCStopScopes
INVARIANTS
  TypeOK
  NoLostWakeup
  HarnessTypeOK
  Accounted
PROPERTIES
  DrainsBeforeRefusing
  Terminates
