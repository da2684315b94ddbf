SPECIFICATION PipelineSpec
CONSTANTS
  Capacity = 2
  MaxEvents = 5
  Warmup = 1
  StopScopes <- MCStopScopes
INVARIANTS
  PipelineTypeOK
  CellRaceFree
  DepthBounded
  StatsBalance
  EventsAccounted
PROPERTIES
  Contract
  UsesRing
  Terminates
