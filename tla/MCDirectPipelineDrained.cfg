SPECIFICATION PipelineSpec
CONSTANTS
  Capacity = 2
  MaxEvents = 4
  Warmup = 1
  StopScopes <- MCStopScopes
INVARIANTS
  Drained
