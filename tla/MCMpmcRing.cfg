SPECIFICATION Spec
CONSTANTS
  Producers = {p1, p2}
  Consumers = {c1, c2}
  p1 = p1
  p2 = p2
  c1 = c1
  c2 = c2
  Capacities = {1, 2}
  MaxEvents = 3
  StopScopes <- MCStopScopes
SYMMETRY Symmetry
INVARIANTS
  TypeOK
  TokensConserved
  CellSafe
  DepthExact
PROPERTIES
  Contract
