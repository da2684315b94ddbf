SPECIFICATION FairSpec
CONSTANTS
  Producers = {p1, p2}
  Consumers = {c1, c2}
  p1 = p1
  p2 = p2
  c1 = c1
  c2 = c2
  Capacities = {0, 1}
  MaxEvents = 2
  StopScopes <- MCStopScopes
INVARIANTS
  TypeOK
  TokensConserved
  ListSafe
  DepthExact
PROPERTIES
  Contract
  Settles
