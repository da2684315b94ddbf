SPECIFICATION Spec
CONSTANTS
  Ingress = {i1}
  i1 = i1
  Dispatcher = Dispatcher
  WorkerThreads = 2
  IngressCapacity = 1
  WorkerCapacity = 1
  MaxEvents = 3
  Warmup = 0
INVARIANTS
  TypeOK
  EventsAccounted
PROPERTIES
  Terminates
