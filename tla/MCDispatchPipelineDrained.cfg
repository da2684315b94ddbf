SPECIFICATION Spec
CONSTANTS
  Ingress = {i1}
  i1 = i1
  Dispatcher = Dispatcher
  WorkerThreads = 1
  IngressCapacity = 1
  WorkerCapacity = 1
  MaxEvents = 2
  Warmup = 0
INVARIANTS
  Drained
