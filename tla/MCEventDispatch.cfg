SPECIFICATION Spec
CONSTANTS
  Urls = {u1, u2}
  Interfaces = {i1}
  Overlap <- MCOverlap
  Producers = {p1, p2}
  AnyTarget = any
  BufferSize = 1
  MaxClients = 2
  MaxDispatchers = 2
  MaxEvents = 2
INVARIANTS TypeOK AtMostOnce OnlySnapshotKeys NoLeakedDispatcher LeavesForCause ProducerOrder
SYMMETRY Sym
CHECK_DEADLOCK FALSE
