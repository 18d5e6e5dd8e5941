SPECIFICATION Spec
CONSTANTS
  Urls = {u1}
  Interfaces = {i1}
  Overlap <- MCOverlap
  Producers = {p1}
  AnyTarget = any
  BufferSize = 2
  MaxClients = 2
  MaxDispatchers = 2
  MaxEvents = 2
INVARIANT OnlySnapshotClients
CHECK_DEADLOCK FALSE
