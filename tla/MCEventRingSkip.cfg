SPECIFICATION Spec
CONSTANTS
  c1 = c1
  t1 = t1
  t2 = t2
  Consumers = {c1}
  Streams = {s1, s2}
  Topics = {t1}
  Filter <- MCFilter
  RingEvents = 2
  ReaderQueue = 1
  PerSubject = 2
  Total = 2
  NoConsumer = none
  NoStream = nil
  MaxSeq = 3
  MaxBoots = 2
INVARIANT NoSilentSkip
SYMMETRY Sym
CHECK_DEADLOCK FALSE
