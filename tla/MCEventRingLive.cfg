SPECIFICATION FairSpec
CONSTANTS
  c1 = c1
  t1 = t1
  t2 = t2
  Consumers = {c1}
  Streams = {s1, s2}
  Topics = {t1, t2}
  Filter <- MCFilter
  RingEvents = 1
  ReaderQueue = 1
  PerSubject = 1
  Total = 2
  NoConsumer = none
  NoStream = nil
  MaxSeq = 3
  MaxBoots = 2
INVARIANT StreamLimits
PROPERTY DoomedStreamEnds
CHECK_DEADLOCK FALSE
