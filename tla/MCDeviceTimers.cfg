SPECIFICATION FairSpec
CONSTANTS
  h1 = h1
  h2 = h2
  k1 = k1
  k2 = k2
  t1 = t1
  t2 = t2
  t3 = t3
  Devices = {d1}
  Kinds = {"pulse", "bidcos", "hmip", "ramp", "firmware"}
  Handlers = {h1, h2}
  Callbacks = {k1, k2}
  Timers = {t1, t2, t3}
  Steps = 3
  NoTimer = none
  NoDevice = nil
  MaxCalls = 3
INVARIANTS TypeOK CacheCoherent EntryIsLive SoftIsTimed
PROPERTIES NoArmingAfterStop UpdateCompletes
ACTION_CONSTRAINT LowestFirst
CHECK_DEADLOCK FALSE
