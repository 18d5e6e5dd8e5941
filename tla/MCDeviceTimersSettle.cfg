SPECIFICATION Spec
CONSTANTS
  h1 = h1
  h2 = h2
  k1 = k1
  k2 = k2
  t1 = t1
  t2 = t2
  t3 = t3
  Devices = {d1}
  Kinds = {"pulse"}
  Handlers = {h1}
  Callbacks = {k1}
  Timers = {t1, t2}
  Steps = 2
  NoTimer = none
  NoDevice = nil
  MaxCalls = 2
INVARIANT PulseSettles
CHECK_DEADLOCK FALSE
