--------------------------- MODULE MCDeviceTimers ---------------------------
(* Instances of DeviceTimers for TLC: one device of any kind. *)
EXTENDS DeviceTimers

CONSTANTS h1, h2, k1, k2, t1, t2, t3

\* Handlers, callbacks and timers are interchangeable slots.  TLC's symmetry
\* reduction is not sound for liveness, so a slot is taken only if those
\* before it are taken: each behaviour has a renaming that does so.
LowestFirst ==
  /\ tpc' # tpc => \A <<k, j>> \in {<<h1, h2>>, <<k1, k2>>} :
       tpc[j] = "idle" /\ tpc'[j] # "idle" => tpc[k] # "idle"
  /\ armed' # armed => \A <<t, u>> \in {<<t1, t2>>, <<t1, t3>>, <<t2, t3>>} :
       armed'[u] /\ ~armed[u] /\ t \in Free => u \notin Free

=============================================================================
