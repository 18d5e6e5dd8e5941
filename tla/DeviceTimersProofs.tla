------------------------- MODULE DeviceTimersProofs -------------------------
(***************************************************************************)
(* Proofs about DeviceTimers, for every number of devices, goroutines and  *)
(* timers: the paramset cache, the timer tables and the end of arming at   *)
(* shutdown.                                                               *)
(***************************************************************************)
EXTENDS DeviceTimers, TLAPS

\* The next step of task k takes the entry of device d away or replaces it.
Releases(k, d) ==
  /\ tdev[k] = d
  /\ tpc[k] = "fired" \/ (kind[d] = "firmware" /\ tpc[k] \in {"write", "arm"})

\* Every task that is not idle works for a device, and only the write models
\* raise a configuration.
TaskDevice ==
  \A k \in Tasks :
    /\ tpc[k] # "idle" => tdev[k] \in Devices
    /\ tpc[k] = "raise" => kind[tdev[k]] \in {"bidcos", "hmip"}

\* A timer that is running or in a table knows its device.
TableOwned ==
  /\ \A d \in Devices : table[d] # NoTimer => owner[table[d]] = d
  /\ \A t \in Timers : armed[t] => owner[t] \in Devices

\* What stopTimers is about to stop has left its table.
StoppingFree == \A d \in Devices : table[d] \notin stopping

\* EntryIsLive with the task that will take the entry away.
EntryHeld ==
  \A d \in Devices :
    table[d] # NoTimer => armed[table[d]] \/ \E k \in Tasks : Releases(k, d)

\* Only the write models have a pending configuration, and one that is not
\* sticky has an entry or a task that is about to clear it.
SoftHeld ==
  \A d \in Devices :
    /\ pending[d] # "none" => kind[d] \in {"bidcos", "hmip"}
    /\ pending[d] = "soft" /\ ~stopped =>
         table[d] # NoTimer \/ \E k \in Tasks : tdev[k] = d /\ tpc[k] = "clear"

HeldInv ==
  TypeOK /\ TaskDevice /\ TableOwned /\ StoppingFree /\ EntryHeld /\ SoftHeld

-----------------------------------------------------------------------------
(* Types                                                                   *)

\* The helpers on timers keep the types of the timer variables.
TimerTypes ==
  /\ table \in [Devices -> Timers \cup {NoTimer}]
  /\ armed \in [Timers -> BOOLEAN]
  /\ owner \in [Timers -> Devices \cup {NoDevice}]
  /\ next \in [Timers -> 0 .. Steps + 1]

\* The helpers on tasks keep the types of the task variables.
TaskTypes ==
  /\ tpc \in [Tasks -> {"idle", "pulse", "ramp", "raise", "clear", "write", "arm", "fired"}]
  /\ tdev \in [Tasks -> Devices \cup {NoDevice}]
  /\ tval \in [Tasks -> Values]
  /\ tsticky \in [Tasks -> BOOLEAN]

\* What a new timer, a timer that is set again and one that is stopped do to
\* the timer table (time.AfterFunc, Reset and Stop as internal/ccu uses them).
LEMMA TimerTypesKept ==
  ASSUME TimerTypes, NEW d \in Devices \cup {NoDevice}, NEW n \in 0 .. Steps + 1
  PROVE  /\ \A t \in Timers : AfterFunc(d, t, n) => TimerTypes'
         /\ Reset(d) => TimerTypes'
         /\ StopEntry(d) => TimerTypes'
         /\ DropEntry(d) => TimerTypes'
<1>1. ASSUME NEW t \in Timers, AfterFunc(d, t, n)
      PROVE  TimerTypes'
  BY <1>1 DEF TimerTypes, AfterFunc
<1>2. ASSUME Reset(d)
      PROVE  TimerTypes'
  BY <1>2 DEF TimerTypes, Reset
<1>3. ASSUME StopEntry(d)
      PROVE  TimerTypes'
  BY <1>3 DEF TimerTypes, StopEntry
<1>4. ASSUME DropEntry(d)
      PROVE  TimerTypes'
  BY <1>4 DEF TimerTypes, DropEntry
<1> QED
  BY <1>1, <1>2, <1>3, <1>4

\* Timers nobody touches keep their types.
LEMMA TimersUntouched == TimerTypes /\ UNCHANGED timers => TimerTypes'
BY DEF TimerTypes, timers

\* A task that goes on, ends or stays where it is keeps its types.
LEMMA TaskTypesKept ==
  ASSUME TaskTypes, NEW k \in Tasks
  PROVE  /\ \A pc \in {"pulse", "ramp", "raise", "clear", "write", "arm", "fired"},
               d \in Devices \cup {NoDevice}, v \in Values, b \in BOOLEAN :
               Goto(k, pc, d, v, b) => TaskTypes'
         /\ \A v \in Values : Write(k, v) => TaskTypes'
         /\ End(k) => TaskTypes'
         /\ UNCHANGED tasks => TaskTypes'
<1>1. 0 \in Values
  BY TimerAssumption DEF Values
<1>2. ASSUME NEW pc \in {"idle", "pulse", "ramp", "raise", "clear", "write", "arm", "fired"},
             NEW d \in Devices \cup {NoDevice}, NEW v \in Values, NEW b \in BOOLEAN,
             Goto(k, pc, d, v, b)
      PROVE  TaskTypes'
  BY <1>2 DEF TaskTypes, Goto
<1>3. ASSUME NEW v \in Values, Write(k, v)
      PROVE  TaskTypes'
  <2>1. tdev[k] \in Devices \cup {NoDevice}
    BY DEF TaskTypes
  <2> QED
    BY <1>2, <1>3, <2>1 DEF Write
<1>4. ASSUME End(k)
      PROVE  TaskTypes'
  BY <1>1, <1>2, <1>4 DEF End
<1>5. ASSUME UNCHANGED tasks
      PROVE  TaskTypes'
  BY <1>5 DEF TaskTypes, tasks
<1> QED
  BY <1>2, <1>3, <1>4, <1>5

\* The other conjuncts of TypeOK.
StoreTypes ==
  /\ kind \in [Devices -> Kinds]
  /\ known \in [Devices -> BOOLEAN]
  /\ value \in [Devices -> Values]
  /\ compiled \in [Devices -> Values \cup {Uncached}]
  /\ dirty \in [Devices -> BOOLEAN]
  /\ invalid \in [Devices -> BOOLEAN]
  /\ pending \in [Devices -> {"none", "soft", "sticky"}]
  /\ stopped \in BOOLEAN
  /\ phase \in {"running", "config", "ramps", "lifecycle"}
  /\ stopping \subseteq Timers
  /\ calls \in 0 .. MaxCalls

LEMMA TypeParts ==
  /\ TypeOK <=> StoreTypes /\ TimerTypes /\ TaskTypes
  /\ TypeOK' <=> StoreTypes' /\ TimerTypes' /\ TaskTypes'
BY DEF TypeOK, StoreTypes, TimerTypes, TaskTypes

\* The initial state is well typed.
LEMMA InitType == Init => TypeOK
<1>1. Init => StoreTypes
  <2>1. Unset \in Values /\ 0 \in 0 .. MaxCalls
    BY TimerAssumption DEF Values, Unset
  <2>2. Init => value \in [Devices -> Values] /\ compiled \in [Devices -> Values \cup {Uncached}]
    BY <2>1 DEF Init
  <2>3. Init => kind \in [Devices -> Kinds] /\ known \in [Devices -> BOOLEAN]
    BY DEF Init
  <2>4. Init => pending \in [Devices -> {"none", "soft", "sticky"}]
    BY DEF Init
  <2>5. Init => dirty \in [Devices -> BOOLEAN] /\ invalid \in [Devices -> BOOLEAN]
    BY DEF Init
  <2>6. Init => stopped \in BOOLEAN /\ stopping \subseteq Timers /\ calls \in 0 .. MaxCalls
    BY <2>1 DEF Init
  <2>7. Init => phase \in {"running", "config", "ramps", "lifecycle"}
    BY DEF Init
  <2> QED
    BY <2>2, <2>3, <2>4, <2>5, <2>6, <2>7 DEF StoreTypes
<1>2. Init => TimerTypes
  <2>1. 0 \in 0 .. Steps + 1
    BY TimerAssumption
  <2> QED
    BY <2>1 DEF Init, TimerTypes
<1>3. Init => TaskTypes
  BY TimerAssumption DEF Init, TaskTypes, Values
<1> QED
  BY <1>1, <1>2, <1>3, TypeParts

\* A call is counted, and nothing else of the store and the timers changes.
LEMMA CallType ==
  ASSUME StoreTypes, NEW k \in Handlers, Call(k)
  PROVE  k \in Tasks /\ calls' \in 0 .. MaxCalls
BY TimerAssumption DEF StoreTypes, Call, Tasks

\* Every step keeps the types.
LEMMA NextType == TypeOK /\ [Next]_vars => TypeOK'
<1> SUFFICES ASSUME TypeOK, [Next]_vars
             PROVE  TypeOK'
  OBVIOUS
<1> USE TypeParts
<1>v. 0 \in Values /\ 1 \in Values /\ Resting \in Values /\ Active \in Values /\ Unset \in Values
  BY TimerAssumption DEF Values, Resting, Active, Unset
<1>1. ASSUME NEW k \in Handlers, NEW d \in Devices, PutParamset(k, d)
      PROVE  TypeOK'
  <2>1. Call(k) /\ UNCHANGED timers
    BY <1>1 DEF PutParamset
  <2>2. k \in Tasks /\ calls' \in 0 .. MaxCalls
    BY <2>1, CallType
  <2>3. TaskTypes'
    BY <1>1, <1>v, <2>2, TaskTypesKept DEF PutParamset
  <2>4. StoreTypes'
    BY <1>1, <2>2 DEF PutParamset, StoreTypes, store, stop
  <2> QED
    BY <2>1, <2>3, <2>4, TimersUntouched
<1>2. ASSUME NEW k \in Handlers, NEW d \in Devices, PutBidCos(k, d)
      PROVE  TypeOK'
  <2>1. Call(k) /\ UNCHANGED timers
    BY <1>2 DEF PutBidCos
  <2>2. k \in Tasks /\ calls' \in 0 .. MaxCalls
    BY <2>1, CallType
  <2>3. TaskTypes'
    BY <1>2, <1>v, <2>2, TaskTypesKept DEF PutBidCos
  <2>4. StoreTypes'
    BY <1>2, <2>2 DEF PutBidCos, StoreTypes, store, stop
  <2> QED
    BY <2>1, <2>3, <2>4, TimersUntouched
<1>3. ASSUME NEW k \in Handlers, NEW d \in Devices, PutHmIP(k, d)
      PROVE  TypeOK'
  <2>1. Call(k) /\ UNCHANGED timers
    BY <1>3 DEF PutHmIP
  <2>2. k \in Tasks /\ calls' \in 0 .. MaxCalls
    BY <2>1, CallType
  <2>3. TaskTypes'
    BY <1>3, <1>v, <2>2, TaskTypesKept DEF PutHmIP
  <2>4. StoreTypes'
    BY <1>3, <2>2 DEF PutHmIP, StoreTypes, stop
  <2> QED
    BY <2>1, <2>3, <2>4, TimersUntouched
<1>4. ASSUME NEW k \in Handlers, NEW d \in Devices, StartFirmwareUpdate(k, d)
      PROVE  TypeOK'
  <2>1. Call(k) /\ UNCHANGED timers
    BY <1>4 DEF StartFirmwareUpdate
  <2>2. k \in Tasks /\ calls' \in 0 .. MaxCalls
    BY <2>1, CallType
  <2>3. TaskTypes'
    BY <1>4, <1>v, <2>2, TaskTypesKept DEF StartFirmwareUpdate
  <2>4. StoreTypes'
    BY <1>4, <2>2 DEF StartFirmwareUpdate, StoreTypes, store, stop
  <2> QED
    BY <2>1, <2>3, <2>4, TimersUntouched
<1>5. ASSUME NEW k \in Tasks, TaskStep(k)
      PROVE  TypeOK'
  <2>d. tdev[k] \in Devices \cup {NoDevice} /\ tval[k] \in Values /\ 0 \in 0 .. Steps + 1
    BY TimerAssumption DEF TaskTypes
  <2>1. CASE NotifyConfigPending(k)
    <3>1. TimerTypes'
      BY <2>1, <2>d, TimerTypesKept, TimersUntouched DEF NotifyConfigPending
    <3>2. TaskTypes'
      BY <2>1, <1>v, TaskTypesKept DEF NotifyConfigPending
    <3>3. StoreTypes'
      BY <2>1 DEF NotifyConfigPending, StoreTypes, store, stop
    <3> QED
      BY <3>1, <3>2, <3>3
  <2>2. CASE NotifyRamp(k)
    <3>1. TimerTypes'
      BY <2>2, <2>d, TimerTypesKept, TimersUntouched DEF NotifyRamp
    <3>2. TaskTypes'
      BY <2>2, <1>v, TaskTypesKept DEF NotifyRamp
    <3>3. StoreTypes'
      BY <2>2 DEF NotifyRamp, StoreTypes, store, stop
    <3> QED
      BY <3>1, <3>2, <3>3
  <2>3. CASE RaiseConfigPending(k)
    <3>1. TimerTypes'
      BY <2>3, <2>d, TimerTypesKept, TimersUntouched DEF RaiseConfigPending, RaiseTimer
    <3>2. TaskTypes'
      BY <2>3, <1>v, TaskTypesKept DEF RaiseConfigPending
    <3>3. StoreTypes'
      BY <2>3 DEF RaiseConfigPending, StoreTypes, store, stop
    <3> QED
      BY <3>1, <3>2, <3>3
  <2>4. CASE ClearConfigPending(k)
    <3>1. TimerTypes'
      BY <2>4, <2>d, TimerTypesKept, TimersUntouched DEF ClearConfigPending
    <3>2. TaskTypes'
      BY <2>4, <1>v, TaskTypesKept DEF ClearConfigPending
    <3>3. StoreTypes'
      BY <2>4 DEF ClearConfigPending, StoreTypes, store, stop
    <3> QED
      BY <3>1, <3>2, <3>3
  <2>5. CASE SetValue(k)
    <3>1. TimerTypes'
      BY <2>5, <2>d, TimerTypesKept, TimersUntouched DEF SetValue
    <3>2. TaskTypes'
      BY <2>5, <2>d, TaskTypesKept DEF SetValue
    <3>3. StoreTypes'
      BY <2>5, <2>d DEF SetValue, Store, StoreTypes, stop
    <3> QED
      BY <3>1, <3>2, <3>3
  <2>6. CASE ArmNext(k)
    <3>1. tval[k] + 1 \in 0 .. Steps + 1
      BY <2>d, TimerAssumption DEF Values
    <3>2. TimerTypes'
      BY <2>6, <2>d, <3>1, TimerTypesKept, TimersUntouched DEF ArmNext
    <3>3. TaskTypes'
      BY <2>6, TaskTypesKept DEF ArmNext
    <3>4. StoreTypes'
      BY <2>6 DEF ArmNext, StoreTypes, store, stop
    <3> QED
      BY <3>2, <3>3, <3>4
  <2>7. CASE Fired(k)
    <3>1. TimerTypes'
      BY <2>7, <2>d, TimerTypesKept, TimersUntouched DEF Fired
    <3>2. TaskTypes'
      BY <2>7, <2>d, <1>v, TaskTypesKept DEF Fired
    <3>3. StoreTypes'
      BY <2>7 DEF Fired, StoreTypes, store, stop
    <3> QED
      BY <3>1, <3>2, <3>3
  <2> QED
    BY <1>5, <2>1, <2>2, <2>3, <2>4, <2>5, <2>6, <2>7 DEF TaskStep
<1>6. ASSUME NEW t \in Timers, NEW k \in Callbacks, Fire(t, k)
      PROVE  TypeOK'
  <2>1. k \in Tasks /\ owner[t] \in Devices \cup {NoDevice}
    BY DEF Tasks, TimerTypes
  <2>2. ~AtTheEnd(next[t]) => next[t] \in Values
    BY TimerAssumption DEF AtTheEnd, Values, TimerTypes
  <2>3. TaskTypes'
    BY <1>6, <1>v, <2>1, <2>2, TaskTypesKept DEF Fire
  <2>4. TimerTypes'
    BY <1>6 DEF Fire, TimerTypes
  <2>5. StoreTypes'
    BY <1>6 DEF Fire, StoreTypes, store, stop
  <2> QED
    BY <2>3, <2>4, <2>5
<1>7. ASSUME NEW t \in Timers, StopTimer(t)
      PROVE  TypeOK'
  <2>1. TaskTypes'
    BY <1>7 DEF StopTimer, TaskTypes, tasks
  <2>2. TimerTypes' /\ StoreTypes'
    BY <1>7 DEF StopTimer, TimerTypes, StoreTypes, store
  <2> QED
    BY <2>1, <2>2
<1>8. ASSUME NEW d \in Devices, Compile(d)
      PROVE  TypeOK'
  <2>1. TaskTypes' /\ TimerTypes'
    BY <1>8 DEF Compile, TaskTypes, TimerTypes, tasks, timers
  <2>2. StoreTypes'
    BY <1>8 DEF Compile, StoreTypes, stop
  <2> QED
    BY <2>1, <2>2
<1>9. ASSUME NEW d \in Devices, DeleteDevice(d)
      PROVE  TypeOK'
  <2>1. TaskTypes' /\ TimerTypes'
    BY <1>9 DEF DeleteDevice, TaskTypes, TimerTypes, tasks, timers
  <2>2. StoreTypes'
    BY <1>9, <1>v, TimerAssumption DEF DeleteDevice, StoreTypes, stop
  <2> QED
    BY <2>1, <2>2
<1>10. ASSUME NEW d \in Devices, AddDevice(d)
       PROVE  TypeOK'
  <2>1. TaskTypes' /\ TimerTypes'
    BY <1>10 DEF AddDevice, TaskTypes, TimerTypes, tasks, timers
  <2>2. StoreTypes'
    BY <1>10 DEF AddDevice, StoreTypes, stop
  <2> QED
    BY <2>1, <2>2
<1>11. ASSUME NEW p \in {"config", "ramps", "lifecycle"}, SwapTimers(p)
       PROVE  TypeOK'
  <2>1. TaskTypes'
    BY <1>11 DEF SwapTimers, TaskTypes, tasks
  <2>2. Swapped(p) \subseteq Devices
    BY DEF Swapped
  <2>3. TimerTypes'
    BY <1>11 DEF SwapTimers, TimerTypes
  <2>4. stopping' \subseteq Timers
    BY <1>11, <2>2 DEF SwapTimers, TimerTypes
  <2>5. StoreTypes'
    BY <1>11, <2>4 DEF SwapTimers, StoreTypes, store
  <2> QED
    BY <2>1, <2>3, <2>5
<1>12. ASSUME UNCHANGED vars
       PROVE  TypeOK'
  <2>1. TaskTypes' /\ TimerTypes'
    BY <1>12 DEF vars, TaskTypes, TimerTypes, tasks, timers
  <2>2. StoreTypes'
    BY <1>12 DEF vars, StoreTypes, store, stop
  <2> QED
    BY <2>1, <2>2
<1> QED
  BY <1>1, <1>2, <1>3, <1>4, <1>5, <1>6, <1>7, <1>8, <1>9, <1>10, <1>11, <1>12
     DEF Next, Expire

\* The timed device states stay well typed for every number of devices and
\* timers; in particular the firmware walk never reports a state that the
\* sequence does not have (lifecycle.go advanceFirmware).
THEOREM TypeCorrect == Spec => []TypeOK
BY InitType, NextType, PTL DEF Spec

-----------------------------------------------------------------------------
(* The paramset cache                                                      *)

\* No step makes a compiled paramset that is not marked differ from the store.
LEMMA NextCoherent ==
  TypeOK /\ CacheCoherent /\ [Next]_vars => CacheCoherent'
<1> SUFFICES ASSUME TypeOK, CacheCoherent, [Next]_vars
             PROVE  CacheCoherent'
  OBVIOUS
<1>1. ASSUME UNCHANGED <<value, compiled, dirty>>
      PROVE  CacheCoherent'
  BY <1>1 DEF CacheCoherent
<1>2. ASSUME NEW k \in Tasks, SetValue(k)
      PROVE  CacheCoherent'
  <2>1. SUFFICES ASSUME NEW d \in Devices, ~dirty'[d], compiled'[d] # Uncached
                 PROVE  compiled'[d] = value'[d]
    BY DEF CacheCoherent
  <2>2. d # tdev[k]
    BY <1>2, <2>1 DEF SetValue, Store, TypeOK
  <2>3. dirty'[d] = dirty[d] /\ compiled'[d] = compiled[d] /\ value'[d] = value[d]
    BY <1>2, <2>2 DEF SetValue, Store, TypeOK
  <2> QED
    BY <2>1, <2>3 DEF CacheCoherent
<1>3. ASSUME NEW d \in Devices, Compile(d)
      PROVE  CacheCoherent'
  BY <1>3 DEF CacheCoherent, Compile, TypeOK
<1>4. ASSUME NEW d \in Devices, DeleteDevice(d)
      PROVE  CacheCoherent'
  BY <1>4 DEF CacheCoherent, DeleteDevice, TypeOK
<1>5. ASSUME NEW k \in Tasks, TaskStep(k)
      PROVE  SetValue(k) \/ UNCHANGED <<value, compiled, dirty>>
  BY <1>5 DEF TaskStep, NotifyConfigPending, NotifyRamp, RaiseConfigPending,
              ClearConfigPending, ArmNext, Fired, store
<1>6. ASSUME NEW k \in Handlers, NEW d \in Devices,
             PutParamset(k, d) \/ PutBidCos(k, d) \/ PutHmIP(k, d) \/ StartFirmwareUpdate(k, d)
      PROVE  UNCHANGED <<value, compiled, dirty>>
  BY <1>6 DEF PutParamset, PutBidCos, PutHmIP, StartFirmwareUpdate, store
<1>7. ASSUME NEW t \in Timers, Expire(t) \/ StopTimer(t)
      PROVE  UNCHANGED <<value, compiled, dirty>>
  BY <1>7 DEF Expire, Fire, StopTimer, store
<1>8. ASSUME NEW d \in Devices, AddDevice(d)
      PROVE  UNCHANGED <<value, compiled, dirty>>
  BY <1>8 DEF AddDevice
<1>9. ASSUME NEW p \in {"config", "ramps", "lifecycle"}, SwapTimers(p)
      PROVE  UNCHANGED <<value, compiled, dirty>>
  BY <1>9 DEF SwapTimers, store
<1>10. ASSUME UNCHANGED vars
       PROVE  UNCHANGED <<value, compiled, dirty>>
  BY <1>10 DEF vars, store
<1> QED
  BY <1>1, <1>2, <1>3, <1>4, <1>5, <1>6, <1>7, <1>8, <1>9, <1>10 DEF Next

\* A paramset served from the cache is the one in the store, whichever
\* handlers, callbacks and deletions race (rpcfunctions.go GetParamset and
\* clearAddressCachesLocked, reachability.go setMaintenanceValue).
THEOREM CacheIsCoherent == Spec => []CacheCoherent
<1>1. Init => CacheCoherent
  BY DEF Init, CacheCoherent
<1>2. TypeOK /\ CacheCoherent /\ [Next]_vars => TypeOK' /\ CacheCoherent'
  BY NextType, NextCoherent
<1> QED
  BY <1>1, <1>2, InitType, PTL DEF Spec

-----------------------------------------------------------------------------
(* Shutdown                                                                *)

\* After shutdown no step starts a timer or sets one again.
LEMMA NextUnarmed ==
  ASSUME TypeOK, [Next]_vars, stopped, NEW t \in Timers, armed'[t]
  PROVE  armed[t]
<1>1. ASSUME NEW k \in Handlers, NEW d \in Devices,
             PutParamset(k, d) \/ PutBidCos(k, d) \/ PutHmIP(k, d) \/ StartFirmwareUpdate(k, d)
      PROVE  armed' = armed
  BY <1>1 DEF PutParamset, PutBidCos, PutHmIP, StartFirmwareUpdate, timers
<1>2. ASSUME NEW k \in Tasks, TaskStep(k)
      PROVE  armed[t]
  <2>1. CASE NotifyConfigPending(k)
    BY <2>1 DEF NotifyConfigPending, timers
  <2>2. CASE NotifyRamp(k)
    BY <2>2 DEF NotifyRamp, timers
  <2>3. CASE RaiseConfigPending(k)
    BY <2>3 DEF RaiseConfigPending, RaiseTimer, StopEntry, timers
  <2>4. CASE ClearConfigPending(k)
    BY <2>4 DEF ClearConfigPending, StopEntry
  <2>5. CASE SetValue(k)
    BY <2>5 DEF SetValue, timers
  <2>6. CASE ArmNext(k)
    BY <2>6 DEF ArmNext, DropEntry
  <2>7. CASE Fired(k)
    BY <2>7 DEF Fired, DropEntry
  <2> QED
    BY <1>2, <2>1, <2>2, <2>3, <2>4, <2>5, <2>6, <2>7 DEF TaskStep
<1>3. ASSUME NEW u \in Timers, Expire(u) \/ StopTimer(u)
      PROVE  armed[t]
  BY <1>3 DEF Expire, Fire, StopTimer, TypeOK
<1>4. ASSUME NEW d \in Devices, Compile(d) \/ DeleteDevice(d) \/ AddDevice(d)
      PROVE  armed' = armed
  BY <1>4 DEF Compile, DeleteDevice, AddDevice, timers
<1>5. ASSUME NEW p \in {"config", "ramps", "lifecycle"}, SwapTimers(p)
      PROVE  armed' = armed
  BY <1>5 DEF SwapTimers
<1>6. ASSUME UNCHANGED vars
      PROVE  armed' = armed
  BY <1>6 DEF vars, timers
<1> QED
  BY <1>1, <1>2, <1>3, <1>4, <1>5, <1>6 DEF Next

\* Once stopTimers has begun no call, callback or walk arms a timer
\* (the timersStopped tests of reachability.go, ramps.go, mastermodel.go and
\* lifecycle.go).
THEOREM NothingArmsAfterStop == Spec => NoArmingAfterStop
<1>1. TypeOK /\ [Next]_vars => [stopped => \A t \in Timers : armed'[t] => armed[t]]_vars
  BY NextUnarmed
<1> QED
  BY <1>1, InitType, NextType, PTL DEF Spec, NoArmingAfterStop

-----------------------------------------------------------------------------
(* The timer tables                                                        *)

\* What HeldInv adds to the types.
HeldParts == TaskDevice /\ TableOwned /\ StoppingFree /\ EntryHeld /\ SoftHeld

\* A call occupies an idle handler and touches no timer.
LEMMA HeldCalls ==
  ASSUME HeldInv, NEW k \in Handlers, NEW d \in Devices,
         PutParamset(k, d) \/ PutBidCos(k, d) \/ PutHmIP(k, d) \/ StartFirmwareUpdate(k, d)
  PROVE  HeldParts'
<1>1. TaskDevice'
  BY DEF HeldInv, TypeOK, TaskDevice, PutParamset, Goto, PutBidCos, PutHmIP, tasks,
         StartFirmwareUpdate
<1>2. TableOwned'
  BY DEF HeldInv, TableOwned, PutParamset, timers, PutBidCos, PutHmIP,
         StartFirmwareUpdate
<1>3. StoppingFree'
  BY DEF HeldInv, StoppingFree, PutParamset, timers, stop, PutBidCos, PutHmIP,
         StartFirmwareUpdate
<1>4. EntryHeld'
  BY DEF HeldInv, TypeOK, EntryHeld, Releases, PutParamset, Call, Goto, timers,
         PutBidCos, PutHmIP, tasks, StartFirmwareUpdate
<1>5. SoftHeld'
  BY DEF HeldInv, TypeOK, SoftHeld, PutParamset, Call, Goto, timers, stop,
         PutBidCos, PutHmIP, tasks, StartFirmwareUpdate
<1> QED
  BY <1>1, <1>2, <1>3, <1>4, <1>5 DEF HeldParts

\* A write extends the pulse of its device or starts one.
LEMMA HeldNotifyConfigPending ==
  ASSUME HeldInv, NEW k \in Tasks,
         NotifyConfigPending(k)
  PROVE  HeldParts'
<1>1. TaskDevice'
  BY DEF HeldInv, TypeOK, TaskDevice, NotifyConfigPending, Write, End, Goto
<1>2. TableOwned'
  BY DEF HeldInv, TypeOK, TaskDevice, TableOwned, NotifyConfigPending, Reset,
         AfterFunc, Free, Goto, timers
<1>3. StoppingFree'
  BY DEF HeldInv, TypeOK, StoppingFree, NotifyConfigPending, Reset, AfterFunc, Free,
         Goto, timers, stop
<1>4. EntryHeld'
  BY DEF HeldInv, TypeOK, EntryHeld, Releases, NotifyConfigPending, Reset,
         AfterFunc, Write, End, Goto, timers
<1>5. SoftHeld'
  BY DEF HeldInv, TypeOK, SoftHeld, NotifyConfigPending, Reset, AfterFunc, Write,
         End, Goto, stop
<1> QED
  BY <1>1, <1>2, <1>3, <1>4, <1>5 DEF HeldParts

\* A move extends the ramp of its device or starts one.
LEMMA HeldNotifyRamp ==
  ASSUME HeldInv, NEW k \in Tasks,
         NotifyRamp(k)
  PROVE  HeldParts'
<1>1. TaskDevice'
  BY DEF HeldInv, TypeOK, TaskDevice, NotifyRamp, Write, End, Goto
<1>2. TableOwned'
  BY DEF HeldInv, TypeOK, TaskDevice, TableOwned, NotifyRamp, Reset, AfterFunc,
         Free, Goto, timers
<1>3. StoppingFree'
  BY DEF HeldInv, TypeOK, StoppingFree, NotifyRamp, Reset, AfterFunc, Free, Goto,
         timers, stop
<1>4. EntryHeld'
  BY DEF HeldInv, TypeOK, EntryHeld, Releases, NotifyRamp, Reset, AfterFunc, Write,
         End, Goto, timers
<1>5. SoftHeld'
  BY DEF HeldInv, TypeOK, SoftHeld, NotifyRamp, Reset, AfterFunc, Write, End, Goto,
         timers, stop
<1> QED
  BY <1>1, <1>2, <1>3, <1>4, <1>5 DEF HeldParts

\* A sticky flag loses its timer, a soft one gets one.
LEMMA HeldRaiseConfigPending ==
  ASSUME HeldInv, NEW k \in Tasks,
         RaiseConfigPending(k)
  PROVE  HeldParts'
<1>1. TaskDevice'
  BY DEF HeldInv, TypeOK, TaskDevice, RaiseConfigPending, Write, End, Goto
<1>2. TableOwned'
  BY DEF HeldInv, TypeOK, TaskDevice, TableOwned, Tasks, RaiseConfigPending,
         RaiseTimer, StopEntry, Reset, AfterFunc, Free, timers
<1>3. StoppingFree'
  BY TimerAssumption DEF HeldInv, TypeOK, StoppingFree, RaiseConfigPending,
                         RaiseTimer, StopEntry, Reset, AfterFunc, Free, timers, stop
<1>4. EntryHeld'
  BY DEF HeldInv, TypeOK, TaskDevice, TableOwned, EntryHeld, Releases,
         RaiseConfigPending, RaiseTimer, StopEntry, Reset, AfterFunc, Write, End,
         Goto, timers
<1>5. SoftHeld'
  BY DEF HeldInv, TypeOK, TaskDevice, SoftHeld, RaiseConfigPending, RaiseTimer,
         StopEntry, Reset, AfterFunc, Free, Write, End, Goto, stop
<1> QED
  BY <1>1, <1>2, <1>3, <1>4, <1>5 DEF HeldParts

\* Flag and timer go together.
LEMMA HeldClearConfigPending ==
  ASSUME HeldInv, NEW k \in Tasks,
         ClearConfigPending(k)
  PROVE  HeldParts'
<1>1. TaskDevice'
  BY DEF HeldInv, TypeOK, TaskDevice, ClearConfigPending, Write, End, Goto
<1>2. TableOwned'
  BY DEF HeldInv, TypeOK, TableOwned, ClearConfigPending, StopEntry
<1>3. StoppingFree'
  BY TimerAssumption DEF HeldInv, TypeOK, StoppingFree, ClearConfigPending,
                         StopEntry, stop
<1>4. EntryHeld'
  BY DEF HeldInv, TypeOK, TaskDevice, TableOwned, EntryHeld, Releases,
         ClearConfigPending, StopEntry, Write, End, Goto
<1>5. SoftHeld'
  BY DEF HeldInv, TypeOK, SoftHeld, ClearConfigPending, StopEntry, Write, End, Goto,
         stop
<1> QED
  BY <1>1, <1>2, <1>3, <1>4, <1>5 DEF HeldParts

\* A firmware walk that has stored a state will release its entry.
LEMMA HeldSetValue ==
  ASSUME HeldInv, NEW k \in Tasks,
         SetValue(k)
  PROVE  HeldParts'
<1>1. TaskDevice'
  BY DEF HeldInv, TypeOK, TaskDevice, SetValue, End, Goto
<1>2. TableOwned'
  BY DEF HeldInv, TableOwned, SetValue, timers
<1>3. StoppingFree'
  BY DEF HeldInv, StoppingFree, SetValue, timers, stop
<1>4. EntryHeld'
  BY DEF HeldInv, TypeOK, EntryHeld, Releases, SetValue, End, Goto, timers
<1>5. SoftHeld'
  BY DEF HeldInv, TypeOK, SoftHeld, SetValue, End, Goto, timers, stop
<1> QED
  BY <1>1, <1>2, <1>3, <1>4, <1>5 DEF HeldParts

\* A firmware walk replaces its entry, or drops it after shutdown.
LEMMA HeldArmNext ==
  ASSUME HeldInv, NEW k \in Tasks,
         ArmNext(k)
  PROVE  HeldParts'
<1>1. TaskDevice'
  BY DEF HeldInv, TypeOK, TaskDevice, ArmNext, End, Goto
<1>2. TableOwned'
  BY DEF HeldInv, TypeOK, TaskDevice, TableOwned, ArmNext, DropEntry, AfterFunc,
         Free
<1>3. StoppingFree'
  BY TimerAssumption DEF HeldInv, TypeOK, StoppingFree, ArmNext, DropEntry,
                         AfterFunc, Free, stop
<1>4. EntryHeld'
  BY DEF HeldInv, TypeOK, EntryHeld, Releases, ArmNext, DropEntry, AfterFunc, End,
         Goto
<1>5. SoftHeld'
  BY TimerAssumption DEF HeldInv, TypeOK, SoftHeld, ArmNext, AfterFunc, End, Goto,
                         stop
<1> QED
  BY <1>1, <1>2, <1>3, <1>4, <1>5 DEF HeldParts

\* The callback drops the entry and clears a soft flag.
LEMMA HeldFired ==
  ASSUME HeldInv, NEW k \in Tasks,
         Fired(k)
  PROVE  HeldParts'
<1>1. TaskDevice'
  BY DEF HeldInv, TypeOK, TaskDevice, Fired, Write, End, Goto
<1>2. TableOwned'
  BY DEF HeldInv, TableOwned, Fired, DropEntry
<1>3. StoppingFree'
  BY TimerAssumption DEF HeldInv, TypeOK, StoppingFree, Fired, DropEntry, stop
<1>4. EntryHeld'
  BY DEF HeldInv, TypeOK, EntryHeld, Releases, Fired, DropEntry, Write, End, Goto
<1>5. SoftHeld'
  BY DEF HeldInv, TypeOK, SoftHeld, Fired, DropEntry, Write, End, Goto, stop
<1> QED
  BY <1>1, <1>2, <1>3, <1>4, <1>5 DEF HeldParts

\* A timer that fires hands its entry to its callback.
LEMMA HeldFire ==
  ASSUME HeldInv, NEW t \in Timers, NEW k \in Callbacks,
         Fire(t, k)
  PROVE  HeldParts'
<1>1. TaskDevice'
  BY DEF HeldInv, TypeOK, TaskDevice, TableOwned, Fire, Goto
<1>2. TableOwned'
  BY DEF HeldInv, TableOwned, Fire
<1>3. StoppingFree'
  BY DEF HeldInv, StoppingFree, Fire, stop
<1>4. EntryHeld'
  BY DEF HeldInv, TypeOK, TableOwned, EntryHeld, Releases, Tasks, Fire, Goto
<1>5. SoftHeld'
  BY DEF HeldInv, TypeOK, SoftHeld, Fire, Goto, stop
<1> QED
  BY <1>1, <1>2, <1>3, <1>4, <1>5 DEF HeldParts

\* Shutdown stops timers that have left their table.
LEMMA HeldStopTimer ==
  ASSUME HeldInv, NEW t \in Timers,
         StopTimer(t)
  PROVE  HeldParts'
<1>1. TaskDevice'
  BY DEF HeldInv, TaskDevice, StopTimer, tasks
<1>2. TableOwned'
  BY DEF HeldInv, TableOwned, StopTimer
<1>3. StoppingFree'
  BY DEF HeldInv, StoppingFree, StopTimer
<1>4. EntryHeld'
  BY DEF HeldInv, StoppingFree, EntryHeld, Releases, StopTimer, tasks
<1>5. SoftHeld'
  BY DEF HeldInv, SoftHeld, StopTimer, tasks
<1> QED
  BY <1>1, <1>2, <1>3, <1>4, <1>5 DEF HeldParts

\* Readers and the catalogue touch no timer; deletion clears the flag.
LEMMA HeldCatalogue ==
  ASSUME HeldInv, NEW d \in Devices,
         Compile(d) \/ DeleteDevice(d) \/ AddDevice(d)
  PROVE  HeldParts'
<1>1. TaskDevice'
  BY DEF HeldInv, TaskDevice, Compile, tasks, DeleteDevice, AddDevice
<1>2. TableOwned'
  BY DEF HeldInv, TableOwned, Compile, timers, DeleteDevice, AddDevice
<1>3. StoppingFree'
  BY DEF HeldInv, StoppingFree, Compile, timers, stop, DeleteDevice, AddDevice
<1>4. EntryHeld'
  BY DEF HeldInv, EntryHeld, Releases, Compile, timers, tasks, DeleteDevice,
         AddDevice
<1>5. SoftHeld'
  <2>1. CASE Compile(d) \/ AddDevice(d)
    BY <2>1 DEF HeldInv, SoftHeld, Compile, AddDevice, timers, tasks, stop
  <2>2. CASE DeleteDevice(d)
    BY <2>2 DEF HeldInv, SoftHeld, DeleteDevice, timers, tasks, stop
  <2> QED
    BY <2>1, <2>2
<1> QED
  BY <1>1, <1>2, <1>3, <1>4, <1>5 DEF HeldParts

\* Shutdown takes whole tables away.
LEMMA HeldSwapTimers ==
  ASSUME HeldInv, NEW p \in {"config", "ramps", "lifecycle"},
         SwapTimers(p)
  PROVE  HeldParts'
<1>1. TaskDevice'
  BY DEF HeldInv, TaskDevice, SwapTimers, tasks
<1>2. TableOwned'
  BY DEF HeldInv, TableOwned, SwapTimers
<1>3. StoppingFree'
  BY DEF HeldInv, TableOwned, StoppingFree, SwapTimers, Swapped
<1>4. EntryHeld'
  BY DEF HeldInv, EntryHeld, Releases, SwapTimers, tasks
<1>5. SoftHeld'
  BY DEF HeldInv, SoftHeld, SwapTimers
<1> QED
  BY <1>1, <1>2, <1>3, <1>4, <1>5 DEF HeldParts

\* The initial state has no timers, no tasks and no flags.
LEMMA InitHeld == Init => HeldInv
<1> SUFFICES ASSUME Init
             PROVE  HeldInv
  OBVIOUS
<1>1. TaskDevice /\ TableOwned /\ StoppingFree
  BY TimerAssumption DEF Init, TaskDevice, TableOwned, StoppingFree
<1>2. EntryHeld /\ SoftHeld
  BY DEF Init, EntryHeld, SoftHeld
<1> QED
  BY <1>1, <1>2, InitType DEF HeldInv

\* HeldInv is inductive.
LEMMA NextHeld == HeldInv /\ [Next]_vars => HeldInv'
<1> SUFFICES ASSUME HeldInv, [Next]_vars
             PROVE  HeldInv'
  OBVIOUS
<1>1. TypeOK'
  BY NextType DEF HeldInv
<1>2. ASSUME NEW k \in Tasks, TaskStep(k)
      PROVE  HeldParts'
  BY <1>2, HeldNotifyConfigPending, HeldNotifyRamp, HeldRaiseConfigPending,
     HeldClearConfigPending, HeldSetValue, HeldArmNext, HeldFired DEF TaskStep
<1>3. ASSUME NEW t \in Timers, Expire(t)
      PROVE  HeldParts'
  BY <1>3, HeldFire DEF Expire
<1>4. ASSUME UNCHANGED vars
      PROVE  HeldParts'
  <2>1. TaskDevice' /\ TableOwned' /\ StoppingFree'
    BY <1>4 DEF HeldInv, TaskDevice, TableOwned, StoppingFree, vars, timers, tasks, stop
  <2>2. EntryHeld' /\ SoftHeld'
    BY <1>4 DEF HeldInv, EntryHeld, SoftHeld, Releases, vars, timers, tasks, stop
  <2> QED
    BY <2>1, <2>2 DEF HeldParts
<1>5. ASSUME NEW k \in Handlers, NEW d \in Devices,
             PutParamset(k, d) \/ PutBidCos(k, d) \/ PutHmIP(k, d) \/ StartFirmwareUpdate(k, d)
      PROVE  HeldParts'
  BY <1>5, HeldCalls
<1>6. ASSUME NEW t \in Timers, StopTimer(t)
      PROVE  HeldParts'
  BY <1>6, HeldStopTimer
<1>7. ASSUME NEW d \in Devices, Compile(d) \/ DeleteDevice(d) \/ AddDevice(d)
      PROVE  HeldParts'
  BY <1>7, HeldCatalogue
<1>8. ASSUME NEW p \in {"config", "ramps", "lifecycle"}, SwapTimers(p)
      PROVE  HeldParts'
  BY <1>8, HeldSwapTimers
<1>9. HeldParts'
  BY <1>2, <1>3, <1>4, <1>5, <1>6, <1>7, <1>8 DEF Next
<1> QED
  BY <1>1, <1>9 DEF HeldInv, HeldParts

\* Every entry of a timer table has a running timer or a callback on its way
\* that removes or replaces it: no device is silenced for good (the "pending"
\* and "running" tests of notifyConfigPending, notifyRamp, startFirmwareUpdate).
THEOREM EntriesAreLive == Spec => []EntryIsLive
<1>1. HeldInv => EntryIsLive
  BY DEF HeldInv, EntryHeld, Releases, EntryIsLive, Busy
<1> QED
  BY <1>1, InitHeld, NextHeld, PTL DEF Spec

\* A pending configuration that is not sticky and that nobody is busy with has
\* a running timer that will clear it (mastermodel.go raiseConfigPending).
THEOREM SoftIsAlwaysTimed == Spec => []SoftIsTimed
<1>1. ASSUME HeldInv, NEW d \in Devices, pending[d] = "soft", ~Busy(d), ~stopped
      PROVE  \E t \in Timers : armed[t] /\ owner[t] = d
  <2>1. table[d] # NoTimer
    BY <1>1 DEF HeldInv, SoftHeld, Busy
  <2>2. armed[table[d]] /\ owner[table[d]] = d
    BY <1>1, <2>1 DEF HeldInv, EntryHeld, Releases, TableOwned, Busy
  <2>3. table[d] \in Timers
    BY <1>1, <2>1 DEF HeldInv, TypeOK
  <2> QED
    BY <2>2, <2>3
<1>2. HeldInv => SoftIsTimed
  BY <1>1 DEF SoftIsTimed
<1> QED
  BY <1>2, InitHeld, NextHeld, PTL DEF Spec

=============================================================================
