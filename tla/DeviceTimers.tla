---------------------------- MODULE DeviceTimers ----------------------------
(***************************************************************************)
(* The timed device states of internal/ccu: the CONFIG_PENDING pulse       *)
(* (reachability.go), CONFIG_PENDING of the MASTER write models            *)
(* (mastermodel.go), the moving phase of an actuator (ramps.go) and the    *)
(* progress of a firmware update (lifecycle.go), with the paramset cache   *)
(* they report through, deletion of devices and shutdown.                  *)
(*                                                                         *)
(* A device is followed in the one parameter its mechanism reports.  What  *)
(* a goroutine does under r.mu is one step; the tasks are the handlers of  *)
(* remote calls and the callbacks of timers that have fired.  A callback   *)
(* only knows the device it is for, so a timer whose callback has started  *)
(* may be set again (Reset) or be the timer of a later pulse.  A timer is a *)
(* slot that is reused once nothing refers to it.  Events are fired after  *)
(* each write; their delivery is EventDispatch.                            *)
(***************************************************************************)
EXTENDS Integers, FiniteSets

CONSTANTS
  Devices,
  Kinds,        \* which of the mechanisms below a device may have
  Handlers,     \* goroutines of remote calls
  Callbacks,    \* slots for goroutines of fired timers
  Timers,       \* slots for timers
  Steps,        \* len(firmwareSequence)
  NoTimer,      \* no entry in the timer table
  NoDevice,     \* device of an idle task
  MaxCalls      \* bound: remote calls that change something

\* pulse: CONFIG_PENDING without a write model; bidcos, hmip: the write models;
\* ramp: an actuator with LEVEL; firmware: a device that is updated.
AllKinds == {"pulse", "bidcos", "hmip", "ramp", "firmware"}

ASSUME TimerAssumption ==
  /\ Kinds \subseteq AllKinds
  /\ Handlers \cap Callbacks = {}
  /\ Steps \in Nat /\ Steps >= 2
  /\ NoTimer \notin Timers
  /\ NoDevice \notin Devices
  /\ MaxCalls \in Nat

VARIABLES
  kind,       \* the mechanism of a device
  known,      \* the device is in the catalogue
  value,      \* what the paramset store holds for it, Unset if nothing
  compiled,   \* what r.paramsetCompiled holds for it, Uncached if nothing
  dirty,      \* r.paramsetDirty
  invalid,    \* the stored MASTER configuration holds an invalid value
  pending,    \* r.pendingSticky: absent, false or true
  table,      \* the timer table of its mechanism
  armed,      \* the timer is running
  owner,      \* the device of a timer
  next,       \* the state a firmware timer reports when it fires
  tpc,        \* where a task is
  tdev,       \* its device
  tval,       \* the value it is about to write
  tsticky,    \* raiseConfigPending's argument
  stopped,    \* r.timersStopped
  phase,      \* how far stopTimers has come
  stopping,   \* the timers it has taken out of a table and not yet stopped
  calls       \* number of calls so far

store  == <<known, value, compiled, dirty, invalid>>
timers == <<table, armed, owner, next>>
tasks  == <<tpc, tdev, tval, tsticky>>
stop   == <<stopped, phase, stopping>>
vars   == <<kind, store, pending, timers, tasks, stop, calls>>

Tasks    == Handlers \cup Callbacks
Unset    == 0
Resting  == 1     \* CONFIG_PENDING false, ACTIVITY_STATE idle
Active   == 2     \* CONFIG_PENDING true, ACTIVITY_STATE up or down
Values   == 0 .. Steps
Uncached == Steps + 1

Init ==
  /\ kind \in [Devices -> Kinds]
  /\ known = [d \in Devices |-> TRUE]
  /\ value = [d \in Devices |-> Unset]
  /\ compiled = [d \in Devices |-> Uncached]
  /\ dirty = [d \in Devices |-> FALSE]
  /\ invalid = [d \in Devices |-> FALSE]
  /\ pending = [d \in Devices |-> "none"]
  /\ table = [d \in Devices |-> NoTimer]
  /\ armed = [t \in Timers |-> FALSE]
  /\ owner = [t \in Timers |-> NoDevice]
  /\ next = [t \in Timers |-> 0]
  /\ tpc = [k \in Tasks |-> "idle"]
  /\ tdev = [k \in Tasks |-> NoDevice]
  /\ tval = [k \in Tasks |-> 0]
  /\ tsticky = [k \in Tasks |-> FALSE]
  /\ stopped = FALSE
  /\ phase = "running"
  /\ stopping = {}
  /\ calls = 0

-----------------------------------------------------------------------------
(* Timers                                                                  *)

\* A slot nothing refers to, for a new timer.
Free == {t \in Timers : ~armed[t] /\ t \notin stopping /\ \A d \in Devices : table[d] # t}

\* time.AfterFunc, and the table entry for it.
AfterFunc(d, t, nxt) ==
  /\ t \in Free
  /\ armed' = [armed EXCEPT ![t] = TRUE]
  /\ owner' = [owner EXCEPT ![t] = d]
  /\ next' = [next EXCEPT ![t] = nxt]
  /\ table' = [table EXCEPT ![d] = t]

\* Reset of the timer in the table, whether or not it has fired.
Reset(d) ==
  /\ armed' = [armed EXCEPT ![table[d]] = TRUE]
  /\ UNCHANGED <<table, owner, next>>

\* Stop of the timer in the table, if any, and removal of its entry.
StopEntry(d) ==
  /\ armed' = [t \in Timers |-> armed[t] /\ t # table[d]]
  /\ table' = [table EXCEPT ![d] = NoTimer]
  /\ UNCHANGED <<owner, next>>

\* Mutation: the entry stays.
DropEntryForgotten(d) == UNCHANGED timers

DropEntry(d) ==
  /\ table' = [table EXCEPT ![d] = NoTimer]
  /\ UNCHANGED <<armed, owner, next>>

-----------------------------------------------------------------------------
(* Tasks                                                                   *)

\* Task k goes on to pc for device d with value v.
Goto(k, pc, d, v, sticky) ==
  /\ tpc' = [tpc EXCEPT ![k] = pc]
  /\ tdev' = [tdev EXCEPT ![k] = d]
  /\ tval' = [tval EXCEPT ![k] = v]
  /\ tsticky' = [tsticky EXCEPT ![k] = sticky]

End(k) == Goto(k, "idle", NoDevice, 0, FALSE)
Write(k, v) == Goto(k, "write", tdev[k], v, FALSE)

Call(k) ==
  /\ k \in Handlers
  /\ tpc[k] = "idle"
  /\ calls < MaxCalls
  /\ calls' = calls + 1

\* putParamset of a MASTER paramset without a write model, and of LEVEL: the
\* value is stored, what follows depends on the mechanism.
PutParamset(k, d) ==
  /\ Call(k)
  /\ known[d]
  /\ kind[d] \in {"pulse", "ramp"}
  /\ Goto(k, kind[d], d, 0, FALSE)
  /\ UNCHANGED <<kind, store, pending, timers, stop>>

\* putMasterModel, rfd: CONFIG_PENDING is raised when something changed.
PutBidCos(k, d) ==
  /\ Call(k)
  /\ known[d]
  /\ kind[d] = "bidcos"
  /\ Goto(k, "raise", d, 0, FALSE)
  /\ UNCHANGED <<kind, store, pending, timers, stop>>

\* putMasterModel, hmipserver: it stores what it is given, becomes sticky for
\* an invalid value that changed something and clears for a configuration
\* without invalid values.  A value that changes nothing may still be invalid
\* (a mistyped default), but does not repair an invalid one.
PutHmIP(k, d) ==
  /\ Call(k)
  /\ known[d]
  /\ kind[d] = "hmip"
  /\ \E bad, changed \in BOOLEAN :
       /\ ~changed /\ invalid[d] => bad
       /\ invalid' = [invalid EXCEPT ![d] = bad]
       /\ IF bad /\ changed THEN Goto(k, "raise", d, 0, TRUE)
          ELSE IF ~bad THEN Goto(k, "clear", d, 0, FALSE)
          ELSE UNCHANGED tasks
  /\ UNCHANGED <<kind, known, value, compiled, dirty, pending, timers, stop>>

\* startFirmwareUpdate: only the test is under the lock, the walk starts after.
StartFirmwareUpdate(k, d) ==
  /\ Call(k)
  /\ kind[d] = "firmware"
  /\ IF stopped \/ table[d] # NoTimer THEN UNCHANGED tasks
     ELSE Goto(k, "write", d, 1, FALSE)
  /\ UNCHANGED <<kind, store, pending, timers, stop>>

\* notifyConfigPending: extends a pulse in flight or starts one.
NotifyConfigPending(k) ==
  LET d == tdev[k] IN
  /\ tpc[k] = "pulse"
  /\ \/ /\ stopped
        /\ End(k)
        /\ UNCHANGED timers
     \/ /\ ~stopped
        /\ table[d] # NoTimer
        /\ Reset(d)
        /\ End(k)
     \/ /\ ~stopped
        /\ table[d] = NoTimer
        /\ \E t \in Timers : AfterFunc(d, t, 0)
        /\ Write(k, Active)
  /\ UNCHANGED <<kind, store, pending, stop, calls>>

\* notifyRamp: the same, but a move that goes nowhere starts none.
NotifyRamp(k) ==
  LET d == tdev[k] IN
  /\ tpc[k] = "ramp"
  /\ \/ /\ stopped \/ table[d] = NoTimer
        /\ End(k)
        /\ UNCHANGED timers
     \/ /\ ~stopped
        /\ table[d] # NoTimer
        /\ Reset(d)
        /\ End(k)
     \/ /\ ~stopped
        /\ table[d] = NoTimer
        /\ \E t \in Timers : AfterFunc(d, t, 0)
        /\ Write(k, Active)
  /\ UNCHANGED <<kind, store, pending, stop, calls>>

\* The timer part of raiseConfigPending: a sticky flag has none, another is
\* set to clear itself.
RaiseTimer(d, sticky) ==
  IF sticky THEN StopEntry(d)
  ELSE IF stopped THEN UNCHANGED timers
  ELSE IF table[d] # NoTimer THEN Reset(d)
  ELSE \E t \in Timers : AfterFunc(d, t, 0)

\* raiseConfigPending: a sticky flag is never downgraded, only the rising edge
\* is reported, and only where the device describes the parameter.
RaiseConfigPending(k) ==
  LET d      == tdev[k]
      sticky == tsticky[k] \/ pending[d] = "sticky"
  IN
  /\ tpc[k] = "raise"
  /\ pending' = [pending EXCEPT ![d] = IF sticky THEN "sticky" ELSE "soft"]
  /\ RaiseTimer(d, sticky)
  /\ IF pending[d] = "none" /\ known[d] THEN Write(k, Active) ELSE End(k)
  /\ UNCHANGED <<kind, store, stop, calls>>

\* Mutation: the configuration stays pending.
ClearFlagForgotten(k) ==
  LET d == tdev[k] IN
  /\ tpc[k] = "clear"
  /\ StopEntry(d)
  /\ IF pending[d] # "none" /\ known[d] THEN Write(k, Resting) ELSE End(k)
  /\ UNCHANGED <<kind, store, pending, stop, calls>>

\* clearConfigPending.
ClearConfigPending(k) ==
  LET d == tdev[k] IN
  /\ tpc[k] = "clear"
  /\ pending' = [pending EXCEPT ![d] = "none"]
  /\ StopEntry(d)
  /\ IF pending[d] # "none" /\ known[d] THEN Write(k, Resting) ELSE End(k)
  /\ UNCHANGED <<kind, store, stop, calls>>

\* Mutation: the compiled paramset is not marked stale.
StoreUnmarked(d, v) ==
  /\ value' = [value EXCEPT ![d] = v]
  /\ dirty' = dirty

\* A value enters the store, whether or not the device is still known.
Store(d, v) ==
  /\ value' = [value EXCEPT ![d] = v]
  /\ dirty' = [dirty EXCEPT ![d] = TRUE]

\* setMaintenanceValue, setValueSilently; the firmware walk goes on.
SetValue(k) ==
  /\ tpc[k] = "write"
  /\ Store(tdev[k], tval[k])
  /\ IF kind[tdev[k]] = "firmware" THEN Goto(k, "arm", tdev[k], tval[k], FALSE) ELSE End(k)
  /\ UNCHANGED <<kind, known, compiled, invalid, pending, timers, stop, calls>>

\* Mutation: the walk goes on although the timers have been stopped.
ArmNextUnstopped(k) ==
  /\ tpc[k] = "arm"
  /\ \E t \in Timers : AfterFunc(tdev[k], t, tval[k] + 1)
  /\ End(k)
  /\ UNCHANGED <<kind, store, pending, stop, calls>>

\* The second half of advanceFirmware: schedule the next state.
ArmNext(k) ==
  /\ tpc[k] = "arm"
  /\ IF stopped THEN DropEntry(tdev[k])
     ELSE \E t \in Timers : AfterFunc(tdev[k], t, tval[k] + 1)
  /\ End(k)
  /\ UNCHANGED <<kind, store, pending, stop, calls>>

\* Mutation: the walk ends one state early.
EarlyEnd(v) == v >= Steps

\* Mutation: the walk goes on past the last state.
LateEnd(v) == v > Steps + 1

\* advanceFirmware's end of the sequence.
AtTheEnd(v) == v > Steps

\* A timer fires: its goroutine starts and has not got the lock yet.
Fire(t, k) ==
  LET d == owner[t] IN
  /\ armed[t]
  /\ k \in Callbacks
  /\ tpc[k] = "idle"
  /\ armed' = [armed EXCEPT ![t] = FALSE]
  /\ IF kind[d] = "firmware" /\ ~AtTheEnd(next[t]) THEN Goto(k, "write", d, next[t], FALSE)
     ELSE Goto(k, "fired", d, 0, FALSE)
  /\ UNCHANGED <<kind, store, pending, table, owner, next, stop, calls>>

\* The callback of a pulse or ramp, or the end of a firmware walk: the entry of
\* the device goes, whichever timer it is for, and the falling edge follows.
Fired(k) ==
  LET d == tdev[k] IN
  /\ tpc[k] = "fired"
  /\ DropEntry(d)
  /\ IF stopped \/ kind[d] = "firmware" THEN End(k)
     ELSE IF kind[d] \in {"pulse", "ramp"} THEN Write(k, Resting)
     ELSE IF pending[d] = "sticky" THEN End(k)
     ELSE Goto(k, "clear", d, 0, FALSE)
  /\ UNCHANGED <<kind, store, pending, stop, calls>>

-----------------------------------------------------------------------------
(* Readers, the catalogue and shutdown                                     *)

\* GetParamset, when it has to compile: the overrides over the defaults.
Compile(d) ==
  /\ known[d]
  /\ dirty[d] \/ compiled[d] = Uncached
  /\ compiled' = [compiled EXCEPT ![d] = value[d]]
  /\ dirty' = [dirty EXCEPT ![d] = FALSE]
  /\ UNCHANGED <<kind, known, value, invalid, pending, timers, tasks, stop, calls>>

\* DeleteDevice: clearAddressCachesLocked; the timers of the device stay.
DeleteDevice(d) ==
  /\ known[d]
  /\ calls < MaxCalls
  /\ calls' = calls + 1
  /\ known' = [known EXCEPT ![d] = FALSE]
  /\ value' = [value EXCEPT ![d] = Unset]
  /\ compiled' = [compiled EXCEPT ![d] = Uncached]
  /\ dirty' = [dirty EXCEPT ![d] = FALSE]
  /\ invalid' = [invalid EXCEPT ![d] = FALSE]
  /\ pending' = [pending EXCEPT ![d] = "none"]
  /\ UNCHANGED <<kind, timers, tasks, stop>>

\* AddDevices loads the device type again.
AddDevice(d) ==
  /\ ~known[d]
  /\ known' = [known EXCEPT ![d] = TRUE]
  /\ UNCHANGED <<kind, value, compiled, dirty, invalid, pending, timers, tasks, stop, calls>>

\* The tables stopTimers swaps for empty ones, one after the other.
Swapped(p) ==
  CASE p = "config"    -> {d \in Devices : kind[d] \in {"pulse", "bidcos", "hmip"}}
    [] p = "ramps"     -> {d \in Devices : kind[d] = "ramp"}
    [] p = "lifecycle" -> {d \in Devices : kind[d] = "firmware"}

\* stopTimers, stopRampTimers, stopLifecycleTimers: once the timers of the
\* table before have been stopped.
SwapTimers(p) ==
  /\ stopping = {}
  /\ <<phase, p>> \in {<<"running", "config">>, <<"config", "ramps">>, <<"ramps", "lifecycle">>}
  /\ phase' = p
  /\ stopped' = TRUE
  /\ stopping' = {table[d] : d \in Swapped(p)} \ {NoTimer}
  /\ table' = [d \in Devices |-> IF d \in Swapped(p) THEN NoTimer ELSE table[d]]
  /\ UNCHANGED <<kind, store, pending, armed, owner, next, tasks, calls>>

StopTimer(t) ==
  /\ t \in stopping
  /\ stopping' = stopping \ {t}
  /\ armed' = [armed EXCEPT ![t] = FALSE]
  /\ UNCHANGED <<kind, store, pending, table, owner, next, tasks, stopped, phase, calls>>

-----------------------------------------------------------------------------
TaskStep(k) ==
  \/ NotifyConfigPending(k) \/ NotifyRamp(k) \/ RaiseConfigPending(k)
  \/ ClearConfigPending(k) \/ SetValue(k) \/ ArmNext(k) \/ Fired(k)

Expire(t) == \E k \in Callbacks : Fire(t, k)

Next ==
  \/ \E k \in Handlers, d \in Devices :
       PutParamset(k, d) \/ PutBidCos(k, d) \/ PutHmIP(k, d) \/ StartFirmwareUpdate(k, d)
  \/ \E k \in Tasks : TaskStep(k)
  \/ \E t \in Timers : Expire(t) \/ StopTimer(t)
  \/ \E d \in Devices : Compile(d) \/ DeleteDevice(d) \/ AddDevice(d)
  \/ \E p \in {"config", "ramps", "lifecycle"} : SwapTimers(p)

Spec == Init /\ [][Next]_vars

\* Goroutines run on and timers fire; nobody has to call, read or stop.
FairSpec ==
  /\ Spec
  /\ \A k \in Tasks : WF_vars(TaskStep(k))
  /\ \A t \in Timers : WF_vars(Expire(t))

-----------------------------------------------------------------------------
(* Properties                                                              *)

TypeOK ==
  /\ kind \in [Devices -> Kinds]
  /\ known \in [Devices -> BOOLEAN]
  /\ value \in [Devices -> Values]
  /\ compiled \in [Devices -> Values \cup {Uncached}]
  /\ dirty \in [Devices -> BOOLEAN]
  /\ invalid \in [Devices -> BOOLEAN]
  /\ pending \in [Devices -> {"none", "soft", "sticky"}]
  /\ table \in [Devices -> Timers \cup {NoTimer}]
  /\ armed \in [Timers -> BOOLEAN]
  /\ owner \in [Timers -> Devices \cup {NoDevice}]
  /\ next \in [Timers -> 0 .. Steps + 1]
  /\ tpc \in [Tasks -> {"idle", "pulse", "ramp", "raise", "clear", "write", "arm", "fired"}]
  /\ tdev \in [Tasks -> Devices \cup {NoDevice}]
  /\ tval \in [Tasks -> Values]
  /\ tsticky \in [Tasks -> BOOLEAN]
  /\ stopped \in BOOLEAN
  /\ phase \in {"running", "config", "ramps", "lifecycle"}
  /\ stopping \subseteq Timers
  /\ calls \in 0 .. MaxCalls

\* A paramset that is served from the cache is the one in the store, whatever
\* callbacks of deleted devices have written (rpcfunctions.go GetParamset,
\* reachability.go setMaintenanceValue, clearAddressCachesLocked).
CacheCoherent ==
  \A d \in Devices : ~dirty[d] /\ compiled[d] # Uncached => compiled[d] = value[d]

Busy(d) == \E k \in Tasks : tdev[k] = d

\* A timer in the table is running or its callback has started: no entry is
\* left behind that would silence every later pulse or update of the device
\* (the "pending" and "running" tests of notifyConfigPending, notifyRamp and
\* startFirmwareUpdate).
EntryIsLive ==
  \A d \in Devices : table[d] # NoTimer => armed[table[d]] \/ Busy(d)

\* A pending configuration that is not sticky has a timer that will clear it,
\* as long as the simulator runs (mastermodel.go raiseConfigPending).
SoftIsTimed ==
  \A d \in Devices :
    pending[d] = "soft" /\ ~Busy(d) /\ ~stopped =>
      \E t \in Timers : armed[t] /\ owner[t] = d

\* Once the timers have been stopped none is started or set again
\* (the timersStopped tests of five functions).
NoArmingAfterStop ==
  [][stopped => \A t \in Timers : armed'[t] => armed[t]]_vars

\* A firmware walk that has begun reports the last state, unless the simulator
\* is stopped or the device deleted (lifecycle.go advanceFirmware).
UpdateCompletes ==
  \A d \in Devices :
    (kind[d] = "firmware" /\ Busy(d)) ~> (value[d] \in {Steps, Unset} \/ stopped)

\* reachability.go notifyConfigPending: "true immediately, false once the
\* configured span has passed".  When the last timer and callback of a device
\* are gone its pulse is over.
PulseSettles ==
  \A d \in Devices :
    /\ kind[d] = "pulse" /\ ~stopped /\ ~Busy(d)
    /\ \A t \in Timers : ~(armed[t] /\ owner[t] = d)
    => value[d] # Active

=============================================================================
