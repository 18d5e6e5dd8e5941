# A TLA+ model of godevccu

godevccu simulates a Homematic CCU: it speaks XML-RPC, BIN-RPC and JSON-RPC to
clients ("logic layers"), keeps the state of simulated devices, pushes events,
and offers the HTTP/SSE interface of an openccu-lite box (`pkg/litefake`).
It is a concurrent program: every remote call runs in a goroutine of its own,
timers fire on their own, events go out through delivery goroutines, streams
have handlers that live for hours. This directory holds TLA+ models of the
parts in which order, failure and concurrency matter, TLC runs on small
instances, and TLAPS proofs for instances of every size.

Paths below are relative to the repository.

## 1. Inventory

| component | state | operations | interacts with |
|---|---|---|---|
| event dispatch and registration (`internal/ccu/dispatcher.go`, `remote.go`, `rpcfunctions.go`, `initsemantics.go`) | registration table `remotes`, dispatcher table, one queue and goroutine per registration | init, deregistration, `fireEvent`, batch delivery, failure callback, `ForgetClients`, `stopDispatchers` | called by every handler and timer that changes a value; calls the logic layers |
| device timers (`reachability.go`, `mastermodel.go`, `ramps.go`, `lifecycle.go`) | timer tables for CONFIG_PENDING, ramps and firmware; `pendingSticky`; `timersStopped` | pulse, raise, clear, ramp, firmware walk, `stopTimers` | started by writes, write to the paramset store, fire events |
| paramset store (`rpcfunctions.go`, `normalize.go`, `mastermodel.go`, `servicemessages.go`) | overrides, compiled cache, dirty marks, poisoned channels, links, metadata, suppressed messages | `setValue`, `putParamset`, `getParamset`, link paramsets, unreach, clean-up, save and load | timers, catalogue, dispatch |
| device responses, converters (`internal/deviceresponses`, `internal/converter`) | tables | what a device reports of a write; conversions and clamping | the paramset store |
| device catalogue and init diff (`rpcfunctions.go`, `initsemantics.go`, `loader.go`) | devices and active types, registered clients, the copy each client holds | add, delete, remove devices; the diff after init; re-announcement | pushes `newDevices`/`deleteDevices` outside the lock |
| server lifecycle and faults (`server.go`, `restart.go`, `faultinject.go`, `initpersistence.go`, `tls_server.go`, `binrpc_server.go`) | listeners, suspended flag, fault rules, held calls, files | start, stop, suspend, resume, restart, inject, release | stops timers and dispatchers, saves the paramsets |
| virtual CCU (`internal/virtualccu`), SSDP | the servers of all interfaces and the web API | start with roll-back, ordered stop, restarts by scenario | composes everything |
| session manager (`internal/session`) | sessions with expiry, auth switch | login, renew, validate, logout, cleanup | JSON-RPC |
| state manager (`internal/state`) | programs, system variables (two indexes), rooms, messages, inbox, backup, update, names and ids | CRUD, clear, delayed backup | JSON-RPC, ReGa |
| JSON-RPC server and handlers (`internal/jsonrpc`), ReGa scripts (`internal/rega`) | none of its own | admission, batches, handlers, scripts | sessions, state manager, interface process |
| litefake event ring and stream (`pkg/litefake/ring.go`, `stream.go`, `knobs.go`) | bounded ring of messages, attached readers with bounded queues, boot id | publish, attach/resume, fan-out, hello/resync/replay/live frames, forced gap/overflow/restart, revocation | fed by the subscriber, read by SSE clients |
| litefake metadata store and change stream (`meta.go`, `metastream.go`) | objects and enum trees with one revision, bounded change log, streams | atomic mutations, change stream with resume | HTTP clients |
| litefake pairing and authentication (`pairing.go`, `auth.go`) | pairing requests, tokens, accounts, logins, rate windows | ask, poll, long poll, approve, reject, withdraw, log in and out | HTTP clients, streams |
| litefake state values, subscriber, RPC proxy (`subscriber.go`, `rpc.go`, `knobs.go`) | current values and their event numbers, subscriptions | publish then store, state seed, restarts, proxied calls | ring, interface processes |
| litefake groups and system (`groups.go`, `system.go`) | heating groups, staged update, uploads | create, change, delete; download, backup, restore | HTTP clients |
| codecs; ReGa VM; UPnP; log ring; CLI | mostly none | formatting, parsing, scripts, I/O | - |

Behaviours that are hard here, and what is wanted of the parts:

* **Dispatch.** Registrations are replaced while producers hold a snapshot of
  them and while goroutines deliver to the replaced client. Wanted: at most one
  delivery of an event per client, in order within one goroutine, never to a
  key that was not registered; a late failure of an old client must not remove a new
  registration; a goroutine that leaves the table must be stopped; a queue
  that was accepted must drain.
* **Streams.** A consumer reconnects with the last id it saw while messages are
  published, the ring is pruned, its old stream is not yet detached and the box
  restarts. Wanted: replay and live queue continue each other exactly; a gap
  is announced exactly when there is one; the stream limits hold; streams that
  have lost their purpose end. A mutation of the metadata store publishes
  several events under one revision, and the log may be cut between them.
* **Timers.** A fired timer waits for the lock while the entry it is about to
  delete is reused; deletion of a device and shutdown come in between. Wanted:
  the paramset cache follows every write; no stale entry silences a device
  for good; nothing is armed after shutdown; a soft pending configuration
  clears itself; a firmware update that starts comes to its end.
* **Store and catalogue.** A write of several values stops at the first that is
  refused; deletion, re-addition and restart have to agree about what is cached
  and what is poisoned. Catalogue changes and init diffs are computed under the
  lock and told outside it, call by call, so they overtake each other. Wanted: a
  read is what it would be without the cache; calls about different devices, or
  that agree about one, add up to the devices there are in whatever order they
  reach a client.
* **Lifecycle.** Stop and Suspend release the lock before they are through,
  so the next Start and the next Stop may come meanwhile. A write is answered
  while the file is written, and writing it may fail; a fault holds calls on a
  channel that is replaced after each release; ten listeners are bound with
  hand-written roll-backs. Wanted: what was answered before Stop was asked for
  is on disk after it; no held call is out of reach; no port stays bound that
  nobody owns, except where the code leaks it.
* **Credentials.** A request reads the authentication switch twice and the
  session table once, in three critical sections; long polls wait for a pairing
  without the lock, several at once; scopes are read when a call comes in and
  the call goes out later. Wanted: who is let in or turned away is so for a
  reason; a token reaches one poll; nothing exceeds its scopes.

`PROJECT.json` lists these hazards one by one with their source lines.

## 2. Modules

| module | models | composed in | proofs |
|---|---|---|---|
| `EventDispatch` | registration, snapshot, dispatchers, delivery | - | `EventDispatchProofs` |
| `EventRing` | ring, streams, consumers | - | `EventRingProofs` |
| `DeviceTimers` | timed device states, paramset cache, shutdown | - | `DeviceTimersProofs` |
| `ParamValues`, `DeviceResponses` | values, conversions, what devices report (operators) | `ParamsetStore` | `ServerProofs` |
| `ParamsetStore` | paramsets, cache, write models, links, metadata | `DeviceCatalogue` | `ServerProofs` |
| `DeviceCatalogue` | devices, registrations, calls on their way to clients | `ServerLifecycle` | `ServerProofs` |
| `ServerLifecycle` | an interface process from start to stop | `JsonRpc` | `CcuProofs`, `ServerProofs` |
| `ServerContract` | what an interface process promises (abstract) | refined by `ServerLifecycle` | `ServerProofs` |
| `Sessions` | sessions, admission of web requests | `JsonRpc` | `CcuProofs` |
| `StateManager` | the CCU's own objects | `JsonRpc` | `CcuProofs` |
| `JsonRpc` | handlers and scripts | `Ccu` | |
| `VirtualCcu` | listeners of the whole simulator | `Ccu` | `CcuProofs` |
| `Ccu` | one simulated CCU, everything above together | - | `CcuProofs`, `ServerProofs` |
| `MetaStore` | metadata, change log, change streams | `Litefake` | `MetaProofs` |
| `Pairing` | tokens, accounts, logins, pairing requests | `RpcProxy` | `LitefakeProofs` |
| `PairingContract` | what pairing promises (abstract) | refined by `Pairing` | `LitefakeProofs` |
| `StateSeed` | publishing, kept values, the state seed, restarts | `RpcProxy` | `SeedProofs` |
| `RpcProxy` | forwarded calls and their scopes | `Litefake` | `LitefakeProofs` |
| `LiteSystem` | groups, update, backup and restore | `Litefake` | `LitefakeProofs` |
| `Litefake` | one fake box, the five above together | - | `LitefakeProofs`, `MetaProofs`, `SeedProofs` |

Each `MC...` module gives one specification its instance for TLC. The
definitions whose comment begins with "Mutation" are plausible wrong versions of
the definition next to them. No specification uses them; each shows that a
property really depends on the code it is about (`mutants` in `PROJECT.json`).

A component module has variables, an initial predicate and actions; `Ccu` and
`Litefake` have the next-state relation. There every call of a client or of the
test that drives the simulator is an action that takes one from the *budget* of
its part, and every step that the program goes on with by itself is an action
that does not. A behaviour starts with one of the budgets of the constant
`Budgets`.

### EventDispatch

One step is what one goroutine does between `r.mu.Lock` and `Unlock`, one
channel operation or one remote call.

| code | action or operator |
|---|---|
| `Init` with an interface id | `Register`: a fresh client takes the key, the dispatcher of the old one is dropped |
| `Init` without one | `Deregister` (`Matches` is the exact URL with init semantics, overlapping text without) |
| `ForgetClients`, `stopDispatchers` | `ForgetClients`, `StopDispatchers`: the table is swapped under the lock, `CloseDone` follows outside it, one goroutine at a time |
| `fireEvent`, snapshot in `dispatchEvent` | `FireEvent`: the event with the registrations of that moment |
| loop of `dispatchEvent`, batching | `DispatcherFor`, `Enqueue` (a full queue drops) |
| loop of `dispatchEvent`, direct | `CallEvent`, `RemoveFailed` |
| `dispatcher.run`, `collect`, `deliver` | `Take`, `Return`, `Collect`, `EndCollect`, `Deliver` |
| the callback of `dispatcherFor` | `OnGone` |

A client is identified by the init call that made it, since each call creates a
fresh object. `events`, `sent` and `excused` are history variables: what was
fired with which snapshot, what each client got, and which clients were
replaced, removed or unreachable.

### EventRing

One step is what happens under the ring's lock, or one frame written.

| code | action or operator |
|---|---|
| `publish`, `pruneLocked`, the fan-out | `Publish`, `Prune`, `Offer` |
| `attach`, `resumeLocked` | `Join`, `MayAttach`, `Resume`, `Covers`, `After`, `Opening` |
| `handleEvents`, `writeOpening`, `writeHello` | `WriteHello`, `WriteResync`, `WriteReplay`, `WriteLive`, `TickOverflow`, `End` |
| `dropStreams`, `forceOverflow`, `forceGap`, `restart`, `SetTokens` | `DropStreams`, `ForceOverflow`, `ForceGap`, `Restart`, `Revoke` |
| the SSE client and its connection (external) | `Connect`, `Disconnect`, `Connected` |

A prune by age may drop any number of the oldest messages, so `Prune` is a set
of results. A consumer remembers the id of the last frame it was written and
resumes from it. `pos`, `seen` and `cut` are history variables.

### DeviceTimers

One step is what a goroutine does under `r.mu`. Handlers of remote calls and
callbacks of fired timers are tasks with a program counter; a timer is a slot
that is running or not and knows its device. A callback that has started holds
only its device, as in the code, so the entry it deletes may be a later timer's.

| code | action or operator |
|---|---|
| `notifyConfigPending` | `PutParamset`, `NotifyConfigPending`, `SetValue` |
| `notifyRamp` | `PutParamset`, `NotifyRamp`, `SetValue` |
| `putMasterModel`, `raiseConfigPending`, `clearConfigPending` | `PutBidCos`, `PutHmIP`, `RaiseConfigPending` (`RaiseTimer`), `ClearConfigPending` |
| `startFirmwareUpdate`, `advanceFirmware` | `StartFirmwareUpdate`, `SetValue`, `ArmNext`, `AtTheEnd` |
| a timer that fires, its callback | `Fire`, `Fired` |
| `GetParamset` when it compiles | `Compile` |
| `DeleteDevice`, `AddDevices` | `DeleteDevice`, `AddDevice` |
| `stopTimers`, `stopRampTimers`, `stopLifecycleTimers` | `SwapTimers`, `StopTimer` |

A device has one mechanism (`kind`) and is followed in the one parameter that
mechanism reports; what `putParamset` stores is in `ParamsetStore`.

### ParamValues, DeviceResponses, ParamsetStore

A value has a type (bool, int, real, a half, a string that spells one of these,
a label) and a content; a description has the type, bounds, special values,
labels and default of a parameter. Bounds may be strings, which `clampNumeric`
parses and `clampTo` does not look at. Conversion and clamping are operators on them.

| code | action or operator |
|---|---|
| `convertParamValue`, `validateEnumBounds`, `clampNumeric` | `Typed`, `Number`, `Clamp`, `OutOfBounds`, `Stored` |
| `mastermodel.go`: the HmIP and BidCos rules | `HmipStored`, `HmipValid`, `BidcosStored`, `Rounded`, `ClampTo` |
| `converter`: combined parameters | `IsConvertable`, `ConvertCombined`, `ConvertLevels`, `Expanded` |
| `deviceresponses`: the lookup, `ComputeEvents` | `Mapping`, `ComputeEvents` |
| `getParamset` with its compiled copy | `GetParamset` (`Answer`, `Read`) |
| `setValue`, `putParamset` | `SetValue`, `PutParamset`: value by value, `Taken` is what goes in before the first refused one |
| `putMasterModel` | `PutMasterModel` (`Modelled`, `HmipWrite`, `BidcosWrite`) |
| `SetDeviceUnreachable` | `Unreach` finds the device, `UnreachWrite` writes |
| `SuppressServiceMessage`, links, metadata | `Suppress`, `AddLink`, `RemoveLink`, `PutLinkParamset`, `SetLinkInfo`, `SetMetadata` |
| `clearAddressCachesLocked` | `Cleared` |
| `SaveParamsets`, `loadParamsetsFromDisk` | `AsJson` (whole numbers come back as floats), `Loaded` |

### DeviceCatalogue

| code | action or operator |
|---|---|
| `AddDevices`, its load and its push | `AddDevices`, `AddTell` |
| `DeleteDevice`, `RemoveDevices` | the same, with `Drop` |
| `Init` with and without an id | `Register`, `Unregister` |
| `askDevices`, `pushDevices`, `reconcileDevices` | `Ask`, `AskFails`, `Diff` (`PushDevices`, `ReconcileDevices`) |
| a `newDevices` or `deleteDevices` call to one client | `Deliver`, `Lose` |
| `ForgetClients`, `ReannounceClients` | the same |
| a logic layer (external) | its entry of `copies`, which `Deliver` changes |

An operation under way is a record of `work` with the calls it has still to
make; several of them interleave. `upset` names the clients to
which a call was lost or who did not answer, that were restored from the file, or
for which an address changed while a call about that address was on its way
(`Disturbed`), until an init makes it good: until then nothing in the code would.

### ServerLifecycle and ServerContract

| code | action or operator |
|---|---|
| `Start`, `StartTLS`, `StopTLS`, BIN-RPC | `StartServer`, `StartTLS`, `StopTLS`, `SetBINRPC` |
| `Suspend`: under the lock, the listeners, BIN-RPC | `Suspend`, `SuspendClose`, `SuspendBin` |
| `Resume`: the listeners, what follows | `Resume`, `ResumeRest` |
| `Stop`: under the lock, release of held calls, registrations, paramsets, shutdown | `Stop(k)`, `StopRelease`, `StopRegs` and `StopRegWrite`, `StopSave` and `StopWrite`, `StopShutdown`, `StopReturn` |
| a write of the paramsets that fails: logged, and `Stop` goes on | `StopFails` |
| `InjectFault`, `ClearFaults`, `take`, `intercept` | `InjectFault`, `ClearFaults`, `TakeRule`, `Intercept`, `DelayEnds`, `LetGo` |
| a new process, also after a crash | `Boot` (`file = Torn`: the file was emptied and not written whole) |
| another program that takes the TLS port (external) | `Occupy` |

`Start` needs only a server that does not run and a free port, which it is as
soon as `Shutdown` has closed the listener, at once for a suspended server, and
always for port 0 (`PortFree`, `anyPort`). So several calls of `Stop` can be under
way with a running server beside them: `stops` has a record of each. A rule of the
fault injector has a delay, and then a hang or none; a call goes through both.

`ServerContract` has three phases, a store, a file and the stores since the first
of the stops under way was asked for. A `Save` writes one of these, so what was
answered before that stop is on disk when all of them have returned, and what is
answered meanwhile may be. When the file could not be opened or written whole, or a
second stop writes into the file of the first, `spoiled` says so and the promise is
off: the code only logs the error. `ServerLifecycle` implements the contract with
`store <- AsJson(overrides)`, `disk <- file`.

### Sessions, StateManager, JsonRpc

| code | action or operator |
|---|---|
| a request comes; `authorize`, `backupAuthorized`, the checks of ids | `Arrive` (`FirstStage`), `CheckEnabled`, `ValidateEnabled`, `ValidateLookup`, `Refuse` |
| `Login`, `Logout`, `Renew`, `CleanupExpired`, `InvalidateAll` | `Login`, `LogoutOf`, `Renew`, the same |
| `SetAuthEnabled`, readiness, time | `SetAuthEnabled`, `SetWebReady`, `SessionTick` |
| `Manager` methods | the same names; one step each, under `Manager.mu` |
| the timer of a delayed backup | `BackupElapses` |
| a handler with one call | `SessionHandler`, `StateHandler`, `InterfaceHandler`, `QuietHandler` |
| `SysVar.create*`, `set_system_variable`, the downloads | `Looks` then `Acts`; `DownloadStatus` then `DownloadData` |
| `deviceListAllDetail` | `ListAllDetail`, one address per step |
| `internal/rega` scripts that change state | `RunScript` |

A request is a sequence of calls; its slot holds the call at hand, the stage of
its admission and what was true when it was decided. `Unguarded` are the endpoints
whose handler asks for no session, as `login.cgi`, where a backup client gets its
session from.

### VirtualCcu

| code | action or operator |
|---|---|
| `New`, `Start` up to the first listener | `VirtualInit`, `StartCcu` (`Plan`: the listeners in order) |
| one listener after the other; a port is taken, a certificate is none, or `NewRPCFunctions` fails | `Bind`, `NoDiscovery`, `StartFails` (`RolledBack`: what each point of failure closes; `StoredBefore`, `StoredWithout`: what is assigned by then) |
| `Stop` under the lock; what it closes afterwards | `StopCcu`, `StopNext` |
| `StopInterface`, `StartInterface`, `RestartInterface` | `LookUp`, then `SuspendServer`, `ResumeServer` or `CallFails` without the lock |
| another program (external) | `Squat` |

### Litefake: MetaStore, Pairing, StateSeed, RpcProxy, LiteSystem

| code | action or operator |
|---|---|
| `meta.go`: `mutate` and the handlers | `Mutate` with `PatchedObject`, `BulkWritten`, `CreatedNode`, `PatchedNode`, `DeletedNode`, ...: pure operators from a store to a store and its events |
| `publishLocked`: the log, the fan-out | `PublishMeta`, `TrimmedThrough`, `Offered` |
| `metastream.go` | `MetaAttach` (`SinceRefused`), `MetaWriteOpening`, `MetaWriteReplay`, `MetaWriteLive`, `MetaStreamEnd` |
| `handlePairingRequest`, `handlePairingPoll`, `handlePairingDelete` | `Ask`, `PollNow`, `PollWait` then `PollWake`, `Withdraw` |
| `ApprovePairing`, `addPairedToken`, `RejectPairing`, expiry | `Approve` (`FreeName`), `Reject`, `Expire` (every handler calls it first) |
| `auth.go`: scopes, logins, tokens | `Implied`, `HasScope`, `Authorized`; `LoginCheck` then `LoginStore`; `SetTokens`, `SetAccounts` |
| `publishEvent` | `PublishEvent` (the ring), then `StoreValue` |
| `handleState` | `ReadPosition`, then `ReadValues` |
| `SetInterfaceDown`, `RestartInterface`, `RestartBoot` | the same; `RestartRing`, `RestartValues`, `MetaRestart`, `RestartSubscribe` |
| `handleXMLRPC`, `refuseCalls`, `forward` | `ProxyAdmit` (`MethodTier`, `UnpackCalls`, `Refuse`), then `ProxyForward` |
| `system.multicall` in the interface process (`internal/xmlrpc/mux.go`) | `ProxyExecute`, one call after the other, those of a multicall (`Dispatched`) in its place |
| `groups.go`, `system.go` | `GroupCreate`, `GroupUpdate`, `GroupDelete`, `UpdateDownload`, `BackupRun`, `RestoreCheck`, `RestoreApply` |
| `readinessGate`, `SetReady`, `Close` | `May`, `SetReady`, `Close` |

`issued` and `mirror` (every change event, and a replica that applies them),
`made`, `handed` and `paired` (every pairing request, how often its token was handed
out, and the paired tokens of the present table), `newest`, `reached` (what was
executed, with the scopes of its caller) and `offered` are history variables.

## 3. Runs

| run | instance | shows |
|---|---|---|
| `dispatch_safety` | 2 URLs, 1 interface id, 2 producers, 2 clients, 2 goroutines, 2 events, queue of 1 | types and bounds, at-most-once, no misrouting, no leaked goroutine, registrations leave for cause, order of a producer's events within a goroutine |
| `dispatch_live` | 1 URL, 1 producer, queue of 2 | queues drain or their goroutine ends; a stopped goroutine ends |
| `dispatch_stale` | as `dispatch_live` | a counterexample, finding 1 below |
| `ring_safety` | 1 consumer, 2 stream slots, ring of 2, queue of 1, 3 messages | ring and streams are exact, gaps are real, skips only after a cut at a named moment |
| `ring_live` | 2 topics and a filter, ring of 1, limit of 1 stream per subject, 2 boots | limits; doomed streams end |
| `ring_skip` | ring of 2, 2 boots | a counterexample, finding 2 below |
| `timers_safety` | 1 device of any kind, 2 handlers, 2 callbacks, 3 timers, 3 calls | cache, table entries, soft pending flags, shutdown; a firmware walk reports its last state |
| `timers_settle` | 1 pulse device, 2 writes | a counterexample, finding 3 below |
| `litefake` | log of 3, queue of 2, trees of depth 3; 3 pairing requests of 2 apps, 2 pollers; 2 interfaces, 3 datapoints; calls with multicalls three deep | the properties of the box, and that pairing keeps its contract |
| `litefake_seed` | as `litefake`, the state seed alone | a counterexample, finding 4 below |
| `ccu` | 3 devices of both families, 2 clients, 2 held calls, 2 stops at once, 2 web requests, 2 session ids, 3 configurations of listeners | the properties of the CCU, and that the interface process keeps its contract |
| `ccu_live` | as `ccu`: 3 fault calls with 2 life calls; 2 catalogue calls; 1 catalogue change with 3 life calls | held calls return, clients converge |

Why these bounds are enough for the interesting cases to happen:

* *Dispatch.* Two clients under one key are a replacement; two goroutines are a
  stopped one that still delivers and its successor; two producers let one hold
  a stale snapshot while the other fires; a queue of one is full with the first
  event; two interface ids or three clients add only more of the same pairs. The
  initial state chooses init semantics and batching, so each run covers all four
  configurations.
* *Ring.* A ring of two and three messages make positions that are covered,
  exactly one behind, and lost. A queue of one overflows with the second
  message. Two stream slots are a zombie and its successor.
* *Timers.* The three slots are a fired timer, its successor and one more;
  with two handlers and two callbacks every pair of calls and callbacks of one
  device interleaves. Devices do not share state except `timersStopped`, so one
  device of each kind is enough for TLC; the proofs hold for any number.
* *litefake.* Its five parts share little: the readiness gate, the tokens,
  the ring, the restart. So `MCBudgets` gives each part its calls alone and deep
  (three metadata mutations from an empty store and from one whose deepest node
  holds an object, which move, delete or detach a path that is in use and cut a
  log of three in the middle of a revision; four pairing calls, enough for ask,
  reveal, approve and a second long poll; four publishes or restarts around a
  seed), and then the parts that touch one another together. `Lifetime`, `Keep`
  and `Window` are one and two ticks of a clock that has four.
* *CCU.* The same: three writes of one channel of each family, three catalogue
  calls with two clients, three fault calls with two life calls, four life calls
  with a write, a catalogue change with three life calls, three session calls
  over two requests, two calls of the web API, and a simulator with four calls.
  Two stops at once are an old one and a new one that share a file. The three
  configurations are one with two interfaces, TLS and the web API, one with the
  main server only, and one without TLS.
  `OptionsMatter` fixes the options of a part that takes no calls.

*Timers and symmetry.* TLC's symmetry reduction is not sound for liveness.
`timers_safety` checks both, so `LowestFirst` takes the handlers, callbacks and
timers, which are told apart by nothing but their names, in a fixed order
instead. Its safety properties are proved for any number of calls.

*Symmetry elsewhere.* Ids of pairing requests, web slots and held calls are
interchangeable: they are told apart by nothing but what happens to them. The
properties checked under symmetry are invariants and step formulas.

Bounds that are not in the code are the constants called `Max...` and
`Budgets`; they only cut off further calls. Every run says `CHECK_DEADLOCK
FALSE`: with the calls used up and the goroutines idle or ended the system
really is at rest.

Fairness. `FairSpec` of `EventDispatch` asks that a goroutine with work takes
its next step: handlers run on, a remote call returns (`deliver` has a deadline
of 10 s), the linger timer fires. That of `EventRing` asks the same of stream
handlers: a write has a deadline of 30 s and the heartbeat ticks. That of
`DeviceTimers` asks that tasks run on and armed timers fire. Nothing obliges a
client to call, to read or to reconnect, a publisher to publish, or an
operator to stop the server. `FairSpec` of `Ccu` asks
that the goroutines of `Stop`, `Suspend` and `Resume` run on, that each
catalogue operation takes its next step (a client that does not answer is lost at
the deadline of its call), and that a held call whose channel is closed or
whose delay is over returns. Nobody has to release a hang. `Litefake` is checked
for safety only and states no fairness.

## 4. Properties

`EventDispatch`: `AtMostOnce`, `OnlySnapshotKeys`, `NoLeakedDispatcher`,
`LeavesForCause`, `QueueDrains`, `StopEnds`. `ProducerOrder`: every goroutine, also
one that was stopped or whose client was replaced, has a producer's events in
order in its batch and its queue, and a client that only one goroutine ever served
received them in that order. From one goroutine to the next there is no order: a
successor may overtake a stopped one that still delivers its batch. `TypeOK` contains the bound of the queue.

`EventRing`: `StreamExactlyOnce`, `StreamLimits`, `GapIsReal`, `SkipOnlyWhenCut` (names all moments at
which a consumer can lose a message without a resync), `DoomedStreamEnds`.

`DeviceTimers`: `CacheCoherent`, `EntryIsLive`, `SoftIsTimed`,
`NoArmingAfterStop`, `UpdateCompletes`. `TypeOK` contains that the firmware walk
stays within its sequence.

`Litefake`:

* `MetaIntegrity`: every path an object holds names a node, every node is listed
  by its parent once and by nobody else, no tree is too deep, whatever is
  created, moved, detached or deleted.
* `EventsTellAll`: a replica that applies the published events has the store;
  every revision that is still in the log has an event.
* `StreamOwed`: replay and queue of a change stream are exactly the events after
  the client's position, unless its queue has lost one. This is where a log that
  was cut in the middle of a revision would show.
* `PairingLimits`: pending requests, requests per window and address, one request
  per app; approval within the lifetime and after the nonce was revealed.
* `PairedTokens`: a paired token has a name no other token of the table has,
  whatever a test calls the ones it brings (they may be alike: `tokenName` takes a
  part of the secret); a paired token never allows what pairing may not grant;
  implications chain although they are looked up one deep.
* `PairingImplements`: pairing refines `PairingContract`; in particular one poll
  gets the token.
* `SeedComplete`: a client that read the position while no publish was half done
  holds the newest value of every kept datapoint once it has followed the stream.
  Finding 4 is the case that this leaves out.
* `ProxyTiers`: what an interface process executes is within the scopes its caller
  had, alone, in a multicall, in a multicall in one, or before an item that is no
  call; and no `init` that the proxy has looked at is executed. The proxy looks
  one level into a multicall and the process executes all levels: the property
  compares what was executed, not what was looked at.
* `GroupsSound`: numbers of groups never come back; a detail answer accounts for
  every candidate once.

`Ccu`:

* `StoreSound` is `ReadsAreFresh` (the cache serves what a read would put
  together now; no ACTION is read back) and `MasterSound` (a poisoned channel
  holds a parameter it does not have; what a write model stored, it takes back
  unchanged).
* `ClientInSync`: a client that nothing is on its way to knows exactly the devices
  there are, though announcements of several changes and diffs from old answers have
  crossed each other. Left out are the clients of `upset`; opposite changes of one
  address that overlap are the case in which the code itself lets a client differ
  (section 6).
* `NoCallStranded`: a call that an injected fault holds waits on a channel that
  is closed or that the next release closes.
* `SessionSound`: a request is let in or turned away for a reason that holds;
  an ended session stays ended.
* `ManagerSound`: the indexes of the system variables agree, addresses and ids
  are one to one, a backup reported complete is the one handed out, no room
  holds a channel twice.
* `VirtualSound`: a running simulator serves every configured listener; every
  bound port has an owner, except for the two leaks the code has.
* `ServerImplements`: the interface process refines `ServerContract`, with stops
  that overlap each other and the next start, and with writes that fail.
* `HeldCallsReturn`: a call that is held when `Stop` or `Suspend` is about to
  release ends, however many rules hold calls; so does a delayed one. Section 6
  has the call that comes later.
* `ClientsConverge`: once catalogue and registrations rest, a client that is not in
  `upset` comes to know the devices there are. This is more than `ClientInSync`: no
  announcement waits for another for good.

## 5. Proofs

The proofs assume the named ASSUMEs of the modules and nothing else. They hold
for any sets of clients, devices, requests and so on, and any bounds and budgets.
The assumptions that say more than what type a constant has:

* `MetaAssumption`: a document that a test seeds is one the store could have
  written (typed and integral), and its objects and nodes are maps; the set of
  objects is finite.
* `BodyAssumption`: what a body decodes to is a label or the rejected name, and a
  patch of the fields an object has.
* `PairingAssumption`: a token table is finite, and the slug of an app is a sequence
  of words, so that a slug with a number is another one, and may well be the
  slug of another app.
* `CallAssumption`: the list of a multicall is finite.
* `EndpointAssumption`: the endpoints that ask for no session, and those of the backup
  API, are endpoints.
* `StateAssumption`: the built-in system variables have distinct names and ids
  (they are a literal table in `internal/state/manager.go`).
* `StoreAssumption`: in the embedded descriptions the bounds of a configuration are
  ordered, what a device sets by itself (`WORKING`, `UNREACH`, ...) is no ACTION, and
  a maintenance channel has values.
* `PutsAssumption`: a put names finitely many parameters, and gives a configuration
  values of a type that the wire can carry.
* `CatalogueAssumption`, `LoadsAssumption`: a device type brings addresses that have
  a description.
* `VirtualAssumption`: no interface has the name of another listener, `main`,
  `script`, `json` or `ssdp`.

* **EventDispatch.** `TypeInv` is `TypeOK` and `FiringSomething` (a producer
  in the middle of `dispatchEvent` has an event); it is inductive by itself.
  `LeavesForCause` alone is not inductive: it is violated one step after a
  failure is recorded under the wrong name, so `CauseInv` adds `FailuresExcused`
  (who is about to be removed as unreachable is on record as such).
  `NoLeakedDispatcher` needs `StartedHaveClient` (a goroutine that was started
  has a client and hence a key): without it `KeyOf` of its client is unknown.
  `OnlySnapshotKeys` (`EventsStayWithTheirKeys`) speaks of
  where an event ended up, so `KeysInv` follows it all the way: whoever is in the
  to-do list of a producer, the queue of a goroutine or the batch it collects is
  `Right`, that is its key was in the snapshot of the event. `TableKeys` (a
  dispatcher is filed under its client's key) carries this from the snapshot's
  client to the client the dispatcher really has, which finding 1 shows to be a
  different one at times.
* **At most once, in order** (`EventsReachClientsOnce`, `EventsOfAProducerInOrder`).
  An event on its way to a client is in a *slot*: the to-do list of a producer, its
  hand, the queue of a goroutine, the batch it collects, or what the client
  received. `OnePlace` says that no event is in two slots bound for one key, and
  `NoRepeats` that none is twice in one. Actions are moves between slots, so the
  proof is the one lemma `Moves` about a move and `Stays` about everything else.
  `OnlySnapshotKeys` is needed for a new goroutine: what goes into its queue is
  bound for the key under which it is filed. For the order, a producer fires its
  next event only when the last one has left its hand (`LastFired`), so what waits
  in a slot is older than what is fired next, for every goroutine that ever ran;
  `SentByGoroutine` and `DirectOnly` say where what a client received came from.
* **EventRing.** `IInv` is `TypeOK`, `RingConsecutive`, `StreamExactlyOnce` and
  `LiveHasReplayed` (a stream in its live phase has no replay left; otherwise
  `WriteLive` could overtake it). `PruneConsecutive` and `AfterProperties`
  give the arithmetic of the ring, `PublishStream`, `ReplayStream`, `LiveStream`
  and `JoinStream` one kind of step each. `GapsAreReal` follows from
  `RingConsecutive` (`UncoveredIsLost`); `LimitsHold` from finiteness of the
  attached set (`JoinLimits`).
* **Skipped messages** (`NothingSkippedUnlessCut`). `SkipInv` adds to `IInv` what a
  client has been told and what it got. `Opens` relates the id the client holds to
  the position of its stream, phase by phase; `Informed` says that a client that
  was never cut at one of the three moments of finding 2 has seen every message up
  to the id it would resume from. `IdsKnown` (no id of a boot to come) makes a
  restart harmless: an id of an earlier boot is never taken for a present one.
* **DeviceTimers.** `TypeCorrect`; `CacheIsCoherent` is inductive with the types;
  `NothingArmsAfterStop` is an action property that follows from the guards under
  the lock, step by step. `EntriesAreLive` and `SoftIsAlwaysTimed` need
  `HeldInv`. "The entry's timer runs or somebody is busy with the device"
  is not inductive, since whoever is busy may end without touching the entry;
  `EntryHeld` says that somebody's *next* step takes the entry away or replaces
  it. To keep that when a timer fires one must know whose timer it is
  (`TableOwned`) and that shutdown stops only timers that have left their table
  (`StoppingFree`). `SoftHeld` says that a soft flag has an entry or a task that
  is about to clear it, and that only the write models have one.
* **Held calls** (`CcuProofs`, `HeldCallsAreReleasable`). `HeldInv` adds the
  types of the two counters: a release channel that is new has not been
  closed. `HandlersOnlyCall` and `OthersKeepFaults` show that no other part
  touches the faults.
* **Sessions** (`CcuProofs`, `SessionsAreSound`). The reason of a request was
  true at one moment and is judged at another, so the invariant has two halves.
  `TableInv` ties the table to its history: a session in the table was used when
  it says, one that is gone though nobody ended it had expired. `RequestInv`
  says of every request that it is `Good`: while authentication is off a waiting
  request has noted it, and one that looks a session up has an id.
  `FoundKeeps` and `NotFoundKeeps` are the lookup, `RenewKeepsTable` the renewal
  that takes one id out and puts another in.
* **Server contract** (`ServerProofs`, `ServerKeepsContract`). The refinement
  mapping sends the paramsets through `AsJson`. `ServerInv` says where each Stop is,
  that the stores since the first was asked for are on record and hold the one each is
  about to write, that once one of them has saved (`Saved`) the file is one of these
  stores, spoiled, or still being written (`Writing`), and that all of these, and the
  file, are what json keeps: the next process loads the file, and `JsonTwice` makes
  that the same store. `StopChanges` and `OnlyStop` confine a step of one Stop to its
  own record. `LifeStep`, `StopKeepsContract`, `ListenerStep`, `BootStep` and
  `OtherStep` map each step to a step of the contract or a stutter.
* **What clients know** (`ServerProofs`, `ClientsStayInSync`). `ClientInSync` speaks
  of clients nothing is on its way to; the invariant `SyncInv` has to speak of all
  that are not upset. `InTouch`: whatever such a client has wrong, an operation
  under way will correct, because it will ask, has an answer that shows the
  difference, or has the call in its list. `Fair`: whatever a list of calls tells a
  client holds, or is put right by a later call of the same list; that is where
  `reconcileDevices`, which deletes a device in order to send it again, needs its order.
  A change of the catalogue upsets those who are still being told of one of its
  addresses (`ToldOf`), so for all others what is on its way is `Fair` still, being
  about other addresses, and the change's own call makes up the difference in these
  (`ChangeKeepsSync`). `NotMisled` is the same for an init that makes good what was
  missed. `QuietClients`: when nothing is on its way, nothing is wrong. `WorkGoesOn` is what one operation may
  do as it goes on, `BothCalls` what the two calls of a diff are, and `OrderOfAll`
  that an order of the clients leaves none out, which holds because only finitely
  many register. The invariant was checked with TLC first, on the catalogue alone.
* **Paramsets** (`ServerProofs`, `StoreStaysSound`). `StoreInv` says of every
  paramset that is stored, in memory, on its way to the file or in the file, that it
  is `GoodSet`: no ACTION under VALUES, and under a write model only what the model
  takes back unchanged (`Settled`), which must survive json (`JsonIsGood`). `GoodCache`
  says that a copy without a mark is what a read would answer, `DirtyStored` that a
  mark is for something stored, links excepted; `IsWaiting` follows a `SetDeviceUnreachable` that has
  found its device and writes after the device may have gone. What a put leaves is a
  recursive function of the parameters in their order (`AfterWrites`); that it
  only ever holds what was there, what was put and what a device may report
  (`WritesLeave`) is shown for the least length at which it would not. `CallsOK` is about web requests: what they put later
  is what they brought. The proof found that the model let a client read or put a
  paramset of any described kind, while the code takes every other word for the
  address of a peer.
* **Types of the CCU** (`ServerProofs`, `CcuStaysTyped`). `WorkInv` says that
  operations are numbered as they start; the rest follows from the invariants
  above and below. An earlier form of the type said that a dirty mark is always
  for a stored paramset; the proof found that this is not so, since the mark of
  a link outlives its address: when an address goes, the marks of `MASTER` and
  `VALUES` are cleared, those of links are not.
* **Pairing contract** (`LitefakeProofs`, `PairingKeepsContract`). Every handler
  expires requests first and then changes one; so the proof speaks of tables
  `Aged` and `Moved` from the present one and maps each kind of change
  (`AskStep`, `AnswerStep`, `ApproveStep`, `RejectStep`, `WithdrawStep`,
  `HandOutStep`, `MoveStep`) once. `PairInv` says that only approved requests
  were handed out.
* **Proxy** (`LitefakeProofs`, `ProxyKeepsTiers`). `ProxyInv` says that what is still
  to execute of an admitted call is either one of the calls the proxy looked at, and
  permitted, or was in a multicall that it did not look into, whose caller has
  rpc:admin; `AdminMay` says that this tier implies every other.
* **State manager** (`CcuProofs`, `ManagerStaysSound`). Five invariants that do not
  need one another: `IndexInv` (both indexes of the system variables point to
  variables that exist, and by name and by id agree unless an id was used twice),
  `RegaInv` (addresses and ids are one to one, and ids are below the counter),
  `RoomInv`, `BackupInv`, `UpdateInv`. `HandlersStepState` and `EveryStepOfState`
  reduce every step of a CCU to the seven kinds of step the manager has. The proof
  showed a weakness of an earlier form of the property: its history named only the
  ids that had been added over a variable, while a variable that stays in the
  index by name after such a clash can be deleted and added again (add, delete, add,
  delete, add under changing names, outside the budget of the run).
* **Virtual CCU** (`CcuProofs`, `VirtualStaysSound`). A listener has a `Rank` in the
  order of `Plan`; `PlanIsSound` shows that the plan of every configuration is
  strictly ordered, so nothing is bound twice and a listener is bound after those
  whose failure closes it. `TodoInv` says that what a Start has still to do is the
  end of the plan, and `NextMade` and `NextPort` what one more bind adds. `OwnInv`
  is about the Start that runs: what it has bound is bound, or its server was
  suspended, which nobody can do before it is through. `OldInv` is about all
  earlier ones: `Owed` names who is left to close a port (a Stop that is not yet
  through, or nobody, after the two leaks of section 6), and `Kept` the same for
  servers.
* **Metadata store** (`MetaProofs`, `StoreStaysIntegral`, `StreamsAreOwed`). The
  store is shown to stay `Sound` transaction by transaction (`NodeMade`,
  `NodeGone`, `EnumGone`, `NodePatched`, ...). Moving a subtree renames every path
  below a node: `RenamedInjective` and `RenamedAppend` are the algebra of that,
  `MovedApart` shows that the new place is not below the old one, `PlacedKids` that
  the node is listed once where it goes and no longer where it was. `LogInv` ties
  the bounded log to the history of all events: the log is its end, and whatever was
  cut is not newer than `droppedThrough`. This is what `ReplayOwed` needs, also
  when the log was cut between two events of one revision. `StreamOffered` is the
  fan-out of one transaction, event by event.
* **What the events tell** (`MetaProofs`, `EventsTellEverything`). The replica after a
  transaction is a recursive function of the number of its events (`AfterEvents`,
  `ReplayExists`). `MirrorInv`: objects and trees are maps, the replica has them, and
  each revision that can be resumed at has an event. A transaction has at most two
  events about trees, and each kind of transaction `Tells` what it did with them; for a
  move, paths and labels are renamed alike (`RelocateValues`), and a patch of the
  position alone may put a node back where it was (`PutBack`), which needs no event.
  The events about objects follow in any order. After some of them the replica
  holds the new objects so far told and the old ones otherwise (`Mixed`), which is
  shown for the least event at which it would not (`OneMoreObject`).
* **Limits of pairing** (`LitefakeProofs`, `PairingStaysLimited`). `RateInv` says
  that the history of an address holds every request that is still in the window
  that ends now; with it `NewWindow` shows that the window that ends with a new
  request holds that request and no more than the history. `TableOK` bounds the
  pending requests; every handler expires first, so `FollowsKeeps` speaks of a
  table that lost requests and gained no pending one.
* **Paired tokens** (`PairedTokensStaySound`). `TokenInv` says that nobody else has the
  name of a paired token and that it has the scopes of an access level. `FreshName` is
  `addPairedToken`'s search for a suffix: among the first `n + 1` candidates, which
  differ (`NumbersTell`), one is not among `n` names, however many tokens share one. `NeverPaired` and `ImpliedChains` go through the levels.
* **Groups** (`GroupsStaySound`). `GroupInv`: every number below `next` was given
  out, to a group that is there or was.
* **Types of the box** (`BoxStaysTyped`). `PartsInv` is what the other invariants
  leave open.
* **State seed** (`SeedProofs`, `SeedsAreComplete`). `PublishInv` says that a
  value is behind only while the publish that brings the newest is half done.
  `Covered` says what a client lacks the stream still has to bring: for each
  kept datapoint either a message after its position is the newest event, or the
  value is settled (before the values are read) or held (after). `OneMore` is the
  arithmetic of a message more on the ring.

Only model-checked, and why:

* what speaks of "eventually" (liveness under fairness is out of the prover's
  reach): `QueueDrains`, `StopEnds`, `DoomedStreamEnds`, `UpdateCompletes`,
  `HeldCallsReturn`, `ClientsConverge`.

Every invariant and every step property of the passing runs has its theorem.

What the proofs asked of the models: an operation under way is a record of its stage
(`Loading`, `Asking`, `Asked`, `Calling`), the two calls of a diff are concatenated,
enum values and group members are sets, the replica of
a transaction is a recursive function of its events, the
requests an address made are kept by request, a listener is a name and a kind of
port. Where a CASE had guards that overlap, TLC took the first and the proof could
not know which; they are disjoint now (`ServersWith`,
`BidcosStored`, `ResumeRest`).

## 6. Findings

1. `dispatch_stale`: `dropDispatcherLocked` promises that after a
   re-registration no event goes out to the replaced client
   (`internal/ccu/dispatcher.go:185-186`). A producer whose snapshot is older
   starts a new dispatcher for the replaced client under the same key, and
   later events for that key go to the replaced client.
2. `ring_skip`: "no message is ever skipped silently"
   (`pkg/litefake/ring.go:209-210`). The hello frame carries the newest id
   before the resync or replay is written; a connection cut in between makes the
   consumer resume beyond messages it was never sent. `SkipOnlyWhenCut` shows
   that this moment, the rest of the replay, and the time between an overflow and
   the heartbeat that reports it are the only ones.
3. `timers_settle`: a CONFIG_PENDING pulse is "true immediately, false once the
   configured span has passed" (`internal/ccu/reachability.go:104`). The rising
   edge is written after the lock was released, so a handler that is delayed
   longer than the span, or a pulse that starts while an old callback runs, lets
   the falling edge be written first; CONFIG_PENDING then stays true with no timer
   left.
4. `litefake_seed`: "event_id is read before the values, so a client that
   resumes the stream from it misses nothing that happened after its seed"
   (`pkg/litefake/rpc.go:463-465`). `publishEvent` puts the message on the ring
   before it stores the value (`subscriber.go:189-190`): a seed between the two
   has the position after the event and the value before it, and the stream does
   not repeat it.

Seen while modelling, without a run.

Dispatch and timers:

* `dispatcher.go:26-27` says that a full queue blocks producers, `enqueue` drops
  the event.
* `lifecycle.go:136` says that a second firmware request is ignored, but the test
  and the start are two critical sections, so two simultaneous requests both
  walk; such a second walk orphans a timer, which `stopTimers`
  (`reachability.go:140-141`: "so no goroutine outlives the simulator") cannot
  stop. It fires after shutdown, finds `timersStopped` and writes one more value
  at most, as `NothingArmsAfterStop` shows that it cannot go on.

Interface process:

* A `Resume` that cannot bind the TLS port returns with the plain listener bound
  and the server still suspended (`restart.go:102`); a later `Resume` cannot bind
  the plain port. `Resume` that overlaps `Suspend` leaves BIN-RPC down.
  `StartTLS` while suspended takes the port that `Resume` needs.
* "The connection stays open until the rule is cleared, the server stops, or the
  client gives up" (`faultinject.go:40-41`), but `Stop` releases the held calls
  (`server.go:179`) before `Shutdown` closes the listener. A call that comes in
  between takes a new release channel, `Shutdown` gives up on it after 5 s, and a
  second `Stop` returns early: the call hangs on after the server has stopped,
  until `ClearFaults` closes its channel, as `NoCallStranded` says.
* `Stop` gives up the lock before it saves, and an error of the file is only logged
  (`server.go:182-187`). A `Start` and a second `Stop` may run meanwhile; then the
  older `Stop` may overwrite the file of the newer one, with a store that is older
  though not older than the first `Stop`, or the two write into one another.
* `AddDevices` and `DeleteDevice` of one address, or a diff and such a change, push
  outside the lock; when their calls about this address overlap, a client may be told
  in the opposite order and stay different until its next init. `upset` leaves out
  these clients and no other that was only told of several things at once.
* `poisoned` is not saved while the unknown parameter is
  (`mastermodel.go:24-26`), so after a restart the channel takes writes again.
* `clampNumeric` treats a missing bound as 0. What a device reports of a write may
  be a parameter its channel does not describe (WORKING of a switch). `RemoveLink`
  keeps the link's names.

litefake:

* "init first, wherever it appears" (`rpc.go:219`) is about the calls of the request
  and those of its multicall; calls of a multicall in a multicall are judged as one
  call of the tier rpc:admin, and the interface process executes them
  (`internal/xmlrpc/mux.go:99-147`). `ProxyTiers` says what holds on all levels.
* An empty list of calls passes for every caller, and nothing is executed.

Web API and CCU objects:

* `sysvarSetEnum` (`handlers.go:1093-1094`) changes the labels of a copy.
* `ClearAll` "resets every map/list/counter" but the counters, the ids of
  addresses and the backup delay stay.
* `Session.renew` mints a new id and answers without it. `Session.logout` reads the
  id only from its parameters.

Simulator:

* An interface that fails to start leaves the TLS twins of those before it
  (`interfaces.go:46-47,56`); failures of later listeners, of the catalogue or of a
  certificate leave interface, script or TLS listeners
  (`virtualccu.go:293-359`), so a repeated Start with fixed ports fails. A BIN-RPC listener
  that a restart brings up after `StopBINRPC` stays bound. `VirtualSound` names
  both. `SetReady` does not reach the interface instances
  (`virtualccu.go:440-445`, `interfaces.go:96`).

## 7. Limits of the models

* `EventDispatch`: in-process callbacks are not followed; what clients are told
  of devices is in `DeviceCatalogue`.
* `EventRing`: a credential is revoked and not granted again; a consumer has
  one live connection; `Fake.Close` and the deliberate deviations of
  `deviate.go` (switched off by default) are not modelled; frames are received
  as written until the break, a loss in the socket buffer being a break one
  step earlier.
* `DeviceTimers`: install mode, the delivery of the events and persistence are
  not modelled, so a run starts without stored values (a CONFIG_PENDING that was
  saved as true would come back without a timer); the feature switches
  (`reachability`, `ramps`, `lifecycle`) are on.
* `ParamsetStore`: ramps are off, and the CONFIG_PENDING of a MASTER write is in
  `DeviceTimers`; persistence is on. Numbers are integers and halves.
* `DeviceCatalogue`: `ReplaceDevice` and `ReaddedDevice` only hand on a message and
  are left out; so is the parsing of the embedded files.
* `ServerLifecycle`: the wire servers are a set of bound listeners; a port other
  than the TLS port is not taken away by another program. At most `MaxStops` calls of
  `Stop` are under way at once, and `Suspend` and `Resume` one at a time. The log ring is not modelled.
* `StateManager`: values of devices, callbacks, texts and timestamps are left out.
* `JsonRpc`: handlers that only read are one action; their answers are not
  modelled. Of the ReGa scripts only those that change the state are there, each
  chosen by name: the pattern table and the interpreter are text processing.
* `VirtualCcu`: ports are fixed; suspend and resume of a server are one step
  (their steps are in `ServerLifecycle`); the multicast port can be shared; a
  bind that retries is one that finds the port free at some attempt.
* `MetaStore`, `Pairing`: bodies are decoded; a poll that comes too soon changes
  nothing and is not told apart; `SetAuthOff`, redirects and the deviations are
  left out. The scope check and the handler behind it are one step.
* `StateSeed`: one publish per interface process at a time, as its delivery
  goroutine makes them; with direct delivery by several writers two publishes of
  one datapoint could store their values in the opposite order. The ring holds
  all messages of its boot (`EventRing` has the bounded one); `/state` is not paged.
* `LiteSystem`: settings that a test sets and the API repeats are left out.

Not modelled at all: the codecs (byte formats, covered by round-trip tests), the
ReGa script VM and pattern engine (sequential text processing), UPnP
descriptions, the datagrams of SSDP and the command line (I/O), and the device
logic loops (clients that call `setValue` on a timer).

## 8. Plan

1. The composition of `EventRing` with `StateSeed`: a seed on a bounded ring, with
   the resync that a client gets when its position is gone; and of
   `EventDispatch` with the subscriber of the fake, for the order in which two
   deliveries store their values.
2. More liveness: a long poll ends, a metadata event reaches an open stream, a
   Start or Stop of the whole simulator ends.
3. Install mode, `SetAuthOff`, the log ring.
