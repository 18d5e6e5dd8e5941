-------------------------- MODULE ServerLifecycle --------------------------
(***************************************************************************)
(* An interface process from start to stop (internal/ccu/server.go,        *)
(* restart.go, faultinject.go, tls_server.go, binrpc_server.go,            *)
(* initpersistence.go): its listeners, suspending and resuming, the calls  *)
(* that an injected fault holds, and what is written to disk when it       *)
(* stops.  What Stop and Suspend do after they release Server.mu is in     *)
(* steps of its own: the next Start may come, and the next Stop, before    *)
(* the last one is through.                                                *)
(***************************************************************************)
EXTENDS DeviceCatalogue

CONSTANTS
  Loads,      \* the types a process loads when it starts
  Methods,
  Rules,      \* rules a test injects: [method, times, delay, then]
  Callers,    \* slots for calls that a rule holds
  NoCall,
  Torn,
  MaxRelease, \* bound: release channels ever made
  MaxStops    \* bound: calls of Stop under way at once

ASSUME LoadsAssumption == \A t \in Loads : AddressesOf[t] \subseteq Addresses

VARIABLES
  persistInit, \* RPCFunctions.persistInit
  running, suspended,
  plain,       \* the XML-RPC listener is bound and known to the server
  tlsUp, tlsAddr, \* tls.srv is set; tls.addr is set
  binUp, binAddr, \* binrpc.srv is set; binrpc.resumeAddr is set
  busyPort,    \* external: another program holds the port of the TLS twin
  suspending,  \* what Suspend has still to do: "no", "close" or "bin"
  resuming,    \* what Resume has still to do: "no", or after its lock
               \* "forget" or "announce"
  anyPort,     \* the configured port is 0: every Start gets a free one
  stops,       \* the calls of Stop under way: what each has still to do
               \* (stage), whether its HTTP server has a listener (port), and
               \* what it marshalled for its files (regs, paramsets)
  file,        \* the paramset file
  fileRegs,    \* the registrations file; {} when it is torn
  rules, release, releases, \* faultInjector; channels are numbered, 0 for nil
  gone,        \* release channels that have been closed
  held,        \* calls that a rule holds
  since,       \* history: the stores, as json has them, since the first of the
               \* stops under way was called
  spoiled      \* history: a write of the paramset file failed in one of them,
               \* or another one wrote into it, after it was last emptied

serverVars == <<persistInit, running, suspended, plain, tlsUp, tlsAddr, binUp, binAddr, busyPort,
                suspending, resuming, anyPort, stops, file, fileRegs, spoiled>>
faultVars == <<rules, release, releases, gone, held>>
lifeVars == <<serverVars, faultVars, since>>

NoStop == [stage |-> "no", port |-> FALSE, regs |-> {}, paramsets |-> <<>>]
Stops == 1 .. MaxStops
Stopping == \E k \in Stops : stops[k].stage # "no"

\* The history goes along with every step.
Tracked ==
  since' = (IF Stopping' /\ Stopping THEN since ELSE {}) \cup {AsJson(overrides')}

-----------------------------------------------------------------------------
(* Faults                                                                  *)

\* InjectFault.
InjectFault(rule) ==
  /\ rules' = Append(rules, rule)
  /\ UNCHANGED <<release, releases, gone, held, serverVars>>

\* releaseHeldCalls.
Released ==
  /\ gone' = gone \cup ({release} \ {0})
  /\ release' = 0

\* ClearFaults.
ClearFaults ==
  /\ rules' = <<>>
  /\ Released
  /\ UNCHANGED <<releases, held, serverVars>>

Matching(method) == {i \in 1 .. Len(rules) : rules[i].method \in {"*", method}}
First(S) == CHOOSE i \in S : \A j \in S : i <= j

\* Mutation: every call that a rule matches gets a channel of its own.
ChannelOwn == releases + 1

\* The channel that take hands to a call.
ChannelFor == IF release = 0 THEN releases + 1 ELSE release

\* take: the first rule that matches, one use of it, and the channel.
TakeRule(method, i) ==
  /\ i = First(Matching(method))
  /\ rules' = CASE rules[i].times < 0 -> rules
                [] rules[i].times = 1 -> RemoveAt(rules, i)
                [] OTHER              -> [rules EXCEPT ![i].times = @ - 1]
  /\ release' = ChannelFor
  /\ releases' = IF ChannelFor > releases THEN ChannelFor ELSE releases

Serving ==
  \/ plain \/ tlsUp \/ binUp
  \/ suspending = "close"
  \/ \E k \in Stops : stops[k].port \/ stops[k].stage = "drain"

\* intercept of a call that a rule matches: a delay holds it, then a hang; any
\* other rule answers it or closes the connection.
Intercept(k, method) ==
  /\ Serving
  /\ held[k] = NoCall
  /\ Matching(method) # {}
  /\ releases < MaxRelease
  /\ LET i == First(Matching(method)) IN
     /\ TakeRule(method, i)
     /\ held' = IF rules[i].delay \/ rules[i].then = "hang"
                THEN [held EXCEPT ![k] = [in |-> IF rules[i].delay THEN "delay" ELSE "hang",
                                          then |-> rules[i].then, on |-> ChannelFor]]
                ELSE held
  /\ UNCHANGED <<gone, serverVars>>

\* The delay of a held call is over.
DelayEnds(k) ==
  /\ held[k] # NoCall
  /\ held[k].in = "delay"
  /\ held' = [held EXCEPT ![k] = IF @.then = "hang" THEN [@ EXCEPT !.in = "hang"] ELSE NoCall]
  /\ UNCHANGED <<rules, release, releases, gone, serverVars>>

\* A held call ends: its channel was closed, or its client gave up.
LetGo(k) ==
  /\ held[k] # NoCall
  /\ held' = [held EXCEPT ![k] = NoCall]
  /\ UNCHANGED <<rules, release, releases, gone, serverVars>>

-----------------------------------------------------------------------------
(* Listeners                                                               *)

\* StartTLS, also while the server is suspended.
StartTLS ==
  /\ ~tlsUp
  /\ ~busyPort
  /\ tlsUp' = TRUE
  /\ tlsAddr' = TRUE
  /\ UNCHANGED <<faultVars, persistInit, running, suspended, plain, binUp, binAddr, busyPort,
                 suspending, resuming, anyPort, stops, file, fileRegs, spoiled>>

\* StopTLS.
StopTLS ==
  /\ tlsUp' = FALSE
  /\ tlsAddr' = FALSE
  /\ UNCHANGED <<faultVars, persistInit, running, suspended, plain, binUp, binAddr, busyPort,
                 suspending, resuming, anyPort, stops, file, fileRegs, spoiled>>

\* StartBINRPC, and StopBINRPC.
SetBINRPC(up) ==
  /\ binUp # up
  /\ binUp' = up
  /\ UNCHANGED <<faultVars, persistInit, running, suspended, plain, tlsUp, tlsAddr, binAddr, busyPort,
                 suspending, resuming, anyPort, stops, file, fileRegs, spoiled>>

\* Another program takes the port of the TLS twin, or leaves it.
Occupy ==
  /\ busyPort \/ ~tlsUp
  /\ busyPort' = ~busyPort
  /\ UNCHANGED <<faultVars, persistInit, running, suspended, plain, tlsUp, tlsAddr, binUp, binAddr,
                 suspending, resuming, anyPort, stops, file, fileRegs, spoiled>>

-----------------------------------------------------------------------------
(* Start, Suspend and Resume                                               *)

\* A port of its own is taken until Suspend, or the Shutdown of a Stop, has
\* closed the listener.
PortFree == suspending # "close" /\ \A k \in Stops : ~stops[k].port

\* Start.
StartServer ==
  /\ ~running
  /\ anyPort \/ PortFree
  /\ plain' = TRUE
  /\ running' = TRUE
  /\ UNCHANGED <<faultVars, persistInit, suspended, tlsUp, tlsAddr, binUp, binAddr, busyPort,
                 suspending, resuming, anyPort, stops, file, fileRegs, spoiled>>

\* Suspend under the lock (bound: one at a time, as of Resume).
Suspend ==
  /\ running
  /\ ~suspended
  /\ suspending = "no"
  /\ suspended' = TRUE
  /\ plain' = FALSE
  /\ tlsUp' = FALSE
  /\ suspending' = "close"
  /\ UNCHANGED <<faultVars, persistInit, running, tlsAddr, binUp, binAddr, busyPort,
                 resuming, anyPort, stops, file, fileRegs, spoiled>>

\* Suspend lets the held calls go and closes the listeners.
SuspendClose ==
  /\ suspending = "close"
  /\ suspending' = "bin"
  /\ Released
  /\ UNCHANGED <<rules, releases, held, persistInit, running, suspended, plain, tlsUp, tlsAddr,
                 binUp, binAddr, busyPort, resuming, anyPort, stops, file, fileRegs, spoiled>>

\* Suspend stops BIN-RPC if it is up.
SuspendBin ==
  /\ suspending = "bin"
  /\ suspending' = "no"
  /\ binUp' = FALSE
  /\ binAddr' = (binAddr \/ binUp)
  /\ UNCHANGED <<faultVars, persistInit, running, suspended, plain, tlsUp, tlsAddr, busyPort,
                 resuming, anyPort, stops, file, fileRegs, spoiled>>

\* The TLS twin of a resumed server can be bound.
TLSFree == tlsAddr => ~busyPort /\ ~tlsUp

\* Resume under the lock.  The port is held until Suspend has closed it, and
\* by a listener that an earlier Resume has left behind; when only the TLS
\* twin cannot be bound, the server stays suspended and the listener bound.
Resume(forget) ==
  /\ running
  /\ suspended
  /\ suspending # "close"
  /\ resuming = "no"
  /\ ~plain
  /\ plain' = TRUE
  /\ IF TLSFree
     THEN /\ suspended' = FALSE
          /\ tlsUp' = tlsAddr
          /\ resuming' = IF forget THEN "forget" ELSE "announce"
     ELSE UNCHANGED <<suspended, tlsUp, resuming>>
  /\ UNCHANGED <<faultVars, persistInit, running, tlsAddr, binUp, binAddr, busyPort,
                 suspending, anyPort, stops, file, fileRegs, spoiled>>

\* Resume from BIN-RPC on; without its port the clients are left as they are.
ResumeRest ==
  /\ resuming # "no"
  /\ resuming' = "no"
  /\ binAddr' = FALSE
  /\ binUp' = (binUp \/ binAddr)
  /\ IF binAddr /\ binUp THEN UNCHANGED <<storeVars, catVars>>
     ELSE IF resuming = "forget" THEN ForgetClients
     ELSE ReannounceClients
  /\ UNCHANGED <<faultVars, persistInit, running, suspended, plain, tlsUp, tlsAddr, busyPort,
                 suspending, anyPort, stops, file, fileRegs, spoiled>>

-----------------------------------------------------------------------------
(* Stop, and the next process                                              *)

\* The state that Stop leaves alone once it has released the lock.
restVars == <<persistInit, running, suspended, plain, tlsUp, tlsAddr, binUp, binAddr, busyPort,
              suspending, resuming, anyPort>>

\* Stop under the lock; the TLS twin and BIN-RPC are left alone.
Stop(k) ==
  /\ running
  /\ stops[k].stage = "no"
  /\ \A j \in 1 .. k - 1 : stops[j].stage # "no"
  /\ running' = FALSE
  /\ suspended' = FALSE
  /\ plain' = FALSE
  /\ stops' = [stops EXCEPT ![k] = [NoStop EXCEPT !.stage = "release", !.port = plain]]
  /\ UNCHANGED <<faultVars, persistInit, tlsUp, tlsAddr, binUp, binAddr, busyPort,
                 suspending, resuming, anyPort, file, fileRegs, spoiled>>

\* releaseHeldCalls in Stop.
StopRelease(k) ==
  /\ stops[k].stage = "release"
  /\ stops' = [stops EXCEPT ![k].stage = "regs"]
  /\ Released
  /\ UNCHANGED <<rules, releases, held, restVars, file, fileRegs, spoiled>>

\* Mutation: Stop of a suspended server skips the files along with Shutdown.
StopRegsListening(k) ==
  /\ stops[k].stage = "regs"
  /\ stops' = [stops EXCEPT ![k].stage = IF stops[k].port THEN "save" ELSE "shutdown"]
  /\ UNCHANGED <<faultVars, restVars, file, fileRegs, spoiled>>

\* saveRegistrations: the list is made under the lock, and the file is emptied
\* before it is written; a file that cannot be opened stays.
StopRegs(k) ==
  /\ stops[k].stage = "regs"
  /\ \/ /\ persistInit
        /\ stops' = [stops EXCEPT ![k].stage = "regwrite", ![k].regs = registered]
        /\ fileRegs' = {}
     \/ /\ stops' = [stops EXCEPT ![k].stage = "save"]
        /\ UNCHANGED fileRegs
  /\ UNCHANGED <<faultVars, restVars, file, spoiled>>

\* The write of the registrations, whole or not; an error is only logged.
StopRegWrite(k) ==
  /\ stops[k].stage = "regwrite"
  /\ stops' = [stops EXCEPT ![k].stage = "save", ![k].regs = {}]
  /\ fileRegs' \in {stops[k].regs, {}}
  /\ UNCHANGED <<faultVars, restVars, file, spoiled>>

\* What SaveParamsets marshals.
ToSave == AsJson(overrides)

\* SaveParamsets: the paramsets are marshalled under the lock, and the file
\* is emptied before it is written.
StopSave(k) ==
  /\ stops[k].stage = "save"
  /\ stops' = [stops EXCEPT ![k].stage = "write", ![k].paramsets = ToSave]
  /\ file' = Torn
  /\ spoiled' = FALSE
  /\ UNCHANGED <<faultVars, restVars, fileRegs>>

\* The write goes through.
StopWrite(k) ==
  /\ stops[k].stage = "write"
  /\ stops' = [stops EXCEPT ![k].stage = "shutdown", ![k].paramsets = <<>>]
  /\ file' = stops[k].paramsets
  /\ UNCHANGED <<faultVars, restVars, fileRegs, spoiled>>

\* The file cannot be opened, and stays; or the write fails, or what another
\* Stop has written sticks out of it, and it is torn.  Stop only logs an error.
StopFails(k) ==
  /\ stops[k].stage \in {"save", "write"}
  /\ stops' = [stops EXCEPT ![k].stage = "shutdown", ![k].paramsets = <<>>]
  /\ file' = IF stops[k].stage = "save" THEN file ELSE Torn
  /\ spoiled' = TRUE
  /\ UNCHANGED <<faultVars, restVars, fileRegs>>

\* Shutdown closes the listener and waits for the calls in progress, for five
\* seconds at most.
StopShutdown(k) ==
  /\ stops[k].stage = "shutdown"
  /\ stops[k].port
  /\ stops' = [stops EXCEPT ![k].stage = "drain", ![k].port = FALSE]
  /\ UNCHANGED <<faultVars, restVars, file, fileRegs, spoiled>>

\* Stop returns, of a suspended server without Shutdown.
StopReturn(k) ==
  /\ stops[k].stage = "drain" \/ (stops[k].stage = "shutdown" /\ ~stops[k].port)
  /\ stops' = [stops EXCEPT ![k] = NoStop]
  /\ spoiled' = IF Stopping' THEN spoiled ELSE FALSE
  /\ UNCHANGED <<faultVars, restVars, file, fileRegs>>

\* What a call of Stop does after it has released the lock.
StopStep(k) ==
  \/ StopRelease(k) \/ StopRegs(k) \/ StopRegWrite(k) \/ StopSave(k)
  \/ StopWrite(k) \/ StopFails(k) \/ StopShutdown(k) \/ StopReturn(k)

\* The process ends, at whatever point it is, and the next one is built:
\* loadParamsetsFromDisk skips a file it cannot read.
Boot ==
  /\ LET saved == IF file = Torn THEN <<>> ELSE file IN
     /\ Loaded(UNION {AddressesOf[t] : t \in Loads}, saved)
     /\ CatalogueBoot(Loads, IF persistInit THEN fileRegs ELSE {})
  /\ running' = FALSE /\ suspended' = FALSE /\ plain' = FALSE
  /\ tlsUp' = FALSE /\ tlsAddr' = FALSE /\ binUp' = FALSE /\ binAddr' = FALSE
  /\ suspending' = "no" /\ resuming' = "no"
  /\ stops' = [k \in Stops |-> NoStop]
  /\ spoiled' = FALSE
  /\ rules' = <<>>
  /\ release' = 0
  /\ gone' = {}
  /\ held' = [k \in Callers |-> NoCall]
  /\ UNCHANGED <<persistInit, busyPort, anyPort, file, fileRegs, releases>>

LifeInit ==
  /\ persistInit \in BOOLEAN
  /\ running = FALSE /\ suspended = FALSE /\ plain = FALSE
  /\ tlsUp = FALSE /\ tlsAddr = FALSE /\ binUp = FALSE /\ binAddr = FALSE
  /\ busyPort = FALSE
  /\ suspending = "no" /\ resuming = "no"
  /\ anyPort \in BOOLEAN
  /\ stops = [k \in Stops |-> NoStop]
  /\ spoiled = FALSE
  /\ file = <<>>
  /\ fileRegs = {}
  /\ rules = <<>>
  /\ release = 0 /\ releases = 0
  /\ gone = {}
  /\ held = [k \in Callers |-> NoCall]
  /\ since = {<<>>}

-----------------------------------------------------------------------------
(* Properties                                                              *)

\* However rules, clears, suspensions and stops interleave, a call that a
\* hang or a delay holds waits on the channel that the next release closes,
\* or on one that is closed already: none is out of reach (take,
\* releaseHeldCalls).
NoCallStranded ==
  \A k \in Callers : held[k] # NoCall => held[k].on \in gone \cup {release}

\* A call that is held when Stop or Suspend is about to release the held calls
\* does end, however many rules hold calls, and one that only a delay holds ends
\* by itself (releaseHeldCalls, take, intercept).
HeldCallsReturn ==
  \A k \in Callers :
    held[k] # NoCall /\ (\/ \E j \in Stops : stops[j].stage = "release"
                         \/ suspending = "close"
                         \/ held[k].in = "delay" /\ held[k].then # "hang")
      ~> held[k] = NoCall

phase == IF ~running THEN "stopped" ELSE IF suspended THEN "suspended" ELSE "running"

Contract == INSTANCE ServerContract WITH
  phase <- phase, stopping <- Stopping, store <- AsJson(overrides), disk <- file, Nothing <- <<>>

\* The process keeps the contract of ServerContract: what was answered before
\* Stop was called is on disk when Stop, and every Stop it overlaps, has
\* returned, suspended or not, whatever is written, started or suspended
\* meanwhile, unless the file could not be written whole (Stop, Start, Suspend,
\* Resume, SaveParamsets, loadParamsetsFromDisk).
ServerImplements == Contract!CSpec
=============================================================================
