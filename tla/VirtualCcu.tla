----------------------------- MODULE VirtualCcu -----------------------------
(***************************************************************************)
(* The simulator as a whole (internal/virtualccu): Start binds the         *)
(* listeners of the interface processes, the main server, the script port, *)
(* the web API and discovery one after the other and rolls back when one   *)
(* of them fails; Stop closes them, the last ones after it has released    *)
(* VirtualCCU.mu; the scenario calls look a server up under the lock and   *)
(* suspend or resume it without.  ServerLifecycle has the steps inside     *)
(* Suspend and Resume; here they are one step.  Ports are fixed: a port    *)
(* that is bound, by whichever start, cannot be bound again.               *)
(***************************************************************************)
EXTENDS Integers, Sequences, Functions

CONSTANTS
  Configs,   \* [interfaces, tls, script, bin, web, discovery]
  MaxStarts  \* bound: calls of Start

\* No interface has the name of another listener.
ASSUME VirtualAssumption ==
  /\ MaxStarts \in Nat
  /\ \A c \in Configs :
       /\ c.interfaces \in Seq(STRING \ {"main", "script", "json", "ssdp"})
       /\ \A option \in {"tls", "script", "bin", "web", "discovery"} : c[option] \in BOOLEAN

VARIABLES
  config,
  ccuUp,       \* VirtualCCU.running
  starts,   \* Starts so far; what the latest one builds carries the number
  todo,     \* what the Start in progress has still to bind; it holds v.mu
  refs,     \* v.xmlrpc, interfaces, jsonrpc, regaScript and ssdp: whose, 0 for nil
  servers,  \* the XML-RPC servers that run
  bound,    \* the listeners that are bound, and for which start
  tails,    \* what each Stop has still to close without the lock
  scenario, \* scenario calls that have looked their server up
  foreign,  \* external: ports that another program holds
  failed,   \* history: the starts that failed
  lateBin      \* history: starts whose BIN-RPC was resumed after Stop had closed it

virtualVars ==
  <<config, ccuUp, starts, todo, refs, servers, bound, tails, scenario, foreign, failed, lateBin>>

Port(server, kind) == <<server, kind>>
Interfaces == Range(config.interfaces)
Main == {Port("main", kind) : kind \in {"plain", "tls", "bin"}}
OfInterfaces == Interfaces \X {"plain", "tls"}

Listed(yes, seq) == IF yes THEN seq ELSE <<>>
Twins(server, tls) == <<Port(server, "plain")>> \o Listed(tls, <<Port(server, "tls")>>)

\* The listeners of the interfaces, in their order.
InterfacePorts ==
  IF config.tls
  THEN [i \in 1 .. 2 * Len(config.interfaces) |->
         Port(config.interfaces[(i + 1) \div 2], IF i % 2 = 1 THEN "plain" ELSE "tls")]
  ELSE [i \in 1 .. Len(config.interfaces) |-> Port(config.interfaces[i], "plain")]

\* The order in which Start binds.
Plan ==
  InterfacePorts
  \o Twins("main", config.tls /\ config.interfaces = <<>>)
  \o Listed(config.script, <<Port("script", "plain")>>)
  \o Listed(config.bin, <<Port("main", "bin")>>)
  \o Listed(config.web, Twins("json", config.tls)
                        \o Listed(config.discovery, <<Port("ssdp", "udp")>>))

IsBound(l) == \E g \in 1 .. starts : <<l, g>> \in bound

\* A multicast port can be shared.
Free(l) == l[2] = "udp" \/ (~IsBound(l) /\ l \notin foreign)

-----------------------------------------------------------------------------
(* Start                                                                   *)

\* Start takes the lock.
StartCcu ==
  /\ todo = <<>>
  /\ ~ccuUp
  /\ starts < MaxStarts
  /\ starts' = starts + 1
  /\ todo' = Plan
  /\ UNCHANGED <<config, ccuUp, refs, servers, bound, tails, scenario, foreign, failed, lateBin>>

Started(h) ==
  [k \in DOMAIN servers \cup {h} |->
     IF k = h THEN [asleep |-> FALSE, tls |-> FALSE, bin |-> FALSE] ELSE servers[k]]

\* The server that a listener belongs to, once the listener is bound.
ServersWith(l) ==
  LET h == <<l[1], starts>> IN
  IF l[1] \notin Interfaces \cup {"main"} THEN servers
  ELSE CASE l[2] = "plain" -> Started(h)
         [] l[2] = "tls"   -> [servers EXCEPT ![h].tls = TRUE]
         [] l[2] = "bin"   -> servers

\* What Start stores before it binds a listener; nobody looks before it is through.
Assigned(l) ==
  CASE l = Port("main", "plain") -> [refs EXCEPT !.main = starts, !.interfaces = starts]
    [] l = Port("json", "plain") -> [refs EXCEPT !.json = starts]
    [] OTHER                   -> refs

\* What it stores afterwards.
StoredAfter(l) ==
  CASE l[1] = "script" -> [refs EXCEPT !.script = starts]
    [] l[1] = "ssdp"   -> [refs EXCEPT !.ssdp = starts]
    [] OTHER           -> Assigned(l)

Bind ==
  /\ todo # <<>>
  /\ Free(Head(todo))
  /\ LET l == Head(todo) IN
     /\ bound' = bound \cup {<<l, starts>>}
     /\ servers' = ServersWith(l)
     /\ refs' = StoredAfter(l)
  /\ todo' = Tail(todo)
  /\ ccuUp' = (Len(todo) = 1)
  /\ UNCHANGED <<config, starts, tails, scenario, foreign, failed, lateBin>>

\* Discovery that cannot be started is only warned about.
NoDiscovery ==
  /\ todo # <<>>
  /\ Head(todo)[1] = "ssdp"
  /\ todo' = <<>>
  /\ ccuUp' = TRUE
  /\ UNCHANGED <<config, starts, refs, servers, bound, tails, scenario, foreign, failed, lateBin>>

\* What Start closes when a listener cannot be bound: startInterfaces stops
\* the servers it has started, and Start itself stops more the later it fails.
RolledBack(l) ==
  CASE l[1] \in Interfaces         -> Interfaces \X {"plain"}
    [] l = Port("main", "plain") -> {}
    [] l[1] = "script" \/ l \in Main \ {Port("main", "plain")} -> {Port("main", "plain")}
    [] l[1] = "json"             -> OfInterfaces \cup Main \cup {Port("json", "plain")}

\* The servers whose plain listener is stopped do not run any more.
Running(closed, g) ==
  Restrict(servers, {h \in DOMAIN servers : ~(h[2] = g /\ Port(h[1], "plain") \in closed)})

\* What Start has stored by the time that l cannot be bound, or that it gets no
\* device catalogue for the server of l.
StoredBefore(l) ==
  IF l[1] = "json" THEN [Assigned(l) EXCEPT !.interfaces = 0] ELSE Assigned(l)
StoredWithout(l) == IF l[1] = "main" THEN [refs EXCEPT !.interfaces = starts] ELSE refs

\* The port is taken, the certificate is none, or NewRPCFunctions fails.  (A
\* certificate that cannot be made ends Start before it has done anything.)
StartFails ==
  /\ todo # <<>>
  /\ LET l == Head(todo) IN
     /\ \/ /\ l[1] # "ssdp"
           /\ ~Free(l) \/ l[2] = "tls"
           /\ refs' = StoredBefore(l)
        \/ /\ l[1] \in Interfaces \cup {"main"}
           /\ l[2] = "plain"
           /\ refs' = StoredWithout(l)
     /\ bound' = bound \ (RolledBack(l) \X {starts})
     /\ servers' = Running(RolledBack(l), starts)
  /\ todo' = <<>>
  /\ failed' = failed \cup {starts}
  /\ UNCHANGED <<config, ccuUp, starts, tails, scenario, foreign, lateBin>>

-----------------------------------------------------------------------------
(* Stop                                                                    *)

Planned(l) == Listed(l \in Range(Plan), <<l>>)

\* Mutation: BIN-RPC is left to Server.Stop.
ClosingNoBin ==
  Planned(Port("ssdp", "udp")) \o Planned(Port("json", "tls")) \o Planned(Port("json", "plain"))
  \o Planned(Port("main", "tls")) \o Planned(Port("main", "plain"))

\* What Stop closes once it has released the lock.
Closing ==
  Planned(Port("ssdp", "udp")) \o Planned(Port("json", "tls")) \o Planned(Port("json", "plain"))
  \o Planned(Port("main", "bin")) \o Planned(Port("main", "tls")) \o Planned(Port("main", "plain"))

\* Stop under the lock.
StopCcu ==
  /\ todo = <<>>
  /\ ccuUp
  /\ ccuUp' = FALSE
  /\ bound' = bound \ ({<<Port("script", "plain"), refs.script>>} \cup OfInterfaces \X {refs.interfaces})
  /\ servers' = Running(OfInterfaces, refs.interfaces)
  /\ refs' = [r \in DOMAIN refs |-> 0]
  /\ tails' = tails \cup {[of |-> refs.main, rest |-> Closing]}
  /\ UNCHANGED <<config, starts, todo, scenario, foreign, failed, lateBin>>

\* The rest of Stop, one listener after the other.
StopNext(t) ==
  /\ t \in tails
  /\ LET l == Head(t.rest)
         h == <<"main", t.of>> IN
     /\ bound' = bound \ {<<l, t.of>>}
     /\ servers' = IF l = Port("main", "tls") THEN [servers EXCEPT ![h].tls = FALSE]
                   ELSE Running({l}, t.of)
     /\ tails' = (tails \ {t}) \cup (IF Len(t.rest) = 1 THEN {} ELSE {[t EXCEPT !.rest = Tail(@)]})
  /\ UNCHANGED <<config, ccuUp, starts, todo, refs, scenario, foreign, failed, lateBin>>

-----------------------------------------------------------------------------
(* Scenario calls                                                          *)

\* servers and serverFor: what an interface name stands for.
ServerFor(name) == <<name, IF name = "main" THEN refs.main ELSE refs.interfaces>>

\* StopInterface, StartInterface or RestartInterface has looked its server up.
LookUp(op, name) ==
  /\ todo = <<>>
  /\ ServerFor(name)[2] # 0
  /\ scenario' = scenario \cup {[op |-> op, on |-> ServerFor(name)]}
  /\ UNCHANGED <<config, ccuUp, starts, todo, refs, servers, bound, tails, foreign, failed, lateBin>>

Done(c) == scenario \ {c}

\* The server was stopped meanwhile.
CallFails(c) ==
  /\ c.on \notin DOMAIN servers
  /\ scenario' = Done(c)
  /\ UNCHANGED <<config, ccuUp, starts, todo, refs, servers, bound, tails, foreign, failed, lateBin>>

\* Suspend; a restart goes on with Resume.
SuspendServer(c) ==
  /\ c.op \in {"stop", "restart"}
  /\ c.on \in DOMAIN servers
  /\ scenario' = Done(c) \cup (IF c.op = "restart" THEN {[c EXCEPT !.op = "start"]} ELSE {})
  /\ IF servers[c.on].asleep
     THEN UNCHANGED <<servers, bound>>
     ELSE LET bin == <<Port(c.on[1], "bin"), c.on[2]>> IN
          /\ servers' = [servers EXCEPT ![c.on].asleep = TRUE,
                                        ![c.on].bin = @ \/ bin \in bound]
          /\ bound' = {b \in bound : b[1][1] # c.on[1] \/ b[2] # c.on[2]}
  /\ UNCHANGED <<config, ccuUp, starts, todo, refs, tails, foreign, failed, lateBin>>

\* Resume: nothing without the plain port, only that without the TLS port,
\* and BIN-RPC if its port is still free.
ResumeServer(c) ==
  /\ c.op = "start"
  /\ c.on \in DOMAIN servers
  /\ scenario' = Done(c)
  /\ LET name  == c.on[1]
         g     == c.on[2]
         known == servers[c.on]
         tls   == known.tls => Free(Port(name, "tls"))
         bin   == tls /\ known.bin /\ Free(Port(name, "bin"))
         again == {Port(name, "plain")} \cup (IF tls /\ known.tls THEN {Port(name, "tls")} ELSE {})
                  \cup (IF bin THEN {Port(name, "bin")} ELSE {}) IN
     IF ~known.asleep \/ ~Free(Port(name, "plain"))
     THEN UNCHANGED <<servers, bound, lateBin>>
     ELSE /\ bound' = bound \cup (again \X {g})
          /\ servers' = IF tls THEN [servers EXCEPT ![c.on].asleep = FALSE, ![c.on].bin = FALSE]
                        ELSE servers
          /\ lateBin' = IF bin /\ refs.main # g
                        /\ ~\E t \in tails : t.of = g /\ Port("main", "bin") \in Range(t.rest)
                     THEN lateBin \cup {g} ELSE lateBin
  /\ UNCHANGED <<config, ccuUp, starts, todo, refs, tails, foreign, failed>>

\* Another program takes a port, or leaves it.
Squat(l) ==
  /\ ~IsBound(l)
  /\ foreign' = IF l \in foreign THEN foreign \ {l} ELSE foreign \cup {l}
  /\ UNCHANGED <<config, ccuUp, starts, todo, refs, servers, bound, tails, scenario, failed, lateBin>>

VirtualInit ==
  /\ config \in Configs
  /\ ccuUp = FALSE
  /\ starts = 0
  /\ todo = <<>>
  /\ refs = [r \in {"main", "interfaces", "json", "script", "ssdp"} |-> 0]
  /\ servers = <<>>
  /\ bound = {} /\ tails = {} /\ scenario = {} /\ foreign = {}
  /\ failed = {} /\ lateBin = {}

-----------------------------------------------------------------------------
(* Properties                                                              *)

\* A simulator that runs serves every listener it was configured with, except
\* those of suspended servers (BIN-RPC may have lost its port to another
\* program); and every port that is bound belongs to the run, to a start in
\* progress or to a Stop that is about to close it.  Two leaks are what the
\* code has: a start that fails, over a port, a certificate or a catalogue,
\* can leave interface, script and TLS listeners, but never the web API, the
\* main port or BIN-RPC; and a restart that was under way when Stop was called
\* can bring BIN-RPC back (Start, startInterfaces, Stop, stopInterfaces,
\* RestartInterface).
VirtualSound ==
  /\ ccuUp => \A l \in {x \in Range(Plan) : x[2] \in {"plain", "tls"}} :
              \/ <<l, starts>> \in bound
              \/ /\ l[1] \in Interfaces \cup {"main"}
                 /\ servers[<<l[1], starts>>].asleep
  /\ \A b \in bound :
        \/ b[2] = starts /\ (ccuUp \/ todo # <<>>)
        \/ \E t \in tails : t.of = b[2] /\ b[1] \in Range(t.rest)
        \/ b[2] \in failed /\ b[1] \notin {Port("json", "plain"), Port("json", "tls"),
                                           Port("main", "plain"), Port("main", "bin")}
        \/ b[2] \in lateBin /\ b[1] = Port("main", "bin")
=============================================================================
