-------------------------- MODULE DeviceCatalogue --------------------------
(***************************************************************************)
(* The devices of an interface process and the copy that each registered   *)
(* logic layer keeps of them (internal/ccu/rpcfunctions.go,                *)
(* initsemantics.go).  A catalogue change and an init compute what to tell *)
(* a client under the lock and tell it afterwards, call by call; several   *)
(* of them may be under way at once.  The clients are external: they       *)
(* answer listDevices and follow newDevices and deleteDevices.             *)
(***************************************************************************)
EXTENDS ParamsetStore

CONSTANTS
  Types,       \* device types that can be loaded
  AddressesOf, \* the devices and channels of a type
  HmIP,        \* addresses of HmIP devices
  Clients,
  Related,     \* clients whose url holds, or is held by, that of a client
  Copies,      \* copies a client may start with: address -> version
  MaxWork      \* bound: operations ever started

ASSUME CatalogueAssumption == \A t \in Types : AddressesOf[t] \subseteq Addresses

VARIABLES
  semantics,   \* RPCFunctions.initSemantics
  active,      \* activeDevices
  registered,  \* remotes
  copies,      \* external: what each client knows, address -> version
  work,        \* operations under way
  started,     \* number of operations started
  upset        \* history: clients that missed something, or had an address change
               \* while a call about it was still on its way to them

catVars == <<semantics, active, registered, copies, work, started, upset>>

\* The version of our devices; a copy may hold an earlier one.
Current == 1

Root(type) == DeviceOf[CHOOSE a \in AddressesOf[type] : TRUE]

-----------------------------------------------------------------------------
(* Operations under way: AddDevices past loadDevices, askDevices before    *)
(* and after the client's answer, and calls to make.                       *)

Loading(n, list) == [n |-> n, stage |-> "loaded", list |-> list]
Asking(n, c) == [n |-> n, stage |-> "ask", client |-> c]
Asked(n, c, known) == [n |-> n, stage |-> "asked", client |-> c, known |-> known]
Calling(n, calls) == [n |-> n, stage |-> "push", calls |-> calls]
Call(c, method, list) == [client |-> c, method |-> method, list |-> list]

\* An operation starts with the stage w.
NewWork == started + 1
Start(w) ==
  /\ started < MaxWork
  /\ started' = NewWork
  /\ work' = work \cup {w}

\* The operation w goes on as its next stage, or ends.
GoesOn(w, next) == work' = (work \ {w}) \cup {next}
Ends(w) == work' = work \ {w}
GoesOnWith(w, calls) == IF calls = <<>> THEN Ends(w) ELSE GoesOn(w, Calling(w.n, calls))

\* Clients with an operation that has something to tell them.
Busy ==
  {c \in Clients : \E w \in work :
     CASE w.stage = "push"             -> \E i \in 1 .. Len(w.calls) : w.calls[i].client = c
       [] w.stage \in {"ask", "asked"} -> w.client = c
       [] OTHER                        -> c \in registered}

\* Clients that are still being told of one of the addresses set.
ToldOf(set) ==
  {c \in Clients : \E w \in work :
     \/ w.stage = "push" /\ \E i \in 1 .. Len(w.calls) :
          w.calls[i].client = c /\ w.calls[i].list \cap set # {}
     \/ w.stage = "loaded" /\ c \in registered /\ w.list \cap set # {}}

\* A change of the addresses set: calls about them may come before and after.
Disturbed(set) == upset' = upset \cup ToldOf(set)

\* The call tells the client c what holds of the address a.
Tells(call, c, a) ==
  /\ call.client = c
  /\ a \in call.list
  /\ call.method = IF a \in devices THEN "newDevices" ELSE "deleteDevices"

\* Whatever the calls tell the client c holds, or is put right by a later one.
Harmless(calls, c) ==
  \A i \in 1 .. Len(calls) : calls[i].client = c =>
    \A a \in calls[i].list : \E j \in i .. Len(calls) : Tells(calls[j], c, a)

\* Clients that will be told something that does not hold any more.
Misled ==
  {c \in Clients : \E w \in work :
     \/ w.stage = "push" /\ ~Harmless(w.calls, c)
     \/ w.stage = "loaded" /\ ~(w.list \subseteq devices)}

\* One call to each registered client, in the order of a map.
Broadcasts(method, list) ==
  {[i \in 1 .. Len(order) |-> Call(order[i], method, list)] : order \in SetToSeqs(registered)}

-----------------------------------------------------------------------------
(* Changes of the catalogue                                                *)

\* AddDevices up to the end of loadDevices, which skips the active types.
AddDevices(types) ==
  LET fresh == types \ active
      added == UNION {AddressesOf[t] : t \in fresh}
  IN /\ added # {}
     /\ active' = active \cup fresh
     /\ devices' = devices \cup added
     /\ Start(Loading(NewWork, added))
     /\ Disturbed(added)
     /\ UNCHANGED <<overrides, compiled, dirty, links, linkInfo, metadata, suppressed, unreaching,
                    modelVars, semantics, registered, copies>>

\* AddDevices takes its list of clients under a lock of its own.
AddTell(w) ==
  /\ w.stage = "loaded"
  /\ \E calls \in Broadcasts("newDevices", w.list) : GoesOnWith(w, calls)
  /\ UNCHANGED <<storeVars, semantics, active, registered, copies, started, upset>>

\* What DeleteDevice and RemoveDevices do with the addresses that go.
Drop(gone, types) ==
  /\ active' = active \ types
  /\ devices' = devices \ gone
  /\ Cleared(gone)
  /\ Disturbed(gone)
  /\ IF registered = {} THEN UNCHANGED <<work, started>>
     ELSE \E calls \in Broadcasts("deleteDevices", gone) : Start(Calling(NewWork, calls))
  /\ UNCHANGED <<semantics, registered, copies>>

\* DeleteDevice: a channel goes alone and leaves its type loaded.
DeleteDevice(a) ==
  LET gone == {b \in devices : b = a \/ DeviceOf[b] = a} IN
  /\ gone # {}
  /\ Drop(gone, {t \in active : Root(t) = a})

\* RemoveDevices.
RemoveDevices(types) ==
  Drop(devices \cap UNION {AddressesOf[t] : t \in types \cap active}, types)

-----------------------------------------------------------------------------
(* Clients                                                                 *)

\* What an init means for the history: it makes good what the client has missed,
\* but not what it will still be told wrong.
UpsetByInit(c) == IF c \in Misled THEN upset \cup {c} ELSE upset \ {c}

\* Init of a client; askDevices starts on its own.
Register(c) ==
  /\ registered' = registered \cup {c}
  /\ upset' = UpsetByInit(c)
  /\ Start(Asking(NewWork, c))
  /\ UNCHANGED <<storeVars, semantics, active, copies>>

\* Init without an interface id removes one client with a url like this one;
\* under init semantics, the client of this url.
Unregister(c) ==
  /\ \E d \in registered : /\ d = c \/ (~semantics /\ d \in Related[c])
                           /\ registered' = registered \ {d}
  /\ UNCHANGED <<storeVars, semantics, active, copies, work, started, upset>>

\* askDevices up to the client's answer; a client that is gone is not asked.
Ask(w) ==
  /\ w.stage = "ask"
  /\ IF w.client \in registered
     THEN GoesOn(w, Asked(w.n, w.client, copies[w.client]))
     ELSE Ends(w)
  /\ UNCHANGED <<storeVars, semantics, active, registered, copies, started, upset>>

\* The client does not answer listDevices.
AskFails(w) ==
  /\ w.stage = "ask"
  /\ w.client \in registered
  /\ upset' = upset \cup {w.client}
  /\ Ends(w)
  /\ UNCHANGED <<storeVars, semantics, active, registered, copies, started>>

\* A call that has something in its list.
Worth(call) == IF call.list = {} THEN <<>> ELSE <<call>>

\* pushDevices.
PushDevices(c, known) ==
  Worth(Call(c, "newDevices", devices \ DOMAIN known)) \o
  Worth(Call(c, "deleteDevices", DOMAIN known \ devices))

\* The devices that reconcileDevices sends again.
Again(known) ==
  {a \in devices \cap DOMAIN known : a \in HmIP \/ known[a] # Current}

\* Mutation: new devices first, as pushDevices has it.
ReconcileNewFirst(c, known) ==
  Worth(Call(c, "newDevices", (devices \ DOMAIN known) \cup Again(known))) \o
  Worth(Call(c, "deleteDevices", (DOMAIN known \ devices) \cup Again(known)))

\* reconcileDevices.
ReconcileDevices(c, known) ==
  Worth(Call(c, "deleteDevices", (DOMAIN known \ devices) \cup Again(known))) \o
  Worth(Call(c, "newDevices", (devices \ DOMAIN known) \cup Again(known)))

\* askDevices once the client has answered.
Diff(w) ==
  /\ w.stage = "asked"
  /\ GoesOnWith(w, IF semantics THEN ReconcileDevices(w.client, w.known)
                               ELSE PushDevices(w.client, w.known))
  /\ UNCHANGED <<storeVars, semantics, active, registered, copies, started, upset>>

\* The first call of w reaches its client.
Deliver(w) ==
  /\ w.stage = "push"
  /\ LET call == Head(w.calls)
         copy == copies[call.client]
     IN copies' = [copies EXCEPT ![call.client] =
          IF call.method = "newDevices"
          THEN [a \in call.list \cup DOMAIN copy |-> IF a \in call.list THEN Current ELSE copy[a]]
          ELSE Restrict(copy, DOMAIN copy \ call.list)]
  /\ GoesOnWith(w, Tail(w.calls))
  /\ UNCHANGED <<storeVars, semantics, active, registered, started, upset>>

\* The first call of w fails; that is logged and no more.
Lose(w) ==
  /\ w.stage = "push"
  /\ upset' = upset \cup {Head(w.calls).client}
  /\ GoesOnWith(w, Tail(w.calls))
  /\ UNCHANGED <<storeVars, semantics, active, registered, copies, started>>

\* ForgetClients.
ForgetClients ==
  /\ registered' = {}
  /\ UNCHANGED <<storeVars, semantics, active, copies, work, started, upset>>

\* ReannounceClients: askDevices for every client.
ReannounceClients ==
  LET order == SetToSeq(registered) IN
  /\ started + Len(order) <= MaxWork
  /\ started' = started + Len(order)
  /\ work' = work \cup {Asking(started + i, order[i]) : i \in 1 .. Len(order)}
  /\ upset' = upset \ (registered \ Misled)
  /\ UNCHANGED <<storeVars, semantics, active, registered, copies>>

WorkStep ==
  \E w \in work : AddTell(w) \/ Ask(w) \/ AskFails(w) \/ Diff(w) \/ Deliver(w) \/ Lose(w)

\* NewRPCFunctions and EnableInitPersistence: the given types are loaded, and
\* the clients of the file registered, without asking them anything.
CatalogueBoot(types, clients) ==
  /\ active' = types
  /\ registered' = clients
  /\ work' = {}
  /\ upset' = clients
  /\ UNCHANGED <<semantics, copies, started>>

CatalogueInit(types) ==
  /\ semantics \in BOOLEAN
  /\ active = types
  /\ registered = {}
  /\ copies \in [Clients -> Copies]
  /\ work = {}
  /\ started = 0
  /\ upset = {}

\* A client to which nothing is on its way knows exactly our devices, in their
\* versions under init semantics, whatever additions, removals, inits and
\* diffs from answers that were old by then have crossed each other.  What the
\* code does not save, and this leaves out, are the clients in upset: a call
\* to them was lost; the address that a call to them was about changed before
\* it came; or they were restored from the file, and none of this has been
\* made good by an init since (askDevices, pushDevices, reconcileDevices,
\* AddDevices, DeleteDevice, RemoveDevices).
ClientInSync ==
  \A c \in registered \ (upset \cup Busy) :
    /\ DOMAIN copies[c] = devices
    /\ semantics => \A a \in devices : copies[c][a] = Current

\* Once the catalogue and the registrations stay as they are, every registered
\* client that is not in upset, so none that ClientInSync leaves out, comes to
\* know the devices that there are: no announcement waits for another
\* (AddDevices, askDevices).
ClientsConverge ==
  \A c \in Clients : <>[](c \in registered \ upset => DOMAIN copies[c] = devices)
=============================================================================
