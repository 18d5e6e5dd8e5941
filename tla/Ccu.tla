--------------------------------- MODULE Ccu ---------------------------------
(***************************************************************************)
(* One simulated CCU: an interface process (ServerLifecycle), its devices  *)
(* and clients (DeviceCatalogue), its paramsets (ParamsetStore), the web   *)
(* API with its sessions and the CCU's own objects (JsonRpc), and the      *)
(* simulator that starts and stops all listeners (VirtualCcu).  The        *)
(* XML-RPC calls of a logic layer, the web requests and the knobs of the   *)
(* test that drives the simulator come in any order.                       *)
(*                                                                         *)
(* Budgets bounds the calls of a behaviour, part by part: a behaviour      *)
(* starts with one of the budgets and every call takes one from its part.  *)
(***************************************************************************)
EXTENDS JsonRpc, VirtualCcu

CONSTANTS
  Puts,     \* paramsets that are written: [address, kind, set]
  Deletes,  \* addresses that are deleted
  Sets,     \* single values that are written: [address, key, value]
  LinkSets, \* link paramsets that are written
  Partners, \* addresses that are linked
  Bodies,   \* web requests: part of the budget -> sequences of calls
  Names,    \* names of system variables
  Budgets

\* The calls of all web requests.
WebCalls == UNION {Range(body) : body \in UNION Range(Bodies)}

IsPut(put) ==
  /\ IsFiniteSet(DOMAIN put.set)
  /\ put.kind = "MASTER" => \A p \in DOMAIN put.set : put.set[p] \in Value

\* A request has a call, a write has an end, and what is written to a
\* configuration is values.
ASSUME PutsAssumption ==
  /\ \A put \in Puts : IsPut(put)
  /\ \A call \in WebCalls : call.method = "Interface.putParamset" => IsPut(call.arg)
  /\ \A body \in UNION Range(Bodies) : body \in Seq(WebCalls) \ {<<>>}

\* What a test completes a backup with is a backup.
ASSUME CcuAssumption == "file" # NoBackup

VARIABLE left  \* what is left of the budget

ccuVars == <<storeVars, catVars, lifeVars, sessVars, stateVars, virtualVars, left>>

Spend(part) ==
  /\ left[part] > 0
  /\ left' = [left EXCEPT ![part] = @ - 1]

StoreCall ==
  /\ Spend("store")
  /\ \/ \E a \in Addresses, kind \in {"VALUES", "MASTER"} : GetParamset(a, kind)
     \/ \E put \in Puts, force \in BOOLEAN : PutParamset(put.address, put.kind, put.set, force)
     \/ \E one \in Sets : SetValue(one.address, one.key, one.value, FALSE)
     \/ \E a \in Range(Maintenance), flag \in BOOLEAN : Unreach(a, flag)
     \/ \E a \in Range(Maintenance), p \in Raised \cup {NoValue}, on \in BOOLEAN : Suppress(a, p, on)
  /\ UNCHANGED <<catVars, serverVars, faultVars, sessVars, stateVars, virtualVars>>
  /\ Tracked

LinkCall ==
  /\ Spend("link")
  /\ \/ \E s, r \in Partners : AddLink(s, r) \/ RemoveLink(s, r) \/ SetLinkInfo(s, r, "name")
     \/ \E s, r \in Partners, write \in LinkSets : PutLinkParamset(s, r, write)
     \/ \E a \in Partners : SetMetadata(a, "NAME", "name")
  /\ UNCHANGED <<catVars, serverVars, faultVars, sessVars, stateVars, virtualVars>>
  /\ Tracked

StoreRun ==
  /\ UnreachWrite
  /\ UNCHANGED <<catVars, serverVars, faultVars, sessVars, stateVars, virtualVars, left>>
  /\ Tracked

CatalogueCall ==
  /\ Spend("cat")
  /\ \/ \E t \in Types : AddDevices({t}) \/ RemoveDevices({t})
     \/ RemoveDevices(active)
     \/ \E a \in Deletes : DeleteDevice(a)
     \/ \E c \in Clients : Register(c) \/ Unregister(c)
  /\ UNCHANGED <<serverVars, faultVars, sessVars, stateVars, virtualVars>>
  /\ Tracked

CatalogueRun ==
  /\ WorkStep
  /\ UNCHANGED <<serverVars, faultVars, sessVars, stateVars, virtualVars, left>>
  /\ Tracked

FaultCall ==
  /\ Spend("fault")
  /\ \/ \E rule \in Rules : InjectFault(rule)
     \/ ClearFaults
     \/ \E k \in Callers, method \in Methods : Intercept(k, method)
  /\ UNCHANGED <<storeVars, catVars, sessVars, stateVars, virtualVars>>
  /\ Tracked

FaultRun ==
  /\ \E k \in Callers : DelayEnds(k) \/ LetGo(k)
  /\ UNCHANGED <<storeVars, catVars, sessVars, stateVars, virtualVars, left>>
  /\ Tracked

LifeCall ==
  /\ Spend("life")
  /\ \/ /\ \/ StartServer \/ Suspend
           \/ \E k \in Stops : Stop(k)
           \/ \E forget \in BOOLEAN : Resume(forget)
           \/ StartTLS \/ StopTLS \/ Occupy
           \/ \E up \in BOOLEAN : SetBINRPC(up)
        /\ UNCHANGED <<storeVars, catVars>>
     \/ Boot
  /\ UNCHANGED <<sessVars, stateVars, virtualVars>>
  /\ Tracked

LifeRun ==
  /\ \/ /\ \/ SuspendClose \/ SuspendBin
           \/ \E k \in Stops : StopStep(k)
        /\ UNCHANGED <<storeVars, catVars>>
     \/ ResumeRest
  /\ UNCHANGED <<sessVars, stateVars, virtualVars, left>>
  /\ Tracked

\* A web request, or a toggle of the test.
WebCall ==
  /\ \/ \E part \in DOMAIN Bodies, s \in Slots : \E body \in Bodies[part] :
          Spend(part) /\ Arrive(s, body)
     \/ /\ Spend("session")
        /\ \/ CleanupExpired
           \/ InvalidateAll
           \/ \E on \in BOOLEAN : SetAuthEnabled(on) \/ SetWebReady(on)
  /\ UNCHANGED <<storeVars, catVars, serverVars, faultVars, stateVars, virtualVars>>
  /\ Tracked

Admission ==
  /\ (\E s \in Slots : AdmissionStep(s)) \/ (left["session"] > 0 /\ SessionTick)
  /\ UNCHANGED <<storeVars, catVars, serverVars, faultVars, stateVars, virtualVars, left>>
  /\ Tracked

WebRun ==
  /\ \E s \in Slots : Handle(s)
  /\ UNCHANGED <<virtualVars, left>>
  /\ Tracked

\* What the test does to the CCU's own objects.
StateCall ==
  /\ Spend("state")
  /\ \/ \E on \in BOOLEAN, id \in {0, 1000} : AddProgram(on, id)
     \/ \E id \in DOMAIN programs : DeleteProgram(id)
     \/ \E name \in Names, id \in {0} \cup {one.id : one \in Range(Builtin)}, type \in {"STRING", "BOOL"} :
          AddSystemVariable(name, type, 0, id)
     \/ AddRoom(<<>>, 0) \/ AddFunction(<<>>, 0)
     \/ \E id \in DOMAIN rooms, ch \in Partners :
          AddChannelToRoom(id, ch) \/ RemoveChannelFromRoom(id, ch)
     \/ \E id \in DOMAIN functions, ch \in Partners : AddChannelToFunction(id, ch)
     \/ AddServiceMessage \/ ClearAllServiceMessages
     \/ \E a \in Partners : AddInboxDevice(a) \/ RegisterAddress(a)
     \/ \E on, late \in BOOLEAN : SetBackupDelay(on, late)
     \/ CompleteBackup("file") \/ FailBackup \/ ResetBackup
     \/ SetUpdateInfo(Firmware, "next")
     \/ ClearAll
  /\ UNCHANGED <<storeVars, catVars, serverVars, faultVars, sessVars, virtualVars>>
  /\ Tracked

StateRun ==
  /\ backup.status = "running"
  /\ BackupElapses
  /\ UNCHANGED <<storeVars, catVars, serverVars, faultVars, sessVars, virtualVars, left>>
  /\ Tracked

\* The simulator, its restarts and the ports it needs.
VirtualCall ==
  /\ Spend("virtual")
  /\ \/ StartCcu
     \/ StopCcu
     \/ \E op \in {"stop", "start", "restart"}, name \in {"main"} \cup Interfaces : LookUp(op, name)
     \/ \E l \in Range(Plan) : Squat(l)
  /\ UNCHANGED <<storeVars, catVars, serverVars, faultVars, sessVars, stateVars>>
  /\ Tracked

VirtualRun ==
  /\ \/ Bind \/ NoDiscovery \/ StartFails
     \/ \E t \in tails : StopNext(t)
     \/ \E c \in scenario : CallFails(c) \/ SuspendServer(c) \/ ResumeServer(c)
  /\ UNCHANGED <<storeVars, catVars, serverVars, faultVars, sessVars, stateVars, left>>
  /\ Tracked

\* The options that only matter to a part that takes calls.
OptionsMatter ==
  /\ left["cat"] = 0 => ~semantics /\ \A c \in Clients : copies[c] = <<>>
  /\ left["life"] = 0 => ~anyPort
  /\ left["life"] = 0 \/ left["cat"] + left["iface"] = 0 => ~persistInit
  /\ left["store"] = 0 => ~masterModel
  /\ left["session"] = 0 => ~enabled /\ ~ccuErrorModel
  /\ left["virtual"] = 0 => config = CHOOSE one \in Configs : TRUE

Init ==
  /\ left \in Budgets
  /\ StoreInit
  /\ CatalogueInit(Loads)
  /\ devices = UNION {AddressesOf[t] : t \in Loads}
  /\ LifeInit
  /\ SessInit
  /\ StateInit
  /\ VirtualInit
  /\ OptionsMatter

Next ==
  \/ StoreCall \/ LinkCall \/ StoreRun
  \/ CatalogueCall \/ CatalogueRun
  \/ FaultCall \/ FaultRun
  \/ LifeCall \/ LifeRun
  \/ WebCall \/ Admission \/ WebRun
  \/ StateCall \/ StateRun
  \/ VirtualCall \/ VirtualRun

Spec == Init /\ [][Next]_ccuVars

\* A goroutine that has something to do goes on: Stop, Suspend and Resume, an
\* operation of the catalogue (its calls have a deadline), and a held call whose
\* channel is closed or whose delay is over.  Nobody has to call, clear rules or
\* give up a call.
FairSpec ==
  /\ Spec
  /\ \A k \in Stops : WF_ccuVars(LifeRun /\ stops'[k] # stops[k])
  /\ WF_ccuVars(LifeRun /\ suspending' # suspending)
  /\ WF_ccuVars(LifeRun /\ resuming' # resuming)
  /\ \A n \in 1 .. MaxWork :
       WF_ccuVars(CatalogueRun /\ \E w \in work \ work' : w.n = n)
  /\ \A k \in Callers :
       WF_ccuVars(FaultRun /\ held'[k] # held[k]
                  /\ (held[k].in = "delay" \/ held[k].on \in gone))

-----------------------------------------------------------------------------
(* Properties                                                              *)

\* The state of every part has its type.  The mark of a LINK paramset outlives
\* its address (clearAddressCachesLocked).
CcuTypeOK ==
  /\ devices \subseteq Addresses
  /\ \A key \in DOMAIN overrides : key[2] \in Kinds(key[1])
  /\ poisoned \subseteq Addresses
  /\ \A key \in dirty : key[2] # "LINK" => key \in DOMAIN overrides
  /\ registered \subseteq Clients
  /\ \A w \in work : w.stage \in {"loaded", "ask", "asked", "push"} /\ w.n \in 1 .. started
  /\ release \in 0 .. releases
  /\ file = Torn \/ DOMAIN file \subseteq Addresses \X {"VALUES", "MASTER", "LINK"}
  /\ DOMAIN sessions \subseteq minted
  /\ Range(sysvars) \cup Range(sysvarByName) \subseteq 1 .. Len(objects)
  /\ Range(inbox) \subseteq Partners
=============================================================================
