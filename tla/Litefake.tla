------------------------------ MODULE Litefake ------------------------------
(***************************************************************************)
(* The fake box of pkg/litefake put together (fake.go, knobs.go): the      *)
(* metadata API, pairing and logins, the XML-RPC proxy, the state seed and *)
(* the system API, behind the readiness gate and the scope each route      *)
(* needs, with the knobs of the test that drives the box.                  *)
(*                                                                         *)
(* The gate, the check of the scope and the handler behind them are one    *)
(* step here; what a handler does in several steps of its own is in the    *)
(* component's module.  Budgets bounds the calls of a behaviour, component *)
(* by component: a behaviour starts with one of the budgets and every call *)
(* takes one from its component's share.                                   *)
(***************************************************************************)
EXTENDS MetaStore, RpcProxy, LiteSystem

CONSTANTS
  Patches,    \* object patches a client sends, enums apart
  NewNames,   \* names it gives to enums and nodes
  Budgets     \* bound: calls per component, one record per kind of behaviour

\* What bodies decode to.
ASSUME BodyAssumption ==
  /\ NewNames \subseteq Labels \cup {BadName}
  /\ Patches \subseteq ObjectPatch

VARIABLES
  ready,      \* Fake.ready
  closed,     \* Fake.done is closed
  left        \* what is left of the budget

boxVars == <<ready, closed>>
vars == <<metaVars, pairVars, seedVars, proxyVars, sysVars, boxVars, left>>

Spend(part) ==
  /\ left[part] > 0
  /\ left' = [left EXCEPT ![part] = @ - 1]

\* readinessGate, and authorize for a caller with the scope of the route.
May(scope) == ready /\ ~closed /\ {s \in Secrets : Authorized(s, scope)} # {}

NewPaths == {p \in DOMAIN nodes : Len(p) > 1}

\* The object writes of clients: a patch as it is, or with one enum path.
Writes == Patches \cup
  {[p EXCEPT !.enums = {path}] : p \in {q \in Patches : q.name # BadName}, path \in NewPaths}

MetaWrite ==
  \E m \in {Absent, 1} :
  \/ \E ref \in Refs, p \in Writes : ObjectWrite(m, ref, p)
  \/ \E ref \in Refs : ObjectDelete(m, ref)
  \/ \E ref, gone \in Refs, p \in Writes : Bulk(m, [r \in {ref} |-> p], <<gone>>)
  \/ \E e \in Enums, name \in NewNames \cup {BadName} : EnumCreate(m, e, name)
  \/ \E e \in Enums, name \in NewNames : EnumPatch(m, e, name)
  \/ \E e \in Enums, strip \in BOOLEAN : EnumDelete(m, e, strip)
  \/ \E parent \in DOMAIN nodes, id \in NodeIds, at \in {Absent, 0} :
       \E name \in NewNames : NodeCreate(m, parent[1], parent, id, name, at)
  \/ \E path \in DOMAIN nodes, parent \in DOMAIN nodes \cup {Absent} :
       \E name \in NewNames \cup {Absent}, at \in {Absent, 0, 2} :
         NodePatch(m, path, name, parent, at)
  \/ \E path \in DOMAIN nodes, strip \in BOOLEAN : NodeDelete(m, path, strip)

MetaCall ==
  /\ Spend("meta")
  /\ \/ May("meta:write") /\ MetaWrite
     \/ \E ref \in Refs, flag \in BOOLEAN : SetOrphaned(ref, flag)
     \/ \E doc \in Documents : Seed(doc)
     \/ /\ May("meta:read")
        /\ \E s \in MetaStreams, since \in {Absent} \cup (-1 .. revision + 1) :
             MetaAttach(s, since)
  /\ UNCHANGED <<pairVars, seedVars, proxyVars, sysVars, boxVars>>

MetaRun ==
  /\ MetaStreamStep
  /\ UNCHANGED <<pairVars, seedVars, proxyVars, sysVars, boxVars, left>>

PairCall ==
  /\ Spend("pair")
  /\ \/ /\ ready
        /\ ~closed
        /\ \/ \E id \in PairIds, app \in Apps, access \in Accesses : Ask(id, app, access)
           \/ \E id \in PairIds, nonce \in BOOLEAN : PollNow(id, nonce)
           \/ \E p \in Pollers, id \in PairIds, nonce \in BOOLEAN : PollWait(p, id, nonce)
           \/ \E id \in PairIds : Withdraw(id)
           \/ \E sid \in Sids, user \in Users : LoginCheck(sid, user)
           \/ \E sid \in Sids : Logout(sid)
     \/ \E id \in PairIds, match \in BOOLEAN : Approve(id, match)
     \/ \E id \in PairIds : Reject(id)
     \/ ListPairings
     \/ \E enabled \in BOOLEAN : SetPairingEnabled(enabled)
     \/ \E table \in TokenTables : SetTokens(table)
     \/ \E users \in SUBSET Users : SetAccounts(users)
  /\ UNCHANGED <<metaVars, seedVars, proxyVars, sysVars, boxVars>>

PairRun ==
  /\ \/ \E p \in Pollers : PollWake(p)
     \/ \E sid \in Sids : LoginStore(sid)
     \/ left["pair"] > 0 /\ Tick
  /\ UNCHANGED <<metaVars, seedVars, proxyVars, sysVars, boxVars, left>>

SeedCall ==
  /\ Spend("seed")
  /\ \/ \E d \in Datapoints : PublishEvent(d)
     \/ \E i \in Ifaces, down \in BOOLEAN : SetInterfaceDown(i, down)
     \/ \E i \in Ifaces : ~closed /\ RestartInterface(i)
     \/ ~closed /\ RestartRing
     \/ May("rpc:read") /\ \E c \in Seeders : ReadPosition(c)
  /\ UNCHANGED <<metaVars, pairVars, proxyVars, sysVars, boxVars>>

SeedRun ==
  /\ SeedStep
  /\ UNCHANGED <<metaVars, pairVars, proxyVars, sysVars, boxVars, left>>

\* RestartBoot once the ring and the values are through.
RestartRest ==
  /\ RestartSubscribe
  /\ MetaRestart
  /\ UNCHANGED <<pairVars, proxyVars, sysVars, boxVars, left>>

ProxyCall ==
  /\ Spend("proxy")
  /\ ready
  /\ ~closed
  /\ \E p \in Proxies, s \in Secrets, i \in Ifaces, c \in RpcCalls : ProxyAdmit(p, s, i, c)
  /\ UNCHANGED <<metaVars, pairVars, seedVars, sysVars, boxVars>>

ProxyRun ==
  /\ \E p \in Proxies : ProxyForward(p) \/ ProxyExecute(p)
  /\ UNCHANGED <<metaVars, pairVars, seedVars, sysVars, boxVars, left>>

SysCall ==
  /\ Spend("sys")
  /\ \/ /\ May("system:write")
        /\ \/ \E type \in GroupTypes, ids \in SUBSET Channels : GroupCreate(type, ids)
           \/ \E g \in 1 .. MaxGroups, ids \in SUBSET Channels : GroupUpdate(g, ids)
           \/ \E g \in 1 .. MaxGroups : GroupDelete(g)
     \/ May("power") /\ (UpdateDownload \/ RestoreCheck \/ \E f \in 1 .. MaxUploads : RestoreApply(f))
     \/ May("backup") /\ BackupRun
     \/ \E r \in Releases \cup {NoRelease} : SetUpdateAvailable(r)
  /\ UNCHANGED <<metaVars, pairVars, seedVars, proxyVars, boxVars>>

\* SetReady; going not ready drops the streams.
SetReady(r) ==
  /\ ready' = r
  /\ IF ready /\ ~r THEN MetaDropStreams ELSE UNCHANGED metaVars
  /\ UNCHANGED closed

\* Close: the streams are dropped, and nothing is served any more.
Close ==
  /\ ~closed
  /\ closed' = TRUE
  /\ MetaDropStreams
  /\ UNCHANGED ready

BoxCall ==
  /\ Spend("box")
  /\ (\E r \in BOOLEAN : SetReady(r)) \/ Close
  /\ UNCHANGED <<pairVars, seedVars, proxyVars, sysVars>>

\* Start: the options in force, every interface subscribed to.
Init ==
  /\ MetaInit
  /\ PairInit
  /\ SeedInit
  /\ ProxyInit
  /\ SysInit
  /\ ready \in BOOLEAN
  /\ closed = FALSE
  /\ left \in Budgets

Next ==
  \/ MetaCall \/ MetaRun
  \/ PairCall \/ PairRun
  \/ SeedCall \/ SeedRun \/ RestartRest
  \/ ProxyCall \/ ProxyRun
  \/ SysCall
  \/ BoxCall

Spec == Init /\ [][Next]_vars

-----------------------------------------------------------------------------
(* Properties                                                              *)

\* The state of every part has its type.
LiteTypeOK ==
  /\ MetaTypeOK
  /\ DOMAIN sessions \subseteq Sids
  /\ DOMAIN requests \subseteq DOMAIN made
  /\ \A p \in Pollers : poll[p] \in PairIds \cup {NoRequest}
  /\ DOMAIN values = Kept
  /\ \A p \in Proxies : proxy[p] = NoCall \/ proxy[p].iface \in Ifaces
  /\ DOMAIN groups \subseteq 1 .. next
  /\ staged \in Releases \cup {NoRelease}
  /\ Range(applied) \subseteq uploads
=============================================================================
