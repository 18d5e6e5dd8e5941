------------------------------ MODULE RpcProxy ------------------------------
(***************************************************************************)
(* The XML-RPC proxy of the fake box of pkg/litefake (rpc.go): a call is   *)
(* checked against the scopes of its caller and then forwarded to an       *)
(* interface process, which executes it (internal/xmlrpc/mux.go).  The     *)
(* proxy looks one level into a system.multicall, the interface process    *)
(* executes multicalls in multicalls as well.  The scopes and the state of *)
(* the interface are read when the call arrives; tokens and interfaces may *)
(* change before it is forwarded and while it is executed.                 *)
(***************************************************************************)
EXTENDS StateSeed, Pairing

CONSTANTS
  Proxies,    \* concurrent calls
  Secrets,    \* credentials callers present
  RpcCalls,   \* calls: [method, arg, list]; list is the list a multicall brings
  NoList,     \* the list of a call that brings none, or more than a list
  Malformed,  \* an item of a list that is no call
  NoCall

\* The lists that a request can bring.
ASSUME CallAssumption ==
  \A c \in RpcCalls : c.list = NoList \/ c.list \in Seq(Range(c.list))

VARIABLES
  proxy,      \* the calls admitted, with what of them is still to execute
  reached     \* history: what was executed: scopes of the caller, the call, and
              \* whether the proxy looked at it

proxyVars == <<proxy, reached>>

ReadMethods == {"listDevices", "getValue", "getParamset", "ping"}
ConfigureMethods == {"setInstallMode", "addLink", "setMetadata"}

\* methodTier, of which a few methods stand for each tier; a call in a list may
\* come without parameters at all.
MethodTier(c) ==
  CASE c.method \in ReadMethods      -> "rpc:read"
    [] c.method = "logLevel"         -> IF c.arg \in {"none", "missing"} THEN "rpc:read"
                                        ELSE "rpc:configure"
    [] c.method = "setValue"         -> "rpc:operate"
    [] c.method = "putParamset"      -> IF c.arg = "VALUES" THEN "rpc:operate"
                                        ELSE "rpc:configure"
    [] c.method \in ConfigureMethods -> "rpc:configure"
    [] OTHER                         -> "rpc:admin"

IsMulticall(c) == c.method = "system.multicall"

\* unpackCalls: a multicall with a list of calls counts as those, of which
\* there may be none; any other counts as itself.
Unpacked(c) == IsMulticall(c) /\ c.list # NoList /\ Malformed \notin Range(c.list)

UnpackCalls(c) == IF Unpacked(c) THEN Range(c.list) ELSE {c}

\* Mutation: a multicall in a multicall needs no scope.
RefuseOuter(scopes, c) ==
  \E i \in UnpackCalls(c) : \/ i.method = "init"
                            \/ ~IsMulticall(i) /\ ~HasScope(scopes, MethodTier(i))

\* refuseCalls: init among the calls, or a call above the caller's scopes.
Refuse(scopes, c) ==
  \E i \in UnpackCalls(c) : i.method = "init" \/ ~HasScope(scopes, MethodTier(i))

\* handleXMLRPC up to the forward.
ProxyAdmit(p, secret, i, c) ==
  /\ proxy[p] = NoCall
  /\ Authorized(secret, "rpc:read")
  /\ ~Refuse(ScopesOf(secret), c)
  /\ ~iface[i].down
  /\ proxy' = [proxy EXCEPT ![p] =
                [scopes |-> ScopesOf(secret), iface |-> i, call |-> c, sent |-> FALSE, rest |-> <<c>>]]
  /\ UNCHANGED reached

\* forward: the interface process gets the call, or does not answer.
ProxyForward(p) ==
  /\ proxy[p] # NoCall
  /\ ~proxy[p].sent
  /\ proxy' \in {[proxy EXCEPT ![p].sent = TRUE], [proxy EXCEPT ![p] = NoCall]}
  /\ UNCHANGED reached

\* What a multicall dispatches: the calls before the first item that is none,
\* or has no parameters.
Dispatched(c) ==
  IF ~IsMulticall(c) \/ c.list = NoList THEN <<>>
  ELSE LET whole(i) == c.list[i] # Malformed /\ c.list[i].arg # "missing"
       IN SubSeq(c.list, 1, Cardinality({i \in DOMAIN c.list : \A j \in 1 .. i : whole(j)}))

\* Mux.Dispatch: one call after the other, those of a multicall in its place; a
\* call that fails stops nothing.
ProxyExecute(p) ==
  LET r == proxy[p] IN
  /\ r # NoCall
  /\ r.sent
  /\ IF r.rest = <<>>
     THEN /\ proxy' = [proxy EXCEPT ![p] = NoCall]
          /\ UNCHANGED reached
     ELSE LET c == Head(r.rest) IN
          /\ proxy' = [proxy EXCEPT ![p].rest = Dispatched(c) \o Tail(r.rest)]
          /\ reached' = reached \cup
               IF IsMulticall(c) THEN {}
               ELSE {[scopes |-> r.scopes, call |-> c, seen |-> c \in UnpackCalls(r.call)]}

ProxyInit ==
  /\ proxy = [p \in Proxies |-> NoCall]
  /\ reached = {}

\* Whatever an interface process executes, alone, in a multicall or in one
\* that is in a multicall, before an item that is no call or after it, is
\* within the scopes that its caller had when it was admitted; and no init
\* that the proxy has looked at is executed: what it does not look into takes
\* rpc:admin (methodTier, unpackCalls, refuseCalls, RegisterSystemMethods).
ProxyTiers ==
  \A r \in reached : /\ HasScope(r.scopes, MethodTier(r.call))
                     /\ r.call.method = "init" => ~r.seen
=============================================================================
