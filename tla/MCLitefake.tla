----------------------------- MODULE MCLitefake -----------------------------
(* An instance of Litefake for TLC. *)
EXTENDS Litefake, TLC

CONSTANTS o1, o2, e, a, b, x, y, bad, ns1, ns2,
          p1, p2, p3, s1, s2, app1, app2, home, lamp, keeper, root, wide, sid1, u1,
          i1, i2, d1, d2, d3, ch1, ch2, heat, r1, r2

-----------------------------------------------------------------------------
\* Metadata: no document, and one whose deepest node holds an object, which has
\* more metadata than a request may leave it with (a seed is not measured).
Node(kids) == [label |-> x, kids |-> kids]
MCDocuments ==
  {[revision |-> 0, objects |-> <<>>, nodes |-> <<>>],
   [revision |-> 1,
    objects |-> o1 :> [name |-> x, enums |-> {<<e, a, b, a>>}, meta |-> {ns1, ns2}, orphaned |-> FALSE],
    nodes |-> (<<e>> :> Node(<<a>>)) @@ (<<e, a>> :> Node(<<b>>)) @@
              (<<e, a, b>> :> Node(<<a>>)) @@ (<<e, a, b, a>> :> Node(<<>>))]}

Patch(name, enums, put, null, replace) ==
  [name |-> name, enums |-> enums, hasMeta |-> put \cup null # {}, put |-> put, null |-> null,
   replace |-> replace]
MCPatches ==
  {Patch(y, Absent, {}, {}, TRUE),
   Patch(x, Absent, {ns1}, {}, FALSE), Patch(Absent, Absent, {ns2}, {}, FALSE),
   Patch(bad, Absent, {}, {}, FALSE)}

-----------------------------------------------------------------------------
\* Two instances on one box, the slug of one being the second name of the other;
\* the tokens of keeper and root, an administrator, both carry a slug as name; a
\* test may bring the secret of a paired token; wide has no scopes.
MCAddressOf == app1 :> home @@ app2 :> home
MCSlugOf == app1 :> <<lamp>> @@ app2 :> <<lamp, 2>>
Access(dev, names, sys) == [devices |-> dev, names |-> names, system |-> sys]
MCAccesses ==
  {Access("administer", "configure", "configure"), Access("read", "none", "none"),
   Access("none", "none", "none")}
MCWords == {lamp, 2}
Token(name, scopes) == [name |-> name, scopes |-> scopes]
MCSeedTokens ==
  keeper :> Token(<<lamp>>, {"rpc:operate"}) @@ root :> Token(<<lamp>>, {"*"})
MCTokenTables ==
  {keeper :> Token(<<keeper>>, {"rpc:admin", "system:read"})} \cup
  {id :> Token(<<lamp, 2>>, {"auth:admin"}) @@ MCSeedTokens : id \in {p1, p2, p3}}
MCAccountScopes == u1 :> {"rpc:configure"}
MCSecrets == {keeper, root, wide, p1, p2, p3, sid1}

-----------------------------------------------------------------------------
MCIfaceOf == d1 :> i1 @@ d2 :> i1 @@ d3 :> i2

Rpc(method, arg) == [method |-> method, arg |-> arg, list |-> NoList]
Multi(calls) == [method |-> "system.multicall", arg |-> "none", list |-> calls]
MCRpcCalls ==
  {Rpc("getValue", "none"), Rpc("putParamset", "VALUES"), Rpc("putParamset", "MASTER"),
   Rpc("logLevel", "none"), Rpc("logLevel", "5"), Rpc("init", "none"),
   Rpc("deleteDevice", "none"), Rpc("system.multicall", "none"),
   Multi(<<>>), Multi(<<Rpc("getValue", "none"), Rpc("init", "none")>>),
   Multi(<<Rpc("setValue", "none"), Rpc("logLevel", "missing"), Rpc("addLink", "none")>>),
   Multi(<<Rpc("setValue", "none"), Multi(<<Rpc("init", "none")>>), Rpc("ping", "none")>>),
   Multi(<<Multi(<<Multi(<<Rpc("deleteDevice", "none")>>), Malformed>>)>>),
   Multi(<<Rpc("init", "none"), Malformed, Rpc("addLink", "none")>>)}

MCCandidates == heat :> {ch1, ch2} @@ lamp :> {ch2}

-----------------------------------------------------------------------------
Budget(meta, pair, sd, prox, sys, box) ==
  [meta |-> meta, pair |-> pair, seed |-> sd, proxy |-> prox, sys |-> sys, box |-> box]

\* Ids of requests are interchangeable.
Sym == Permutations({p1, p2, p3})

\* One part alone and deep, then parts together.
MCBudgets ==
  {Budget(3, 0, 0, 0, 0, 0), Budget(0, 4, 0, 0, 0, 0), Budget(0, 0, 4, 0, 0, 0),
   Budget(0, 0, 0, 0, 4, 0), Budget(0, 1, 0, 2, 0, 0), Budget(1, 0, 2, 0, 0, 1),
   Budget(1, 1, 0, 0, 1, 0), Budget(1, 0, 0, 0, 1, 1), Budget(0, 0, 2, 1, 0, 1)}

\* For the seed alone.
MCSeedBudgets == {Budget(0, 0, 4, 0, 0, 0)}
=============================================================================
