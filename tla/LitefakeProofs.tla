--------------------------- MODULE LitefakeProofs ---------------------------
(***************************************************************************)
(* Proofs about Litefake, for every set of apps, requests, pollers, tokens *)
(* and accounts and every budget of calls.                                 *)
(***************************************************************************)
EXTENDS Litefake, FiniteSetTheorems, SequenceTheorems, NaturalsInduction, WellFoundedInduction, TLAPS

-----------------------------------------------------------------------------
(* The invariant                                                           *)

\* A request whose token was handed out is approved.
IsRequest(r) ==
  /\ DOMAIN r = {"app", "access", "created", "state", "revealed", "handedOut", "approvedAt"}
  /\ r.state \in {"pending", "approved", "rejected", "expired"}
  /\ r.handedOut \in BOOLEAN
  /\ r.handedOut => r.state = "approved"

PairInv ==
  /\ DOMAIN made \subseteq PairIds
  /\ DOMAIN requests \subseteq DOMAIN made
  /\ \A id \in DOMAIN requests : IsRequest(requests[id])
  /\ handed \in [PairIds -> Nat]

Implements == [Contract!Step]_<<PairingPhase, handed>>

\* A table that may follow: some requests may be gone, and pending ones may
\* have left that state.
Moved(table) ==
  /\ DOMAIN table \subseteq DOMAIN requests
  /\ \A id \in DOMAIN table :
       /\ IsRequest(table[id])
       /\ table[id].handedOut <=> requests[id].handedOut
       /\ table[id].state = requests[id].state \/ requests[id].state = "pending"

\* One in which pending requests have done nothing but expire.
Aged(table) ==
  /\ Moved(table)
  /\ \A id \in DOMAIN table : table[id].state \in {requests[id].state, "expired"}

-----------------------------------------------------------------------------
(* What the steps are built from                                           *)

LEMMA ExpireAges ==
  ASSUME PairInv
  PROVE  Aged(Expire(requests))
<1> DEFINE held == Expire(requests)
<1>1. /\ DOMAIN held \subseteq DOMAIN requests
      /\ \A id \in DOMAIN held :
           \/ held[id] = requests[id]
           \/ /\ requests[id].state = "pending"
              /\ held[id] = [requests[id] EXCEPT !.state = "expired"]
  BY DEF Expire
<1> HIDE DEF held
<1>2. ASSUME NEW id \in DOMAIN held
      PROVE  /\ IsRequest(held[id])
             /\ held[id].handedOut <=> requests[id].handedOut
             /\ \/ held[id].state = requests[id].state
                \/ requests[id].state = "pending" /\ held[id].state = "expired"
  <2>1. IsRequest(requests[id])
    BY <1>1, <1>2 DEF PairInv
  <2> QED
    BY <1>1, <1>2, <2>1 DEF IsRequest
<1> QED
  BY <1>1, <1>2 DEF Aged, Moved, held

LEMMA PolledAges ==
  ASSUME PairInv, NEW id, NEW nonce
  PROVE  Aged(Polled(id, nonce))
<1> DEFINE held == Expire(requests)
<1>1. Aged(held)
  BY ExpireAges
<1> HIDE DEF held
<1>2. CASE Polled(id, nonce) = held
  BY <1>1, <1>2
<1>3. CASE id \in DOMAIN held /\ Polled(id, nonce) = [held EXCEPT ![id].revealed = TRUE]
  <2> DEFINE polled == [held EXCEPT ![id].revealed = TRUE]
  <2>1. /\ DOMAIN polled = DOMAIN held
        /\ \A i \in DOMAIN held : polled[i] = IF i = id THEN [held[id] EXCEPT !.revealed = TRUE]
                                              ELSE held[i]
    BY <1>3
  <2>3. Polled(id, nonce) = polled
    BY <1>3
  <2> HIDE DEF polled
  <2>2. \A i \in DOMAIN held : /\ IsRequest(polled[i])
                               /\ polled[i].state = held[i].state
                               /\ polled[i].handedOut <=> held[i].handedOut
    BY <1>1, <2>1 DEF Aged, Moved, IsRequest
  <2> QED
    <3>1. Aged(polled)
      BY <1>1, <2>1, <2>2 DEF Aged, Moved
    <3> QED
      BY <2>3, <3>1
<1> QED
  BY <1>2, <1>3 DEF Polled, held

-----------------------------------------------------------------------------
(* The steps, as the contract sees them                                    *)

\* A step that only moves requests.
LEMMA MoveStep ==
  ASSUME PairInv, Moved(requests'), UNCHANGED <<made, handed>>
  PROVE  PairInv' /\ Contract!Step
<1>1. PairInv'
  BY DEF PairInv, Moved
<1>2. \A id \in PairIds :
        /\ PairingPhase'[id] # PairingPhase[id]
             => <<PairingPhase[id], PairingPhase'[id]>> \in Contract!Arrows
        /\ ~(PairingPhase[id] = "approved" /\ PairingPhase'[id] = "given")
  BY DEF PairInv, Moved, IsRequest, PairingPhase, Contract!Arrows
<1>3. PairingPhase' \in [PairIds -> {"new", "pending", "approved", "given", "rejected", "expired", "gone"}]
  BY <1>1 DEF PairInv, IsRequest, PairingPhase
<1>4. \A id \in PairIds : handed'[id] = handed[id] + 0
  BY DEF PairInv
<1> QED
  BY <1>1, <1>2, <1>3, <1>4 DEF Contract!Step

\* A step that hands out a token.
LEMMA HandOutStep ==
  ASSUME PairInv, NEW table, NEW id, Aged(table), UNCHANGED made,
         id \in DOMAIN table, table[id].state = "approved", ~table[id].handedOut,
         requests' = [table EXCEPT ![id].handedOut = TRUE],
         handed' = [handed EXCEPT ![id] = @ + 1]
  PROVE  PairInv' /\ Contract!Step
<1>1. /\ DOMAIN requests' = DOMAIN table
      /\ \A i \in DOMAIN table : requests'[i] = IF i = id THEN [table[id] EXCEPT !.handedOut = TRUE]
                                                ELSE table[i]
  OBVIOUS
<1>2. /\ DOMAIN table \subseteq DOMAIN requests
      /\ requests[id].state = "approved" /\ ~requests[id].handedOut
  BY DEF Aged, Moved
<1>3. \A i \in DOMAIN table : /\ IsRequest(requests'[i])
                              /\ requests'[i].state = table[i].state
                              /\ i # id => (requests'[i].handedOut <=> requests[i].handedOut)
                              /\ i = id => requests'[i].handedOut
  BY <1>1 DEF Aged, Moved, IsRequest
<1>4. id \in PairIds
  BY <1>2 DEF PairInv
<1>5. PairInv'
  <2>1. handed' \in [PairIds -> Nat]
    BY <1>4 DEF PairInv
  <2>2. DOMAIN requests' \subseteq DOMAIN requests
    BY <1>1, <1>2
  <2> QED
    BY <1>1, <1>3, <2>1, <2>2 DEF PairInv
<1>6. \A i \in PairIds \ {id} :
        /\ PairingPhase'[i] # PairingPhase[i]
             => <<PairingPhase[i], PairingPhase'[i]>> \in Contract!Arrows
        /\ ~(PairingPhase[i] = "approved" /\ PairingPhase'[i] = "given")
  BY <1>1, <1>2, <1>3 DEF Aged, Moved, PairInv, IsRequest, PairingPhase, Contract!Arrows
<1>7. PairingPhase[id] = "approved" /\ PairingPhase'[id] = "given"
  BY <1>1, <1>2, <1>3, <1>4 DEF PairInv, PairingPhase
<1>8. PairingPhase' \in [PairIds -> {"new", "pending", "approved", "given", "rejected", "expired", "gone"}]
  BY <1>5 DEF PairInv, IsRequest, PairingPhase
<1>9. \A i \in PairIds : handed'[i] = handed[i] + (IF i = id THEN 1 ELSE 0)
  BY DEF PairInv
<1>10. <<"approved", "given">> \in Contract!Arrows
  BY DEF Contract!Arrows
<1> QED
  BY <1>5, <1>6, <1>7, <1>8, <1>9, <1>10 DEF Contract!Step

\* A step that takes a request in.
LEMMA AskStep ==
  ASSUME PairInv, NEW id \in PairIds, NEW app, NEW access, Ask(id, app, access)
  PROVE  PairInv' /\ Contract!Step
<1> DEFINE held == Expire(requests)
           new == NewRequest(app, access)
<1>1. Aged(held)
  BY ExpireAges
<1>2. /\ id \notin DOMAIN made
      /\ requests' = Extended(held, id, new)
      /\ made' = Extended(made, id, [app |-> app, at |-> clock])
      /\ handed' = handed
  BY DEF Ask, requestVars
<1>3. IsRequest(new) /\ new.state = "pending" /\ ~new.handedOut
  BY DEF NewRequest, IsRequest
<1> HIDE DEF held, new
<1>4. /\ DOMAIN made' = DOMAIN made \cup {id}
      /\ DOMAIN requests' = DOMAIN held \cup {id}
      /\ \A i \in DOMAIN requests' : requests'[i] = IF i = id THEN new ELSE held[i]
  BY <1>2 DEF Extended
<1>5. PairInv'
  BY <1>1, <1>2, <1>3, <1>4 DEF PairInv, Aged, Moved
<1>6. \A i \in PairIds \ {id} :
        /\ PairingPhase'[i] # PairingPhase[i]
             => <<PairingPhase[i], PairingPhase'[i]>> \in Contract!Arrows
        /\ ~(PairingPhase[i] = "approved" /\ PairingPhase'[i] = "given")
  BY <1>1, <1>4 DEF Aged, Moved, PairInv, IsRequest, PairingPhase, Contract!Arrows
<1>7. PairingPhase[id] = "new" /\ PairingPhase'[id] = "pending"
  BY <1>2, <1>3, <1>4 DEF PairingPhase
<1>8. PairingPhase' \in [PairIds -> {"new", "pending", "approved", "given", "rejected", "expired", "gone"}]
  BY <1>5 DEF PairInv, IsRequest, PairingPhase
<1>9. \A i \in PairIds : handed'[i] = handed[i] + 0
  BY <1>2 DEF PairInv
<1>10. <<"new", "pending">> \in Contract!Arrows
  BY DEF Contract!Arrows
<1> QED
  BY <1>5, <1>6, <1>7, <1>8, <1>9, <1>10 DEF Contract!Step

\* The answer to a poll.
LEMMA AnswerStep ==
  ASSUME PairInv, NEW table, NEW id, Aged(table), Answer(table, id), UNCHANGED made
  PROVE  PairInv' /\ Contract!Step
<1>1. CASE requests' = table /\ UNCHANGED handed
  BY <1>1, MoveStep DEF Aged
<1>2. CASE id \in DOMAIN table /\ table[id].state = "approved" /\ ~table[id].handedOut
  BY <1>2, HandOutStep DEF Answer
<1> QED
  BY <1>1, <1>2 DEF Answer

\* A verdict on a pending request.
LEMMA VerdictStep ==
  ASSUME PairInv, NEW table, NEW id, NEW r, Aged(table), UNCHANGED <<made, handed>>,
         id \in DOMAIN table, table[id].state = "pending",
         IsRequest(r), ~r.handedOut,
         requests' = [table EXCEPT ![id] = r]
  PROVE  PairInv' /\ Contract!Step
<1>1. /\ DOMAIN requests' = DOMAIN table
      /\ \A i \in DOMAIN table : requests'[i] = IF i = id THEN r ELSE table[i]
  OBVIOUS
<1>2. requests[id].state = "pending" /\ ~requests[id].handedOut
  BY DEF Aged, Moved, PairInv, IsRequest
<1>3. Moved(requests')
  BY <1>1, <1>2 DEF Aged, Moved
<1> QED
  BY <1>3, MoveStep

LEMMA ApproveStep ==
  ASSUME PairInv, NEW id, NEW match \in BOOLEAN, Approve(id, match)
  PROVE  PairInv' /\ Contract!Step
<1> DEFINE held == Expire(requests)
           approved == [held[id] EXCEPT !.state = "approved", !.approvedAt = clock]
           rejected == [held[id] EXCEPT !.state = "rejected"]
<1>1. Aged(held)
  BY ExpireAges
<1>2. /\ id \in DOMAIN held
      /\ held[id].state = "pending"
      /\ UNCHANGED <<made, handed>>
      /\ requests' = [held EXCEPT ![id] = approved] \/ requests' = [held EXCEPT ![id] = rejected]
  BY DEF Approve, Pending
<1> HIDE DEF held
<1>3. IsRequest(held[id]) /\ ~held[id].handedOut
  BY <1>1, <1>2 DEF Aged, Moved, IsRequest
<1>4. /\ IsRequest(approved) /\ ~approved.handedOut
      /\ IsRequest(rejected) /\ ~rejected.handedOut
  BY <1>3 DEF IsRequest
<1> QED
  BY <1>1, <1>2, <1>4, VerdictStep

LEMMA RejectStep ==
  ASSUME PairInv, NEW id, Reject(id)
  PROVE  PairInv' /\ Contract!Step
<1> DEFINE rejected == [requests[id] EXCEPT !.state = "rejected"]
<1>1. Aged(requests)
  BY DEF PairInv, Aged, Moved
<1>2. /\ id \in DOMAIN requests
      /\ requests[id].state = "pending"
      /\ UNCHANGED <<made, handed>>
      /\ requests' = [requests EXCEPT ![id] = rejected]
  BY DEF Reject, Pending
<1>3. IsRequest(rejected) /\ ~rejected.handedOut
  BY <1>2 DEF PairInv, IsRequest
<1> HIDE DEF rejected
<1> QED
  BY <1>1, <1>2, <1>3, VerdictStep

LEMMA WithdrawStep ==
  ASSUME PairInv, NEW id, Withdraw(id)
  PROVE  PairInv' /\ Contract!Step
<1> DEFINE held == Expire(requests)
<1>1. Aged(held)
  BY ExpireAges
<1>2. requests' = Restrict(held, DOMAIN held \ {id}) /\ UNCHANGED <<made, handed>>
  BY DEF Withdraw
<1> HIDE DEF held
<1>3. Moved(requests')
  BY <1>1, <1>2 DEF Aged, Moved, Restrict
<1> QED
  BY <1>2, <1>3, MoveStep

-----------------------------------------------------------------------------
(* The specification                                                       *)

LEMMA PairCallStep ==
  ASSUME PairInv, PairCall
  PROVE  PairInv' /\ Implements
<1>1. CASE \E id \in PairIds, app \in Apps, access \in Accesses : Ask(id, app, access)
  BY <1>1, AskStep DEF Implements
<1>2. CASE \E id \in PairIds, nonce \in BOOLEAN : PollNow(id, nonce)
  <2>1. PICK id, nonce : PollNow(id, nonce)
    BY <1>2
  <2>2. Aged(Polled(id, nonce)) /\ Answer(Polled(id, nonce), id) /\ UNCHANGED made
    BY <2>1, PolledAges DEF PollNow
  <2> QED
    BY <2>2, AnswerStep DEF Implements
<1>3. CASE \E p \in Pollers, id \in PairIds, nonce \in BOOLEAN : PollWait(p, id, nonce)
  <2>1. PICK p, id, nonce : PollWait(p, id, nonce)
    BY <1>3
  <2>2. Moved(requests') /\ UNCHANGED <<made, handed>>
    BY <2>1, PolledAges DEF PollWait, Aged
  <2> QED
    BY <2>2, MoveStep DEF Implements
<1>4. CASE \E id \in PairIds : Withdraw(id)
  BY <1>4, WithdrawStep DEF Implements
<1>5. CASE \E id \in PairIds, match \in BOOLEAN : Approve(id, match)
  BY <1>5, ApproveStep DEF Implements
<1>6. CASE \E id \in PairIds : Reject(id)
  BY <1>6, RejectStep DEF Implements
<1>7. CASE ListPairings
  <2>1. Moved(requests') /\ UNCHANGED <<made, handed>>
    BY <1>7, ExpireAges DEF ListPairings, Aged
  <2> QED
    BY <2>1, MoveStep DEF Implements
<1>8. CASE UNCHANGED <<made, requests, handed>>
  BY <1>8 DEF PairInv, Implements, PairingPhase
<1> QED
  BY <1>1, <1>2, <1>3, <1>4, <1>5, <1>6, <1>7, <1>8
  DEF PairCall, LoginCheck, Logout, SetPairingEnabled, SetTokens, SetAccounts, requestVars

LEMMA PairRunStep ==
  ASSUME PairInv, PairRun
  PROVE  PairInv' /\ Implements
<1>1. CASE \E p \in Pollers : PollWake(p)
  <2>1. PICK p \in Pollers : PollWake(p)
    BY <1>1
  <2>2. Aged(Expire(requests)) /\ Answer(Expire(requests), poll[p]) /\ UNCHANGED made
    BY <2>1, ExpireAges DEF PollWake
  <2> QED
    BY <2>2, AnswerStep DEF Implements
<1>2. CASE UNCHANGED <<made, requests, handed>>
  BY <1>2 DEF PairInv, Implements, PairingPhase
<1> QED
  BY <1>1, <1>2 DEF PairRun, LoginStore, Tick, requestVars

\* No other part of the box touches the pairing.
LEMMA OthersLeavePairing ==
  ASSUME [Next]_vars, ~(PairCall \/ PairRun)
  PROVE  UNCHANGED <<made, requests, handed>>
BY DEF Next, MetaCall, MetaRun, SeedCall, SeedRun, RestartRest, ProxyCall, ProxyRun, SysCall,
       BoxCall, vars, pairVars, requestVars

LEMMA PairStep ==
  ASSUME PairInv, [Next]_vars
  PROVE  PairInv' /\ Implements
<1>1. CASE PairCall
  BY <1>1, PairCallStep
<1>2. CASE PairRun
  BY <1>2, PairRunStep
<1>3. CASE ~(PairCall \/ PairRun)
  BY <1>3, OthersLeavePairing DEF PairInv, Implements, PairingPhase
<1> QED
  BY <1>1, <1>2, <1>3

LEMMA PairAlways == Spec => []PairInv
<1>1. Init => PairInv
  BY DEF Init, PairInit, PairInv
<1> QED
  BY <1>1, PairStep, PTL DEF Spec

\* The token of an approved request reaches one poll only, and a request takes
\* no way but the ones of PairingContract, for every number of apps, requests
\* and polls that wait (handlePairingPoll, expireLocked, ApprovePairing).
THEOREM PairingKeepsContract == Spec => PairingImplements
<1>1. Init => Contract!Init
  BY DEF Init, PairInit, Contract!Init, PairingPhase
<1>2. PairInv /\ [Next]_vars => [Contract!Step]_<<PairingPhase, handed>>
  BY PairStep DEF Implements
<1> QED
  BY <1>1, <1>2, PairAlways, PTL DEF Spec, PairingImplements, Contract!Spec

-----------------------------------------------------------------------------
(* What the proxy lets through                                             *)

Permitted(scopes, c) == c.method # "init" /\ HasScope(scopes, MethodTier(c))

Trusted(scopes) == HasScope(scopes, "rpc:admin")

\* A call that was admitted was checked against the scopes it carries; what is
\* left of it is what the proxy has seen, or its caller may do everything.
Checked(r) ==
  /\ DOMAIN r = {"scopes", "iface", "call", "sent", "rest"}
  /\ r.call \in RpcCalls
  /\ \A c \in UnpackCalls(r.call) : Permitted(r.scopes, c)
  /\ Trusted(r.scopes) \/ r.rest \in Seq({r.call} \cup UnpackCalls(r.call))

Fair(r) ==
  /\ HasScope(r.scopes, MethodTier(r.call))
  /\ r.call.method = "init" => ~r.seen

ProxyInv ==
  /\ DOMAIN proxy = Proxies
  /\ \A p \in Proxies : proxy[p] # NoCall => Checked(proxy[p])
  /\ \A r \in reached : Fair(r)

\* rpc:admin implies every tier.
LEMMA AdminMay ==
  ASSUME NEW scopes, Trusted(scopes), NEW c
  PROVE  HasScope(scopes, MethodTier(c))
<1>1. MethodTier(c) \in {"rpc:read", "rpc:operate", "rpc:configure", "rpc:admin"}
  BY DEF MethodTier
<1>2. PICK s \in scopes : s = "*" \/ s = "rpc:admin" \/ "rpc:admin" \in Implied(s)
  BY DEF Trusted, HasScope
<1>3. "rpc:admin" \notin Implied(s)
  BY DEF Implied
<1>4. s = "rpc:admin" => Implied(s) = {"rpc:configure", "rpc:operate", "rpc:read"}
  BY DEF Implied
<1> QED
  BY <1>1, <1>2, <1>3, <1>4 DEF HasScope

\* Of a caller that may not do everything there is nothing to execute but what
\* the proxy has seen: no multicall is among it.
LEMMA OnlySeen ==
  ASSUME NEW scopes, ~Trusted(scopes), NEW c \in RpcCalls,
         \A i \in UnpackCalls(c) : Permitted(scopes, i),
         NEW d \in {c} \cup UnpackCalls(c)
  PROVE  /\ IsMulticall(d) \/ d \in UnpackCalls(c)
         /\ Dispatched(d) \in Seq({c} \cup UnpackCalls(c))
<1>1. \A i \in UnpackCalls(c) : ~IsMulticall(i)
  <2> SUFFICES ASSUME NEW i \in UnpackCalls(c), IsMulticall(i) PROVE FALSE
    OBVIOUS
  <2>1. MethodTier(i) = "rpc:admin"
    BY DEF MethodTier, IsMulticall, ReadMethods, ConfigureMethods
  <2> QED
    BY <2>1 DEF Permitted, Trusted
<1>2. CASE d \in UnpackCalls(c)
  BY <1>1, <1>2 DEF Dispatched
<1>3. CASE d \notin UnpackCalls(c)
  <2>1. d = c /\ Unpacked(c)
    BY <1>3 DEF UnpackCalls
  <2>2. UnpackCalls(c) = Range(c.list) /\ c.list \in Seq(Range(c.list))
    BY <2>1, CallAssumption DEF UnpackCalls, Unpacked
  <2> DEFINE whole(i) == c.list[i] # Malformed /\ c.list[i].arg # "missing"
             before == {i \in DOMAIN c.list : \A j \in 1 .. i : whole(j)}
  <2>3. DOMAIN c.list = 1 .. Len(c.list) /\ Len(c.list) \in Nat
    BY <2>2
  <2>4. before \subseteq 1 .. Len(c.list)
    BY <2>3
  <2>5. Cardinality(before) \in Nat /\ Cardinality(before) <= Len(c.list)
    <3> HIDE DEF before
    <3>1. IsFiniteSet(1 .. Len(c.list)) /\ Cardinality(1 .. Len(c.list)) = Len(c.list)
      BY <2>3, FS_Interval
    <3>2. before \in SUBSET (1 .. Len(c.list))
      BY <2>4
    <3>3. IsFiniteSet(before) /\ Cardinality(before) <= Cardinality(1 .. Len(c.list))
      BY <3>1, <3>2, FS_Subset
    <3>4. Cardinality(before) \in Nat
      BY <3>3, FS_CardinalityType
    <3> QED
      BY <3>1, <3>3, <3>4
  <2>6. Dispatched(c) = SubSeq(c.list, 1, Cardinality(before))
    BY <2>1 DEF Dispatched, Unpacked
  <2> HIDE DEF before
  <2>7. SubSeq(c.list, 1, Cardinality(before)) \in Seq(Range(c.list))
    BY <2>2, <2>3, <2>5
  <2>8. SubSeq(c.list, 1, Cardinality(before)) \in Seq({c} \cup Range(c.list))
    BY <2>7, SeqMonotonic
  <2> QED
    BY <2>1, <2>2, <2>6, <2>8 DEF Unpacked
<1> QED
  BY <1>2, <1>3

LEMMA AdmitKeeps ==
  ASSUME ProxyInv, NEW p \in Proxies, NEW s, NEW i, NEW c \in RpcCalls, ProxyAdmit(p, s, i, c)
  PROVE  ProxyInv'
<1> DEFINE entry == [scopes |-> ScopesOf(s), iface |-> i, call |-> c, sent |-> FALSE, rest |-> <<c>>]
<1>1. \A inner \in UnpackCalls(c) : Permitted(ScopesOf(s), inner)
  BY DEF ProxyAdmit, Refuse, Permitted
<1>2. /\ DOMAIN proxy' = Proxies
      /\ \A q \in Proxies : proxy'[q] = IF q = p THEN entry ELSE proxy[q]
      /\ reached' = reached
  BY DEF ProxyAdmit, ProxyInv
<1>3. Checked(entry)
  BY <1>1 DEF Checked
<1> HIDE DEF entry
<1> QED
  BY <1>2, <1>3 DEF ProxyInv

LEMMA ForwardKeeps ==
  ASSUME ProxyInv, NEW p \in Proxies, ProxyForward(p)
  PROVE  ProxyInv'
<1> DEFINE r == [proxy[p] EXCEPT !.sent = TRUE]
<1>1. Checked(r)
  BY DEF ProxyForward, ProxyInv, Checked
<1>2. /\ proxy' = [proxy EXCEPT ![p] = r] \/ proxy' = [proxy EXCEPT ![p] = NoCall]
      /\ reached' = reached
  BY DEF ProxyForward
<1> HIDE DEF r
<1> QED
  BY <1>1, <1>2 DEF ProxyInv

LEMMA ExecuteKeeps ==
  ASSUME ProxyInv, NEW p \in Proxies, ProxyExecute(p)
  PROVE  ProxyInv'
<1> DEFINE r == proxy[p]
           c == Head(r.rest)
           rest == Dispatched(c) \o Tail(r.rest)
           later == [r EXCEPT !.rest = rest]
           done == [scopes |-> r.scopes, call |-> c, seen |-> c \in UnpackCalls(r.call)]
<1>1. Checked(r)
  BY DEF ProxyExecute, ProxyInv
<1>2. CASE r.rest = <<>>
  BY <1>2 DEF ProxyExecute, ProxyInv
<1>3. CASE r.rest # <<>>
  <2>1. /\ DOMAIN proxy' = Proxies
        /\ \A q \in Proxies : proxy'[q] = IF q = p THEN later ELSE proxy[q]
        /\ reached' = reached \cup (IF IsMulticall(c) THEN {} ELSE {done})
    BY <1>3 DEF ProxyExecute, ProxyInv
  <2>2. Checked(later) /\ (IsMulticall(c) \/ Fair(done))
    <3>1. later.rest = rest /\ later.scopes = r.scopes /\ later.call = r.call
          /\ DOMAIN later = {"scopes", "iface", "call", "sent", "rest"}
      BY <1>1 DEF Checked
    <3>2. c \in UnpackCalls(r.call) => c.method # "init"
      BY <1>1 DEF Checked, Permitted
    <3>3. CASE Trusted(r.scopes)
      <4>1. HasScope(r.scopes, MethodTier(c))
        BY <3>3, AdminMay
      <4> HIDE DEF later, rest, c
      <4> QED
        BY <1>1, <3>1, <3>2, <3>3, <4>1 DEF Checked, Fair
    <3>4. CASE ~Trusted(r.scopes)
      <4>1. r.rest \in Seq({r.call} \cup UnpackCalls(r.call))
        BY <1>1, <3>4 DEF Checked
      <4>2. /\ c \in {r.call} \cup UnpackCalls(r.call)
            /\ Tail(r.rest) \in Seq({r.call} \cup UnpackCalls(r.call))
        BY <1>3, <4>1, HeadTailProperties
      <4>3. /\ IsMulticall(c) \/ c \in UnpackCalls(r.call)
            /\ Dispatched(c) \in Seq({r.call} \cup UnpackCalls(r.call))
        BY <1>1, <3>4, <4>2, OnlySeen DEF Checked
      <4>4. rest \in Seq({r.call} \cup UnpackCalls(r.call))
        BY <4>2, <4>3, ConcatProperties
      <4>5. c \in UnpackCalls(r.call) => HasScope(r.scopes, MethodTier(c))
        BY <1>1 DEF Checked, Permitted
      <4> HIDE DEF later, rest, c
      <4> QED
        BY <1>1, <3>1, <3>2, <4>3, <4>4, <4>5 DEF Checked, Fair
    <3> QED
      BY <3>3, <3>4
  <2> HIDE DEF later, done, c
  <2> QED
    BY <2>1, <2>2 DEF ProxyInv
<1> QED
  BY <1>2, <1>3

\* Whatever an interface process executes for a caller, in multicalls of every
\* depth, is within the scopes the caller had when it was admitted, and no init
\* is executed that the proxy has looked at, for every table of tokens and
\* every call, and whatever happens to tokens and interfaces until it is
\* executed (refuseCalls, handleXMLRPC, RegisterSystemMethods).
THEOREM ProxyKeepsTiers == Spec => []ProxyTiers
<1>1. Init => ProxyInv
  BY DEF Init, ProxyInit, ProxyInv
<1>2. ProxyInv /\ [Next]_vars => ProxyInv'
  <2> SUFFICES ASSUME ProxyInv, [Next]_vars PROVE ProxyInv'
    OBVIOUS
  <2>1. CASE ProxyCall
    BY <2>1, AdmitKeeps DEF ProxyCall
  <2>2. CASE ProxyRun
    BY <2>2, ForwardKeeps, ExecuteKeeps DEF ProxyRun
  <2>3. CASE UNCHANGED proxyVars
    BY <2>3 DEF proxyVars, ProxyInv
  <2> QED
    BY <2>1, <2>2, <2>3 DEF Next, MetaCall, MetaRun, PairCall, PairRun, SeedCall, SeedRun,
       RestartRest, SysCall, BoxCall, vars
<1>3. ProxyInv => ProxyTiers
  BY DEF ProxyInv, ProxyTiers, Fair
<1> QED
  BY <1>1, <1>2, <1>3, PTL DEF Spec

-----------------------------------------------------------------------------
(* Groups                                                                  *)

\* Numbers below next were given out, to a group that is there or was; what a
\* group holds its type can take.
GroupInv ==
  /\ next \in Nat
  /\ DOMAIN groups \subseteq 1 .. next
  /\ formerGroups \subseteq 1 .. next
  /\ formerGroups \cap DOMAIN groups = {}
  /\ \A g \in DOMAIN groups :
       /\ DOMAIN groups[g] = {"type", "members"}
       /\ groups[g].members \subseteq Candidates[groups[g].type]

LEMMA CreateKeeps ==
  ASSUME GroupInv, NEW type, NEW ids, GroupCreate(type, ids)
  PROVE  GroupInv'
<1> DEFINE new == [type |-> type, members |-> Take(type, ids)]
<1>1. new.type = type /\ new.members \subseteq Candidates[type]
      /\ DOMAIN new = {"type", "members"}
  BY DEF Take
<1> HIDE DEF new
<1>2. /\ next' = next + 1 /\ formerGroups' = formerGroups
      /\ groups' = [g \in {next + 1} \cup DOMAIN groups |->
                      IF g = next + 1 THEN new ELSE groups[g]]
  BY DEF GroupCreate, NextGroup, new
<1>3. /\ DOMAIN groups' = {next + 1} \cup DOMAIN groups
      /\ groups'[next + 1] = new
      /\ \A g \in DOMAIN groups : g # next + 1 => groups'[g] = groups[g]
  BY <1>2
<1>4. next + 1 \notin DOMAIN groups /\ next + 1 \notin formerGroups
  BY DEF GroupInv
<1> QED
  BY <1>1, <1>2, <1>3, <1>4 DEF GroupInv

LEMMA UpdateKeeps ==
  ASSUME GroupInv, NEW g, NEW ids, GroupUpdate(g, ids)
  PROVE  GroupInv'
<1> DEFINE new == [groups[g] EXCEPT !.members = Take(groups[g].type, ids)]
<1>1. /\ next' = next /\ formerGroups' = formerGroups /\ g \in DOMAIN groups
      /\ groups' = [groups EXCEPT ![g] = new]
  BY DEF GroupUpdate
<1>2. /\ DOMAIN new = {"type", "members"} /\ new.type = groups[g].type
      /\ new.members \subseteq Candidates[new.type]
  BY <1>1 DEF GroupInv, Take
<1> HIDE DEF new
<1> QED
  BY <1>1, <1>2 DEF GroupInv

LEMMA DeleteKeeps ==
  ASSUME GroupInv, NEW g, GroupDelete(g)
  PROVE  GroupInv'
<1>1. /\ next' = next /\ formerGroups' = formerGroups \cup {g} /\ g \in DOMAIN groups
      /\ DOMAIN groups' = DOMAIN groups \ {g}
      /\ \A h \in DOMAIN groups' : groups'[h] = groups[h]
  BY DEF GroupDelete, Restrict
<1> QED
  BY <1>1 DEF GroupInv

LEMMA GroupAlways == Spec => []GroupInv
<1>1. Init => GroupInv
  BY DEF Init, SysInit, GroupInv
<1>2. GroupInv /\ [Next]_vars => GroupInv'
  <2> SUFFICES ASSUME GroupInv, [Next]_vars PROVE GroupInv'
    OBVIOUS
  <2>1. CASE UNCHANGED <<next, groups, formerGroups>>
    BY <2>1 DEF GroupInv
  <2>2. CASE SysCall
    BY <2>1, <2>2, CreateKeeps, UpdateKeeps, DeleteKeeps
    DEF SysCall, UpdateDownload, RestoreCheck, RestoreApply, BackupRun, SetUpdateAvailable
  <2> QED
    BY <2>1, <2>2 DEF Next, MetaCall, MetaRun, PairCall, PairRun, SeedCall, SeedRun,
       RestartRest, ProxyCall, ProxyRun, BoxCall, vars, sysVars
<1> QED
  BY <1>1, <1>2, PTL DEF Spec

\* Numbers of groups are never given out again, groups hold only what their
\* type can take, and a detail answer splits the candidates, for every set of
\* types, channels and candidates (handleGroupCreate, take, split).
THEOREM GroupsStaySound == Spec => []GroupsSound
<1>1. GroupInv => GroupsSound
  <2> SUFFICES ASSUME GroupInv, NEW g \in DOMAIN groups
               PROVE  LET s    == Split(groups[g].type, {g})
                          mine == groups[g].members IN
                      /\ mine \cup s.assignable \cup s.leftover = Candidates[groups[g].type]
                      /\ mine \cap (s.assignable \cup s.leftover) = {}
                      /\ s.assignable \cap s.leftover = {}
    BY DEF GroupInv, GroupsSound
  <2> DEFINE type  == groups[g].type
             same  == {h \in DOMAIN groups : groups[h].type = type}
             taken == UNION {groups[h].members : h \in same \ {g}}
             mine  == groups[g].members
  <2>1. same \cap {g} = {g}
    OBVIOUS
  <2>2. UNION {groups[h].members : h \in same \cap {g}} = mine
    BY <2>1
  <2>3. mine \subseteq Candidates[type]
    BY DEF GroupInv
  <2>4. Split(type, {g}) = [leftover   |-> (Candidates[type] \cap taken) \ mine,
                            assignable |-> Candidates[type] \ (taken \cup mine)]
    BY <2>2 DEF Split
  <2> HIDE DEF taken, mine, same
  <2>5. /\ Split(type, {g}).leftover = (Candidates[type] \cap taken) \ mine
        /\ Split(type, {g}).assignable = Candidates[type] \ (taken \cup mine)
    BY <2>4
  <2> QED
    BY <2>3, <2>5 DEF mine
<1> QED
  BY <1>1, GroupAlways, PTL

-----------------------------------------------------------------------------
(* Types                                                                   *)

\* The parts of the state that the other invariants leave open: what they hold
\* comes from the sets the calls take it from.
OnItsWay(r) == r = NoCall \/ ("iface" \in DOMAIN r /\ r.iface \in Ifaces)

PartsInv ==
  /\ DOMAIN sessions \subseteq Sids
  /\ DOMAIN poll = Pollers
  /\ \A p \in Pollers : poll[p] \in PairIds \cup {NoRequest}
  /\ DOMAIN values = Kept
  /\ DOMAIN proxy = Proxies
  /\ \A p \in Proxies : OnItsWay(proxy[p])
  /\ available \in Releases \cup {NoRelease}
  /\ staged \in Releases \cup {NoRelease}
  /\ applied \in Seq(uploads)

LEMMA PairParts ==
  ASSUME PairInv, PartsInv, PairCall \/ PairRun
  PROVE  PartsInv'
<1>1. UNCHANGED <<values, proxy, available, staged, applied, uploads>>
  BY DEF PairCall, PairRun, seedVars, proxyVars, sysVars
<1>2. DOMAIN sessions' \subseteq Sids
  <2>1. CASE \E sid \in Sids : LoginStore(sid) \/ Logout(sid)
    BY <2>1 DEF PartsInv, LoginStore, Logout, Extended, Restrict
  <2>2. CASE UNCHANGED sessions
    BY <2>2 DEF PartsInv
  <2>3. CASE UNCHANGED accessVars
    BY <2>2, <2>3 DEF accessVars
  <2> QED
    BY <2>1, <2>2, <2>3
    DEF PairCall, PairRun, Ask, PollNow, PollWait, PollWake, Withdraw, LoginCheck, Approve,
        Reject, ListPairings, SetPairingEnabled, SetTokens, SetAccounts, Tick
<1>3. DOMAIN poll' = Pollers /\ \A p \in Pollers : poll'[p] \in PairIds \cup {NoRequest}
  <2>1. CASE UNCHANGED poll
    BY <2>1 DEF PartsInv
  <2>2. CASE UNCHANGED requestVars
    BY <2>1, <2>2 DEF requestVars
  <2>3. CASE \E p \in Pollers, id \in PairIds, nonce \in BOOLEAN : PollWait(p, id, nonce)
    BY <2>3 DEF PartsInv, PollWait
  <2>4. CASE \E p \in Pollers : PollWake(p)
    BY <2>4 DEF PartsInv, PollWake
  <2> QED
    BY <2>1, <2>2, <2>3, <2>4
    DEF PairCall, PairRun, Ask, PollNow, Withdraw, LoginCheck, LoginStore, Logout, Approve,
        Reject, ListPairings, SetPairingEnabled, SetTokens, SetAccounts, Tick
<1> QED
  BY <1>1, <1>2, <1>3 DEF PartsInv

LEMMA SeedParts ==
  ASSUME PartsInv, SeedCall \/ SeedRun \/ RestartRest
  PROVE  PartsInv'
<1>1. UNCHANGED <<sessions, poll, proxy, available, staged, applied, uploads>>
  BY DEF SeedCall, SeedRun, RestartRest, pairVars, accessVars, requestVars, proxyVars, sysVars
<1>2. DOMAIN values' = DOMAIN values \/ DOMAIN values' = Kept
  BY DEF SeedCall, SeedRun, RestartRest, PublishEvent, SetInterfaceDown, RestartInterface,
         RestartRing, ReadPosition, SeedStep, StoreValue, RestartValues, ReadValues,
         RestartSubscribe
<1> QED
  BY <1>1, <1>2 DEF PartsInv

LEMMA ProxyParts ==
  ASSUME PartsInv, ProxyCall \/ ProxyRun
  PROVE  PartsInv'
<1>1. UNCHANGED <<sessions, poll, values, available, staged, applied, uploads>>
  BY DEF ProxyCall, ProxyRun, pairVars, accessVars, requestVars, seedVars, sysVars
<1>2. DOMAIN proxy' = Proxies /\ \A p \in Proxies : OnItsWay(proxy'[p])
  <2>1. ASSUME NEW p \in Proxies, NEW r, OnItsWay(r), proxy' = [proxy EXCEPT ![p] = r]
        PROVE  DOMAIN proxy' = Proxies /\ \A q \in Proxies : OnItsWay(proxy'[q])
    BY <2>1 DEF PartsInv
  <2>2. OnItsWay(NoCall)
    BY DEF OnItsWay
  <2>3. CASE \E p \in Proxies, s \in Secrets, i \in Ifaces, c \in RpcCalls : ProxyAdmit(p, s, i, c)
    <3>1. PICK p \in Proxies, i \in Ifaces, s \in Secrets, c \in RpcCalls : ProxyAdmit(p, s, i, c)
      BY <2>3
    <3> DEFINE r == [scopes |-> ScopesOf(s), iface |-> i, call |-> c, sent |-> FALSE, rest |-> <<c>>]
    <3>2. proxy' = [proxy EXCEPT ![p] = r]
      BY <3>1 DEF ProxyAdmit
    <3>3. OnItsWay(r)
      BY DEF OnItsWay
    <3> QED
      BY <2>1, <3>2, <3>3
  <2>4. CASE \E p \in Proxies : ProxyForward(p)
    <3>1. PICK p \in Proxies : ProxyForward(p)
      BY <2>4
    <3> DEFINE r == [proxy[p] EXCEPT !.sent = TRUE]
    <3>2. proxy' = [proxy EXCEPT ![p] = r] \/ proxy' = [proxy EXCEPT ![p] = NoCall]
      BY <3>1 DEF ProxyForward
    <3>3. OnItsWay(r)
      BY <3>1 DEF ProxyForward, PartsInv, OnItsWay
    <3> QED
      BY <2>1, <2>2, <3>2, <3>3
  <2>5. CASE \E p \in Proxies : ProxyExecute(p)
    <3>1. PICK p \in Proxies : ProxyExecute(p)
      BY <2>5
    <3> DEFINE c == Head(proxy[p].rest)
               r == [proxy[p] EXCEPT !.rest = Dispatched(c) \o Tail(proxy[p].rest)]
    <3>2. proxy' = [proxy EXCEPT ![p] = r] \/ proxy' = [proxy EXCEPT ![p] = NoCall]
      BY <3>1 DEF ProxyExecute
    <3>3. OnItsWay(r)
      BY <3>1 DEF ProxyExecute, PartsInv, OnItsWay
    <3> QED
      BY <2>1, <2>2, <3>2, <3>3
  <2> QED
    BY <2>3, <2>4, <2>5 DEF ProxyCall, ProxyRun
<1> QED
  BY <1>1, <1>2 DEF PartsInv

LEMMA SysParts ==
  ASSUME PartsInv, SysCall
  PROVE  PartsInv'
<1>1. UNCHANGED <<sessions, poll, values, proxy>>
  BY DEF SysCall, pairVars, accessVars, requestVars, seedVars, proxyVars
<1>2. /\ available' \in Releases \cup {NoRelease}
      /\ staged' \in Releases \cup {NoRelease}
  BY DEF PartsInv, SysCall, GroupCreate, GroupUpdate, GroupDelete, UpdateDownload,
         RestoreCheck, RestoreApply, BackupRun, SetUpdateAvailable
<1>3. applied' \in Seq(uploads')
  <2>1. applied \in Seq(uploads)
    BY DEF PartsInv
  <2>2. CASE RestoreCheck
    <3>1. applied' = applied /\ uploads \subseteq uploads'
      BY <2>2 DEF RestoreCheck
    <3>2. applied \in [1 .. Len(applied) -> uploads'] /\ Len(applied) \in Nat
      BY <2>1, <3>1
    <3> QED
      BY <3>1, <3>2
  <2>3. CASE \E f \in 1 .. MaxUploads : RestoreApply(f)
    BY <2>1, <2>3 DEF RestoreApply
  <2>4. CASE UNCHANGED <<applied, uploads>>
    BY <2>1, <2>4
  <2> QED
    BY <2>2, <2>3, <2>4 DEF SysCall, GroupCreate, GroupUpdate, GroupDelete, UpdateDownload,
       BackupRun, SetUpdateAvailable
<1> QED
  BY <1>1, <1>2, <1>3 DEF PartsInv

LEMMA PartsAlways == Spec => []PartsInv
<1>1. Init => PartsInv
  BY DEF Init, PairInit, SeedInit, ProxyInit, SysInit, PartsInv, OnItsWay
<1>2. PairInv /\ PartsInv /\ [Next]_vars => PartsInv'
  <2> SUFFICES ASSUME PairInv, PartsInv, [Next]_vars PROVE PartsInv'
    OBVIOUS
  <2>1. CASE UNCHANGED <<sessions, poll, values, proxy, available, staged, applied, uploads>>
    BY <2>1 DEF PartsInv
  <2>2. CASE MetaCall \/ MetaRun \/ BoxCall \/ UNCHANGED vars
    BY <2>1, <2>2 DEF MetaCall, MetaRun, BoxCall, vars, pairVars, accessVars, requestVars,
       seedVars, proxyVars, sysVars
  <2> QED
    BY <2>2, PairParts, SeedParts, ProxyParts, SysParts DEF Next
<1> QED
  BY <1>1, <1>2, PairAlways, PTL DEF Spec

-----------------------------------------------------------------------------
(* Tokens                                                                  *)

\* What pairing made has a name of its own and the scopes of an access level.
TokenInv ==
  /\ IsFiniteSet(DOMAIN tokens)
  /\ paired \subseteq DOMAIN tokens
  /\ \A id \in paired, t \in DOMAIN tokens : tokens[t].name = tokens[id].name => t = id
  /\ \A id \in paired :
       \E access \in Accesses : tokens[id].scopes = PairingScopes(access)

\* Another number makes another name of the same slug.
LEMMA NumbersTell ==
  ASSUME NEW slug \in Seq(Words), NEW i \in Nat, NEW j \in Nat,
         Numbered(slug, i) = Numbered(slug, j)
  PROVE  i = j
<1>1. slug \in Seq(Words \cup Nat)
  <2>1. Words \subseteq Words \cup Nat
    OBVIOUS
  <2> QED
    BY <2>1, SeqMonotonic
<1>2. ASSUME NEW n \in Nat
      PROVE  /\ Len(Append(slug, n)) = Len(slug) + 1
             /\ Append(slug, n)[Len(slug) + 1] = n
  <2>1. n \in Words \cup Nat
    OBVIOUS
  <2> QED
    BY <1>1, <2>1, AppendProperties
<1>3. \A n \in Nat : Append(slug, n) # slug
  BY <1>1, <1>2, LenProperties
<1> QED
  BY <1>2, <1>3 DEF Numbered

\* addPairedToken finds a name that is not taken.
LEMMA FreshName ==
  ASSUME IsFiniteSet(DOMAIN tokens), NEW slug \in Seq(Words)
  PROVE  \A t \in DOMAIN tokens : tokens[t].name # FreeName(slug)
<1> DEFINE taken == {tokens[t].name : t \in DOMAIN tokens}
           c     == Cardinality(taken)
           free  == {i \in 1 .. c + 1 : Numbered(slug, i) \notin taken}
<1>1. IsFiniteSet(taken) /\ c \in Nat
  <2> DEFINE f == [t \in DOMAIN tokens |-> tokens[t].name]
  <2>1. f \in Surjection(DOMAIN tokens, taken)
    BY DEF Surjection
  <2> HIDE DEF f, taken
  <2>2. IsFiniteSet(taken)
    BY <2>1, FS_Surjection
  <2> QED
    BY <2>2, FS_CardinalityType DEF c
<1> HIDE DEF c
<1>2. free # {}
  <2> SUFFICES ASSUME free = {} PROVE FALSE
    OBVIOUS
  <2> DEFINE f == [i \in 1 .. c + 1 |-> Numbered(slug, i)]
  <2>1. f \in [1 .. c + 1 -> taken]
    OBVIOUS
  <2>2. IsFiniteSet(1 .. c + 1) /\ Cardinality(1 .. c + 1) = c + 1
    BY <1>1, FS_Interval
  <2>3. Cardinality(taken) < Cardinality(1 .. c + 1)
    BY <1>1, <2>2 DEF c
  <2>4. \A i, j \in 1 .. c + 1 : f[i] = f[j] => i = j
    BY <1>1, NumbersTell
  <2> HIDE DEF f, taken
  <2>5. \E i, j \in 1 .. c + 1 : i # j /\ f[i] = f[j]
    BY <1>1, <2>1, <2>2, <2>3, FS_PigeonHole
  <2> QED
    BY <2>4, <2>5
<1>3. PICK n \in free : \A k \in free : <<k, n>> \notin OpToRel(<, Nat)
  <2>1. free \subseteq Nat
    OBVIOUS
  <2> HIDE DEF free
  <2> QED
    BY <1>2, <2>1, NatLessThanWellFounded, WFMin
<1>4. \A j \in 1 .. n - 1 : Numbered(slug, j) \in taken
  <2> SUFFICES ASSUME NEW j \in 1 .. n - 1, Numbered(slug, j) \notin taken PROVE FALSE
    OBVIOUS
  <2>1. n \in 1 .. c + 1 /\ c \in Nat
    BY <1>1
  <2>2. j \in 1 .. c + 1 /\ j < n
    BY <2>1
  <2>3. j \in free
    BY <2>2
  <2>4. j \in Nat /\ n \in Nat
    BY <2>1, <2>2
  <2> HIDE DEF free
  <2>5. ~(j < n)
    BY <1>3, <2>3, <2>4 DEF OpToRel
  <2> QED
    BY <2>2, <2>5
<1> DEFINE Fits(i) == Numbered(slug, i) \notin taken /\ \A j \in 1 .. i - 1 : Numbered(slug, j) \in taken
<1>5. PICK m \in 1 .. c + 1 : m = (CHOOSE i \in 1 .. c + 1 : Fits(i)) /\ Fits(m)
  BY <1>3, <1>4
<1>6. FreeName(slug) = Numbered(slug, m)
  BY <1>5 DEF FreeName, c
<1> QED
  BY <1>5, <1>6

-----------------------------------------------------------------------------
(* Tables of requests                                                      *)

RequestOK(r) ==
  /\ IsRequest(r)
  /\ r.app \in Apps /\ r.access \in Accesses
  /\ r.created \in Nat /\ r.approvedAt \in Nat /\ r.revealed \in BOOLEAN
  /\ r.approvedAt > 0 => r.revealed /\ r.approvedAt <= r.created + Lifetime

TableOK(table) ==
  /\ IsFiniteSet(DOMAIN table)
  /\ \A id \in DOMAIN table : RequestOK(table[id])
  /\ Cardinality(Pending(table)) <= PendingTotal
  /\ \A r, q \in Pending(table) : table[r].app = table[q].app => r = q

\* A table whose requests are some of those before; none is pending again.
Follows(table, new) ==
  /\ DOMAIN new \subseteq DOMAIN table
  /\ \A id \in DOMAIN new :
       /\ RequestOK(new[id])
       /\ new[id].app = table[id].app
       /\ new[id].state = "pending" => table[id].state = "pending"

LEMMA FollowsKeeps ==
  ASSUME NEW table, NEW new, TableOK(table), Follows(table, new)
  PROVE  TableOK(new)
<1>1. IsFiniteSet(DOMAIN new)
  BY FS_Subset DEF TableOK, Follows
<1>2. Pending(new) \subseteq Pending(table) /\ Pending(table) \subseteq DOMAIN table
  BY DEF Follows, Pending
<1>3. IsFiniteSet(Pending(table))
  BY <1>2, FS_Subset DEF TableOK
<1>4. /\ Cardinality(Pending(new)) <= Cardinality(Pending(table))
      /\ Cardinality(Pending(new)) \in Nat /\ Cardinality(Pending(table)) \in Nat
  BY <1>2, <1>3, FS_Subset, FS_CardinalityType
<1>5. Cardinality(Pending(new)) <= PendingTotal
  BY <1>4, PairingAssumption DEF TableOK
<1>6. \A r, q \in Pending(new) : new[r].app = new[q].app => r = q
  BY <1>2 DEF Follows, TableOK, Pending
<1> QED
  BY <1>1, <1>5, <1>6 DEF TableOK, Follows

LEMMA SomeGone ==
  ASSUME NEW table, TableOK(table), NEW S
  PROVE  Follows(table, Restrict(table, DOMAIN table \ S))
BY DEF TableOK, Follows, Restrict

LEMMA OneChanged ==
  ASSUME NEW table, TableOK(table), NEW id \in DOMAIN table, NEW r, RequestOK(r),
         r.app = table[id].app, r.state = "pending" => table[id].state = "pending"
  PROVE  TableOK([table EXCEPT ![id] = r])
<1>1. Follows(table, [table EXCEPT ![id] = r])
  BY DEF TableOK, Follows
<1> QED
  BY <1>1, FollowsKeeps

\* What expireLocked leaves pending is within its lifetime.
LEMMA ExpireFollows ==
  ASSUME TableOK(requests), clock \in Nat
  PROVE  /\ TableOK(Expire(requests))
         /\ \A id \in Pending(Expire(requests)) :
              clock <= Expire(requests)[id].created + Lifetime
<1> DEFINE held == Expire(requests)
<1>1. /\ DOMAIN held \subseteq DOMAIN requests
      /\ \A id \in DOMAIN held :
           held[id] = IF requests[id].state = "pending" /\ clock > requests[id].created + Lifetime
                      THEN [requests[id] EXCEPT !.state = "expired"] ELSE requests[id]
  BY DEF Expire
<1> HIDE DEF held
<1>2. ASSUME NEW id \in DOMAIN held
      PROVE  /\ RequestOK(held[id])
             /\ held[id].app = requests[id].app
             /\ held[id].created = requests[id].created
             /\ held[id].state = "pending" => /\ requests[id].state = "pending"
                                              /\ ~(clock > requests[id].created + Lifetime)
  <2>1. RequestOK(requests[id])
    BY <1>1 DEF TableOK
  <2>2. CASE held[id] = requests[id] /\ requests[id].state # "pending"
    BY <2>1, <2>2
  <2>3. CASE held[id] = requests[id] /\ ~(clock > requests[id].created + Lifetime)
    BY <2>1, <2>3
  <2>4. CASE requests[id].state = "pending" /\ held[id] = [requests[id] EXCEPT !.state = "expired"]
    BY <2>1, <2>4 DEF RequestOK, IsRequest
  <2> QED
    BY <1>1, <2>2, <2>3, <2>4
<1>3. Follows(requests, held)
  BY <1>1, <1>2 DEF Follows
<1>4. TableOK(held)
  BY <1>3, FollowsKeeps
<1>5. \A id \in Pending(held) : clock <= held[id].created + Lifetime
  <2> SUFFICES ASSUME NEW id \in DOMAIN held, held[id].state = "pending"
               PROVE  clock <= held[id].created + Lifetime
    BY DEF Pending
  <2>1. held[id].created \in Nat /\ ~(clock > held[id].created + Lifetime)
    BY <1>2 DEF RequestOK
  <2> QED
    BY <2>1, PairingAssumption
<1> QED
  BY <1>4, <1>5 DEF held

LEMMA PolledFollows ==
  ASSUME TableOK(requests), clock \in Nat, NEW id, NEW nonce \in BOOLEAN
  PROVE  TableOK(Polled(id, nonce))
<1> DEFINE held == Expire(requests)
           r == [held[id] EXCEPT !.revealed = TRUE]
<1>1. TableOK(held)
  BY ExpireFollows
<1> HIDE DEF held
<1>2. CASE id \in DOMAIN held /\ nonce
  <2>1. RequestOK(held[id])
    BY <1>1, <1>2 DEF TableOK
  <2>2. RequestOK(r) /\ r.app = held[id].app /\ r.state = held[id].state
    BY <2>1 DEF RequestOK, IsRequest
  <2>3. Polled(id, nonce) = [held EXCEPT ![id] = r]
    BY <1>2 DEF Polled, held
  <2> HIDE DEF r
  <2>4. TableOK([held EXCEPT ![id] = r])
    BY <1>1, <1>2, <2>2, OneChanged
  <2> QED
    BY <2>3, <2>4
<1>3. CASE ~(id \in DOMAIN held /\ nonce)
  BY <1>1, <1>3 DEF Polled, held
<1> QED
  BY <1>2, <1>3

LEMMA AnswerKeepsTable ==
  ASSUME NEW table, TableOK(table), NEW id, Answer(table, id)
  PROVE  TableOK(requests')
<1> DEFINE r == [table[id] EXCEPT !.handedOut = TRUE]
<1>1. CASE id \in DOMAIN table /\ table[id].state = "approved" /\ ~table[id].handedOut
  <2>1. RequestOK(table[id])
    BY <1>1 DEF TableOK
  <2>2. RequestOK(r) /\ r.app = table[id].app /\ r.state = table[id].state
    BY <1>1, <2>1 DEF RequestOK, IsRequest
  <2>3. requests' = [table EXCEPT ![id] = r]
    BY <1>1 DEF Answer
  <2> HIDE DEF r
  <2>4. TableOK([table EXCEPT ![id] = r])
    BY <1>1, <2>2, OneChanged
  <2> QED
    BY <2>3, <2>4
<1>2. CASE ~(id \in DOMAIN table /\ table[id].state = "approved" /\ ~table[id].handedOut)
  BY <1>2 DEF Answer
<1> QED
  BY <1>1, <1>2

-----------------------------------------------------------------------------
(* The bounds of pairing                                                   *)

\* The requests in the window that ends with request id.
WindowOf(id) ==
  {q \in DOMAIN made :
     /\ AddressOf[made[q].app] = AddressOf[made[id].app]
     /\ made[q].at \in made[id].at - Window + 1 .. made[id].at}

\* The history of an address holds every request that is still in the window.
RateInv ==
  /\ clock \in Nat
  /\ IsFiniteSet(DOMAIN made)
  /\ \A id \in DOMAIN made : made[id].app \in Apps /\ made[id].at \in 0 .. clock
  /\ DOMAIN askedAt = Range(AddressOf)
  /\ \A addr \in Range(AddressOf) :
       /\ \A id \in DOMAIN askedAt[addr] : id \in DOMAIN made /\ askedAt[addr][id] = made[id].at
       /\ \A id \in DOMAIN made :
            AddressOf[made[id].app] = addr /\ clock - made[id].at < Window
              => id \in DOMAIN askedAt[addr]
  /\ \A id \in DOMAIN made : Cardinality(WindowOf(id)) <= PerWindow

LimitInv == RateInv /\ TableOK(requests) /\ DOMAIN requests \subseteq DOMAIN made

\* Within the window of a new request are itself and what the history holds.
LEMMA NewWindow ==
  ASSUME RateInv, NEW addr \in Range(AddressOf), NEW new, new \notin DOMAIN made,
         Cardinality(Recent(addr)) < PerWindow,
         NEW S, \A q \in S : \/ q = new
                             \/ /\ q \in DOMAIN made
                                /\ AddressOf[made[q].app] = addr
                                /\ clock - made[q].at < Window
  PROVE  Cardinality(S) <= PerWindow
<1>1. S \subseteq Recent(addr) \cup {new}
  BY DEF RateInv, Recent
<1>2. Recent(addr) \subseteq DOMAIN made
  BY DEF RateInv, Recent
<1>3. IsFiniteSet(Recent(addr))
  BY <1>2, FS_Subset DEF RateInv
<1>4. /\ IsFiniteSet(Recent(addr) \cup {new})
      /\ Cardinality(Recent(addr) \cup {new}) <= Cardinality(Recent(addr)) + 1
      /\ Cardinality(Recent(addr)) \in Nat
  <2>1. Cardinality(Recent(addr)) \in Nat
    BY <1>3, FS_CardinalityType
  <2>2. /\ IsFiniteSet(Recent(addr) \cup {new})
        /\ \/ Cardinality(Recent(addr) \cup {new}) = Cardinality(Recent(addr))
           \/ Cardinality(Recent(addr) \cup {new}) = Cardinality(Recent(addr)) + 1
    BY <1>3, FS_AddElement
  <2> QED
    BY <2>1, <2>2
<1>5. /\ Cardinality(S) <= Cardinality(Recent(addr) \cup {new})
      /\ Cardinality(S) \in Nat /\ Cardinality(Recent(addr) \cup {new}) \in Nat
  BY <1>1, <1>4, FS_Subset, FS_CardinalityType
<1> QED
  BY <1>4, <1>5, PairingAssumption

LEMMA AskKeepsRate ==
  ASSUME RateInv, NEW new, NEW app \in Apps, NEW access, Ask(new, app, access)
  PROVE  RateInv'
<1> DEFINE addr == AddressOf[app]
           entry == [app |-> app, at |-> clock]
<1>1. /\ new \notin DOMAIN made /\ Cardinality(Recent(addr)) < PerWindow
      /\ clock' = clock
      /\ made' = Extended(made, new, entry)
      /\ askedAt' = Charged(addr, new)
  BY DEF Ask
<1>2. /\ DOMAIN made' = DOMAIN made \cup {new}
      /\ made'[new] = entry
      /\ \A id \in DOMAIN made : made'[id] = made[id]
  BY <1>1 DEF Extended
<1>3. addr \in Range(AddressOf)
  BY PairingAssumption DEF Range
<1>4. /\ DOMAIN askedAt' = Range(AddressOf)
      /\ \A a \in Range(AddressOf) : a # addr => askedAt'[a] = askedAt[a]
      /\ DOMAIN askedAt'[addr] = Recent(addr) \cup {new}
      /\ askedAt'[addr][new] = clock
      /\ \A id \in Recent(addr) : id # new => askedAt'[addr][id] = askedAt[addr][id]
  <2> DEFINE asked == Extended(Restrict(askedAt[addr], Recent(addr)), new, clock)
  <2>1. /\ DOMAIN asked = Recent(addr) \cup {new} /\ asked[new] = clock
        /\ \A id \in Recent(addr) : id # new => asked[id] = askedAt[addr][id]
    BY DEF Extended, Restrict
  <2>2. askedAt' = [askedAt EXCEPT ![addr] = asked]
    BY <1>1 DEF Charged
  <2> HIDE DEF asked
  <2> QED
    BY <1>3, <2>1, <2>2 DEF RateInv
<1> HIDE DEF addr
<1>5. \A id \in DOMAIN made' : made'[id].app \in Apps /\ made'[id].at \in 0 .. clock
  BY <1>2 DEF RateInv
<1>6. IsFiniteSet(DOMAIN made')
  BY <1>2, FS_AddElement DEF RateInv
<1>7. ASSUME NEW a \in Range(AddressOf), NEW id \in DOMAIN askedAt'[a]
      PROVE  id \in DOMAIN made' /\ askedAt'[a][id] = made'[id].at
  <2>1. CASE a # addr
    BY <1>1, <1>2, <1>4, <2>1 DEF RateInv
  <2>2. CASE a = addr /\ id = new
    BY <1>2, <1>4, <2>2
  <2>3. CASE a = addr /\ id # new
    <3>1. id \in Recent(addr) /\ id \in DOMAIN askedAt[addr]
      BY <1>4, <1>7, <2>3 DEF Recent
    <3> QED
      BY <1>2, <1>3, <1>4, <2>3, <3>1 DEF RateInv
  <2> QED
    BY <2>1, <2>2, <2>3
<1>8. ASSUME NEW a \in Range(AddressOf), NEW id \in DOMAIN made',
             AddressOf[made'[id].app] = a, clock - made'[id].at < Window
      PROVE  id \in DOMAIN askedAt'[a]
  <2>1. CASE id = new
    BY <1>2, <1>4, <1>8, <2>1 DEF addr
  <2>2. CASE id # new
    <3>1. id \in DOMAIN made /\ made'[id] = made[id]
      BY <1>2, <1>8, <2>2
    <3>2. id \in DOMAIN askedAt[a] /\ askedAt[a][id] = made[id].at
      BY <1>8, <3>1 DEF RateInv
    <3>3. a = addr => id \in Recent(addr)
      BY <1>8, <3>1, <3>2 DEF Recent
    <3> QED
      BY <1>4, <3>2, <3>3
  <2> QED
    BY <2>1, <2>2
<1>9. ASSUME NEW id \in DOMAIN made'
      PROVE  Cardinality({q \in DOMAIN made' :
                            /\ AddressOf[made'[q].app] = AddressOf[made'[id].app]
                            /\ made'[q].at \in made'[id].at - Window + 1 .. made'[id].at})
               <= PerWindow
  <2> DEFINE S == {q \in DOMAIN made' :
                     /\ AddressOf[made'[q].app] = AddressOf[made'[id].app]
                     /\ made'[q].at \in made'[id].at - Window + 1 .. made'[id].at}
  <2>1. CASE made'[id].at = clock /\ AddressOf[made'[id].app] = addr
    <3>1. ASSUME NEW q \in S, q # new
          PROVE  q \in DOMAIN made /\ AddressOf[made[q].app] = addr /\ clock - made[q].at < Window
      <4>1. q \in DOMAIN made /\ made'[q] = made[q]
        BY <1>2, <3>1
      <4>2. made[q].at \in Nat /\ made[q].at >= clock - Window + 1 /\ clock \in Nat
        BY <2>1, <3>1, <4>1, PairingAssumption DEF RateInv
      <4> QED
        BY <2>1, <3>1, <4>1, <4>2, PairingAssumption
    <3> HIDE DEF S
    <3> QED
      BY <1>1, <1>3, <3>1, NewWindow DEF S
  <2>2. CASE id # new /\ ~(made'[id].at = clock /\ AddressOf[made'[id].app] = addr)
    <3>1. id \in DOMAIN made /\ made'[id] = made[id]
      BY <1>2, <1>9, <2>2
    <3>2. made[id].at \in Nat /\ made[id].at <= clock /\ clock \in Nat
      BY <3>1 DEF RateInv
    <3>3. new \notin S
      BY <1>2, <2>2, <3>1, <3>2, PairingAssumption DEF addr
    <3>4. S = WindowOf(id)
      BY <1>2, <3>1, <3>3 DEF WindowOf
    <3> QED
      BY <3>1, <3>4 DEF RateInv
  <2>3. CASE id = new
    BY <1>2, <2>1, <2>3 DEF addr
  <2> QED
    BY <2>1, <2>2, <2>3
<1> QED
  BY <1>1, <1>4, <1>5, <1>6, <1>7, <1>8, <1>9 DEF RateInv, WindowOf

LEMMA TickKeepsRate ==
  ASSUME RateInv, Tick
  PROVE  RateInv'
<1>1. clock' = clock + 1 /\ made' = made /\ askedAt' = askedAt
  BY DEF Tick, requestVars
<1>2. \A id \in DOMAIN made : made[id].at \in Nat
  BY DEF RateInv
<1>3. \A id \in DOMAIN made : clock + 1 - made[id].at < Window => clock - made[id].at < Window
  BY <1>2, PairingAssumption DEF RateInv
<1> QED
  BY <1>1, <1>3 DEF RateInv, WindowOf

LEMMA AskKeepsTable ==
  ASSUME LimitInv, NEW new, NEW app \in Apps, NEW access \in Accesses, Ask(new, app, access)
  PROVE  TableOK(requests')
<1> DEFINE held  == Expire(requests)
           entry == NewRequest(app, access)
           table == Extended(held, new, entry)
<1>1. TableOK(held) /\ DOMAIN held \subseteq DOMAIN made
  <2>1. DOMAIN held \subseteq DOMAIN requests
    BY DEF Expire
  <2> QED
    BY <2>1, ExpireFollows DEF LimitInv, RateInv
<1>2. /\ new \notin DOMAIN made /\ requests' = table
      /\ \A r \in Pending(held) : held[r].app # app
      /\ Cardinality(Pending(held)) < PendingTotal
  BY DEF Ask
<1>3. RequestOK(entry) /\ entry.app = app /\ entry.state = "pending"
  BY DEF NewRequest, RequestOK, IsRequest, LimitInv, RateInv
<1> HIDE DEF held, entry
<1>4. /\ DOMAIN table = DOMAIN held \cup {new}
      /\ table[new] = entry
      /\ \A id \in DOMAIN held : table[id] = held[id]
  BY <1>1, <1>2 DEF Extended
<1> HIDE DEF table
<1>5. Pending(table) = Pending(held) \cup {new} /\ Pending(held) \subseteq DOMAIN held
  BY <1>3, <1>4 DEF Pending
<1>6. IsFiniteSet(DOMAIN table)
  BY <1>1, <1>4, FS_AddElement DEF TableOK
<1>7. IsFiniteSet(Pending(held)) /\ Cardinality(Pending(held)) \in Nat
  BY <1>1, <1>5, FS_Subset, FS_CardinalityType DEF TableOK
<1>8. Cardinality(Pending(table)) <= PendingTotal
  <2>1. \/ Cardinality(Pending(table)) = Cardinality(Pending(held))
        \/ Cardinality(Pending(table)) = Cardinality(Pending(held)) + 1
    BY <1>5, <1>7, FS_AddElement
  <2> QED
    BY <1>2, <1>7, <2>1, PairingAssumption
<1>9. \A r, q \in Pending(table) : table[r].app = table[q].app => r = q
  BY <1>1, <1>2, <1>3, <1>4, <1>5 DEF TableOK
<1> QED
  BY <1>1, <1>2, <1>3, <1>4, <1>6, <1>8, <1>9 DEF TableOK

\* A request that is approved is so in time.
LEMMA ApproveKeepsTable ==
  ASSUME LimitInv, NEW id, NEW match, Approve(id, match)
  PROVE  TableOK(requests')
<1> DEFINE held     == Expire(requests)
           approved == [held[id] EXCEPT !.state = "approved", !.approvedAt = clock]
           rejected == [held[id] EXCEPT !.state = "rejected"]
<1>1. /\ TableOK(held) /\ clock \in Nat
      /\ \A q \in Pending(held) : clock <= held[q].created + Lifetime
  BY ExpireFollows DEF LimitInv, RateInv
<1>2. /\ id \in Pending(held) /\ held[id].revealed
      /\ requests' = [held EXCEPT ![id] = approved] \/ requests' = [held EXCEPT ![id] = rejected]
  BY DEF Approve
<1> HIDE DEF held
<1>3. id \in DOMAIN held /\ held[id].state = "pending"
  BY <1>2 DEF Pending
<1>4. RequestOK(held[id]) /\ clock <= held[id].created + Lifetime
  BY <1>1, <1>2, <1>3 DEF TableOK
<1>5. RequestOK(approved) /\ approved.app = held[id].app
  BY <1>1, <1>2, <1>3, <1>4 DEF RequestOK, IsRequest
<1>6. RequestOK(rejected) /\ rejected.app = held[id].app
  BY <1>3, <1>4 DEF RequestOK, IsRequest
<1> HIDE DEF approved, rejected
<1>7. TableOK([held EXCEPT ![id] = approved]) /\ TableOK([held EXCEPT ![id] = rejected])
  BY <1>1, <1>3, <1>5, <1>6, OneChanged
<1> QED
  BY <1>2, <1>7

LEMMA RejectKeepsTable ==
  ASSUME LimitInv, NEW id, Reject(id)
  PROVE  TableOK(requests')
<1> DEFINE rejected == [requests[id] EXCEPT !.state = "rejected"]
<1>1. id \in DOMAIN requests /\ requests[id].state = "pending"
      /\ requests' = [requests EXCEPT ![id] = rejected]
  BY DEF Reject, Pending
<1>2. RequestOK(requests[id])
  BY <1>1 DEF LimitInv, TableOK
<1>3. RequestOK(rejected) /\ rejected.app = requests[id].app
  BY <1>1, <1>2 DEF RequestOK, IsRequest
<1> HIDE DEF rejected
<1>4. TableOK([requests EXCEPT ![id] = rejected])
  BY <1>1, <1>3, OneChanged DEF LimitInv
<1> QED
  BY <1>1, <1>4

LEMMA WithdrawKeepsTable ==
  ASSUME LimitInv, NEW id, Withdraw(id)
  PROVE  TableOK(requests')
<1>1. TableOK(Expire(requests))
  BY ExpireFollows DEF LimitInv, RateInv
<1>2. TableOK(Restrict(Expire(requests), DOMAIN Expire(requests) \ {id}))
  BY <1>1, SomeGone, FollowsKeeps
<1> QED
  BY <1>2 DEF Withdraw

\* The table and the history of requests after a call, and after a step of a poll.
LEMMA PairCallLimits ==
  ASSUME LimitInv, PairCall
  PROVE  TableOK(requests') /\ RateInv'
<1> USE DEF LimitInv
<1>1. CASE \E id \in PairIds, app \in Apps, access \in Accesses : Ask(id, app, access)
  BY <1>1, AskKeepsTable, AskKeepsRate
<1>2. ASSUME UNCHANGED <<clock, made, askedAt>> PROVE RateInv'
  BY <1>2 DEF RateInv, WindowOf
<1>3. CASE \E id \in PairIds, nonce \in BOOLEAN : PollNow(id, nonce)
  <2>1. PICK id \in PairIds, nonce \in BOOLEAN : PollNow(id, nonce)
    BY <1>3
  <2>2. TableOK(Polled(id, nonce)) /\ Answer(Polled(id, nonce), id)
    BY <2>1, PolledFollows DEF PollNow, RateInv
  <2> QED
    BY <1>2, <2>1, <2>2, AnswerKeepsTable DEF PollNow
<1>4. CASE \E p \in Pollers, id \in PairIds, nonce \in BOOLEAN : PollWait(p, id, nonce)
  <2>1. PICK p \in Pollers, id \in PairIds, nonce \in BOOLEAN : PollWait(p, id, nonce)
    BY <1>4
  <2> QED
    BY <1>2, <2>1, PolledFollows DEF PollWait, RateInv
<1>5. CASE \E id \in PairIds : Withdraw(id)
  BY <1>2, <1>5, WithdrawKeepsTable DEF Withdraw
<1>6. CASE \E id \in PairIds, match \in BOOLEAN : Approve(id, match)
  BY <1>2, <1>6, ApproveKeepsTable DEF Approve
<1>7. CASE \E id \in PairIds : Reject(id)
  BY <1>2, <1>7, RejectKeepsTable DEF Reject
<1>8. CASE ListPairings
  BY <1>2, <1>8, ExpireFollows DEF ListPairings, RateInv
<1>9. CASE UNCHANGED <<clock, made, askedAt, requests>>
  BY <1>2, <1>9
<1> QED
  BY <1>1, <1>3, <1>4, <1>5, <1>6, <1>7, <1>8, <1>9
  DEF PairCall, LoginCheck, Logout, SetPairingEnabled, SetTokens, SetAccounts, requestVars

LEMMA PairRunLimits ==
  ASSUME LimitInv, PairRun
  PROVE  TableOK(requests') /\ RateInv'
<1> USE DEF LimitInv
<1>1. CASE \E p \in Pollers : PollWake(p)
  <2>1. PICK p \in Pollers : PollWake(p)
    BY <1>1
  <2>2. TableOK(Expire(requests)) /\ Answer(Expire(requests), poll[p])
    BY <2>1, ExpireFollows DEF PollWake, RateInv
  <2>3. UNCHANGED <<clock, made, askedAt>>
    BY <2>1 DEF PollWake
  <2> QED
    BY <2>2, <2>3, AnswerKeepsTable DEF RateInv, WindowOf
<1>2. CASE Tick
  BY <1>2, TickKeepsRate DEF Tick, requestVars
<1>3. CASE UNCHANGED <<clock, made, askedAt, requests>>
  BY <1>3 DEF RateInv, WindowOf
<1> QED
  BY <1>1, <1>2, <1>3 DEF PairRun, LoginStore, requestVars

Limited == RateInv /\ TableOK(requests)

LEMMA LimitAlways == Spec => []Limited
<1>1. Init => Limited
  <2> SUFFICES ASSUME Init PROVE Limited
    OBVIOUS
  <2>1. /\ requests = <<>> /\ made = <<>> /\ clock = 1
        /\ askedAt = [a \in Range(AddressOf) |-> <<>>]
    BY DEF Init, PairInit
  <2>2. DOMAIN requests = {} /\ DOMAIN made = {} /\ \A a \in DOMAIN askedAt : DOMAIN askedAt[a] = {}
    BY <2>1
  <2>3. RateInv
    BY <2>1, <2>2, FS_EmptySet DEF RateInv
  <2>4. Pending(requests) = {}
    BY <2>2 DEF Pending
  <2>5. Cardinality(Pending(requests)) <= PendingTotal
    BY <2>4, FS_EmptySet, PairingAssumption
  <2> QED
    BY <2>2, <2>3, <2>4, <2>5, FS_EmptySet DEF Limited, TableOK
<1>2. PairInv /\ Limited /\ [Next]_vars => Limited'
  <2> SUFFICES ASSUME PairInv, Limited, [Next]_vars PROVE Limited'
    OBVIOUS
  <2>1. LimitInv
    BY DEF LimitInv, Limited, PairInv
  <2>2. CASE PairCall
    BY <2>1, <2>2, PairCallLimits DEF Limited, TableOK, Pending
  <2>3. CASE PairRun
    BY <2>1, <2>3, PairRunLimits DEF Limited, TableOK, Pending
  <2>4. CASE UNCHANGED <<clock, made, askedAt, requests>>
    BY <2>4 DEF Limited, TableOK, Pending, RateInv, WindowOf
  <2> QED
    BY <2>2, <2>3, <2>4 DEF Next, MetaCall, MetaRun, SeedCall, SeedRun, RestartRest, ProxyCall,
       ProxyRun, SysCall, BoxCall, vars, pairVars, requestVars
<1> QED
  BY <1>1, <1>2, PairAlways, PTL DEF Spec

\* However requests come, expire, are withdrawn, rejected and approved, and for
\* every setting of the limits, every set of apps and addresses: never more
\* pending than allowed, never two of one app, never more in a window from one
\* address, and approval in time after the nonce (expireLocked,
\* handlePairingRequest, ApprovePairing).
THEOREM PairingStaysLimited == Spec => []PairingLimits
<1>1. Limited => PairingLimits
  <2> SUFFICES ASSUME Limited PROVE PairingLimits
    OBVIOUS
  <2>1. \A id \in Granted : /\ requests[id].revealed
                            /\ requests[id].approvedAt <= requests[id].created + Lifetime
    BY DEF Granted, Limited, TableOK, RequestOK
  <2> QED
    BY <2>1 DEF PairingLimits, Limited, TableOK, RateInv, WindowOf
<1> QED
  BY <1>1, LimitAlways, PTL

-----------------------------------------------------------------------------
(* The names and scopes of paired tokens                                   *)

LEMMA ApproveKeepsTokens ==
  ASSUME TokenInv, TableOK(requests), clock \in Nat, NEW id \in PairIds, NEW match,
         Approve(id, match)
  PROVE  TokenInv'
<1> DEFINE held == Expire(requests)
           new  == [name |-> FreeName(SlugOf[held[id].app]),
                    scopes |-> PairingScopes(held[id].access)]
<1>1. CASE tokens' = Extended(tokens, id, new) /\ paired' = paired \cup {id}
  <2>1. held[id].access \in Accesses /\ held[id].app \in Apps
    <3>1. TableOK(held)
      BY ExpireFollows
    <3>2. id \in DOMAIN held
      BY DEF Approve, Pending
    <3> QED
      BY <3>1, <3>2 DEF TableOK, RequestOK, IsRequest
  <2>2. \A t \in DOMAIN tokens : tokens[t].name # new.name
    BY <2>1, FreshName, PairingAssumption DEF TokenInv
  <2>3. new.scopes = PairingScopes(held[id].access)
    OBVIOUS
  <2> HIDE DEF new, held
  <2>4. /\ DOMAIN tokens' = DOMAIN tokens \cup {id} /\ tokens'[id] = new
        /\ \A t \in DOMAIN tokens : t # id => tokens'[t] = tokens[t]
    BY <1>1 DEF Extended
  <2>5. IsFiniteSet(DOMAIN tokens')
    BY <2>4, FS_AddElement DEF TokenInv
  <2>6. /\ paired' \subseteq DOMAIN tokens'
        /\ \A s \in paired', t \in DOMAIN tokens' : tokens'[t].name = tokens'[s].name => t = s
    BY <1>1, <2>2, <2>4 DEF TokenInv
  <2>7. \A t \in paired' : \E access \in Accesses : tokens'[t].scopes = PairingScopes(access)
    BY <1>1, <2>1, <2>3, <2>4 DEF TokenInv
  <2> QED
    BY <2>5, <2>6, <2>7 DEF TokenInv, PairingScopes
<1>2. CASE UNCHANGED <<tokens, paired>>
  BY <1>2 DEF TokenInv, PairingScopes
<1> QED
  BY <1>1, <1>2 DEF Approve

LEMMA TokenStep ==
  ASSUME TokenInv, Limited, [Next]_vars
  PROVE  TokenInv'
<1>1. CASE UNCHANGED <<tokens, paired>>
  BY <1>1 DEF TokenInv, PairingScopes
<1>2. CASE \E id \in PairIds, match \in BOOLEAN : Approve(id, match)
  BY <1>2, ApproveKeepsTokens DEF Limited, RateInv
<1>3. CASE \E table \in TokenTables : SetTokens(table)
  <2>1. PICK table \in TokenTables : tokens' = table /\ paired' = {}
    BY <1>3 DEF SetTokens
  <2> QED
    BY <2>1, PairingAssumption DEF TokenInv
<1>4. CASE PairCall \/ PairRun
  BY <1>1, <1>2, <1>3, <1>4
  DEF PairCall, PairRun, Ask, PollNow, PollWait, PollWake, Withdraw, LoginCheck, LoginStore,
      Logout, Reject, ListPairings, SetPairingEnabled, SetAccounts, Tick, accessVars
<1>5. CASE ~(PairCall \/ PairRun)
  BY <1>1, <1>5 DEF Next, MetaCall, MetaRun, SeedCall, SeedRun, RestartRest, ProxyCall,
     ProxyRun, SysCall, BoxCall, vars, pairVars, accessVars
<1> QED
  BY <1>4, <1>5

\* What implied says of what is implied is implied as well.
LEMMA ImpliedChains ==
  ASSUME NEW s, NEW t \in Implied(s), NEW u \in Implied(t)
  PROVE  u \in Implied(s)
BY DEF Implied

\* No level of an access area grants what pairing may not.
LEMMA NeverPaired ==
  ASSUME NEW access \in PairingAccess, NEW scope \in NeverGranted
  PROVE  ~HasScope(PairingScopes(access), scope)
<1>1. PairingScopes(access) \subseteq
        {"rpc:read", "rpc:operate", "rpc:configure", "rpc:admin", "meta:read", "meta:write",
         "system:read", "logs:read", "system:write"}
  BY DEF PairingAccess, PairingScopes
<1>2. \A s \in PairingScopes(access) : s # "*" /\ s # scope
  BY <1>1 DEF NeverGranted
<1>3. \A s \in PairingScopes(access) : scope \notin Implied(s)
  BY <1>1 DEF NeverGranted, Implied
<1> QED
  BY <1>2, <1>3 DEF HasScope

\* A paired token never shares its name with another one, whatever tables a test
\* brings, names of seeded tokens that collide among them; it allows nothing
\* that pairing may not grant, whatever level the app asked for; and looking
\* implications up one deep is enough, for every table of tokens
\* (addPairedToken, PairingScopes, implied).
THEOREM PairedTokensStaySound == Spec => []PairedTokens
<1>1. Init => TokenInv
  BY PairingAssumption DEF Init, PairInit, TokenInv
<1>2. TokenInv => PairedTokens
  <2> SUFFICES ASSUME TokenInv PROVE PairedTokens
    OBVIOUS
  <2>1. ASSUME NEW id \in paired, NEW scope \in NeverGranted
        PROVE  ~Authorized(id, scope)
    <3>1. PICK access \in Accesses : tokens[id].scopes = PairingScopes(access)
      BY <2>1 DEF TokenInv
    <3>2. ScopesOf(id) = PairingScopes(access)
      BY <2>1, <3>1 DEF ScopesOf, TokenInv
    <3> QED
      BY <3>2, NeverPaired, PairingAssumption DEF Authorized
  <2>2. ASSUME NEW id \in DOMAIN tokens, NEW s \in tokens[id].scopes, NEW t \in Implied(s),
               NEW u \in Implied(t)
        PROVE  Authorized(id, u)
    BY ImpliedChains DEF Authorized, ScopesOf, HasScope
  <2> QED
    BY <2>1, <2>2 DEF PairedTokens, TokenInv
<1> QED
  BY <1>1, <1>2, TokenStep, LimitAlways, PTL DEF Spec
=============================================================================
