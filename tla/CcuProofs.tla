----------------------------- MODULE CcuProofs -----------------------------
(***************************************************************************)
(* Proofs about Ccu, for every number of callers, requests, sessions,      *)
(* addresses and clients and every budget of calls.                        *)
(***************************************************************************)
EXTENDS Ccu, SequenceTheorems, NaturalsInduction, WellFoundedInduction, TLAPS

-----------------------------------------------------------------------------
(* What the web API leaves alone                                           *)

\* A handler of the web API neither starts nor stops the interface process,
\* nor touches the injected faults.
LEMMA HandlersOnlyCall ==
  ASSUME NEW s, Handle(s)
  PROVE  UNCHANGED <<serverVars, faultVars>>
<1>1. CASE SessionHandler(s)
  BY <1>1 DEF SessionHandler, rpcVars
<1>2. CASE StateHandler(s)
  BY <1>2 DEF StateHandler, rpcVars
<1>3. CASE InterfaceHandler(s)
  BY <1>3 DEF InterfaceHandler
<1>4. CASE QuietHandler(s)
  BY <1>4 DEF QuietHandler, rpcVars
<1>5. CASE Looks(s) \/ Acts(s)
  BY <1>5 DEF Looks, Acts, rpcVars
<1>6. CASE DownloadStatus(s) \/ DownloadData(s)
  BY <1>6 DEF DownloadStatus, DownloadData, rpcVars
<1>7. CASE ListAllDetail(s)
  BY <1>7 DEF ListAllDetail, rpcVars
<1> QED
  BY <1>1, <1>2, <1>3, <1>4, <1>5, <1>6, <1>7 DEF Handle

-----------------------------------------------------------------------------
(* Calls that a rule holds                                                 *)

\* Every call that is held waits on a real channel, closed or the one that the
\* next release closes.
HeldInv ==
  /\ release \in Nat
  /\ releases \in Nat
  /\ release <= releases
  /\ DOMAIN held = Callers
  /\ \A k \in Callers : held[k] # NoCall => held[k].on \in (gone \cup {release}) \ {0}

\* The steps that touch the faults keep it.
LEMMA FaultStep ==
  ASSUME HeldInv,
         \/ \E rule \in Rules : InjectFault(rule)
         \/ ClearFaults
         \/ \E k \in Callers, method \in Methods : Intercept(k, method)
         \/ \E k \in Callers : DelayEnds(k) \/ LetGo(k)
  PROVE  HeldInv'
<1>1. CASE \E rule \in Rules : InjectFault(rule)
  BY <1>1 DEF HeldInv, InjectFault
<1>2. CASE ClearFaults
  BY <1>2 DEF HeldInv, ClearFaults, Released
<1>3. ASSUME NEW k \in Callers, NEW method \in Methods, Intercept(k, method)
      PROVE  HeldInv'
  <2> DEFINE i == First(Matching(method))
             call == [in |-> IF rules[i].delay THEN "delay" ELSE "hang",
                      then |-> rules[i].then, on |-> ChannelFor]
  <2> HIDE DEF i
  <2>1. /\ release' = ChannelFor
        /\ releases' = IF ChannelFor > releases THEN ChannelFor ELSE releases
        /\ gone' = gone
        /\ held' = held \/ held' = [held EXCEPT ![k] = call]
        /\ call.on = ChannelFor
    BY <1>3 DEF Intercept, TakeRule, i
  <2>2. ChannelFor \in Nat \ {0}
    BY DEF HeldInv, ChannelFor
  <2>3. \A j \in Callers : held[j] # NoCall => held[j].on \in (gone \cup {ChannelFor}) \ {0}
    BY DEF HeldInv, ChannelFor
  <2>4. CASE held' = held
    BY <2>1, <2>2, <2>3, <2>4 DEF HeldInv
  <2> HIDE DEF call
  <2>5. CASE held' = [held EXCEPT ![k] = call]
    BY <2>1, <2>2, <2>3, <2>5 DEF HeldInv
  <2> QED
    BY <2>1, <2>4, <2>5
<1>4. ASSUME NEW k \in Callers, LetGo(k)
      PROVE  HeldInv'
  BY <1>4 DEF HeldInv, LetGo
<1>5. ASSUME NEW k \in Callers, DelayEnds(k)
      PROVE  HeldInv'
  <2> DEFINE next == IF held[k].then = "hang" THEN [held[k] EXCEPT !.in = "hang"] ELSE NoCall
  <2>1. held' = [held EXCEPT ![k] = next] /\ UNCHANGED <<gone, release, releases>> /\ held[k] # NoCall
    BY <1>5 DEF DelayEnds
  <2>2. next # NoCall => next.on = held[k].on
    OBVIOUS
  <2> HIDE DEF next
  <2> QED
    BY <2>1, <2>2 DEF HeldInv
<1> QED
  BY <1>1, <1>2, <1>3, <1>4, <1>5

\* The next process holds nothing; a release closes the channel it forgets.
LEMMA LifeKeepsHeld ==
  ASSUME HeldInv, LifeCall \/ LifeRun
  PROVE  HeldInv'
<1>1. CASE Boot
  BY <1>1 DEF HeldInv, Boot
<1>2. CASE SuspendClose \/ \E k \in Stops : StopRelease(k)
  BY <1>2 DEF HeldInv, SuspendClose, StopRelease, Released
<1>3. CASE UNCHANGED faultVars
  BY <1>3 DEF HeldInv, faultVars
<1> QED
  BY <1>1, <1>2, <1>3
  DEF LifeCall, LifeRun, StartServer, Suspend, Stop, Resume, StartTLS, StopTLS, Occupy, SetBINRPC,
      SuspendBin, StopStep, StopRegs, StopRegWrite, StopSave, StopWrite, StopFails, StopShutdown,
      StopReturn, ResumeRest

\* No other step touches them.
LEMMA OthersKeepFaults ==
  ASSUME [Next]_ccuVars, ~(FaultCall \/ FaultRun \/ LifeCall \/ LifeRun)
  PROVE  UNCHANGED faultVars
<1>1. CASE StoreCall \/ LinkCall \/ StoreRun \/ CatalogueCall \/ CatalogueRun
  BY <1>1 DEF StoreCall, LinkCall, StoreRun, CatalogueCall, CatalogueRun
<1>2. CASE WebCall \/ Admission \/ StateCall \/ StateRun \/ VirtualCall \/ VirtualRun
  BY <1>2 DEF WebCall, Admission, StateCall, StateRun, VirtualCall, VirtualRun
<1>3. CASE WebRun
  BY <1>3, HandlersOnlyCall DEF WebRun
<1>4. CASE UNCHANGED ccuVars
  BY <1>4 DEF ccuVars, lifeVars
<1> QED
  BY <1>1, <1>2, <1>3, <1>4 DEF Next

LEMMA EveryStepKeepsHeld ==
  ASSUME HeldInv, [Next]_ccuVars
  PROVE  HeldInv'
<1>1. CASE FaultCall \/ FaultRun
  BY <1>1, FaultStep DEF FaultCall, FaultRun
<1>2. CASE LifeCall \/ LifeRun
  BY <1>2, LifeKeepsHeld
<1>3. CASE ~(FaultCall \/ FaultRun \/ LifeCall \/ LifeRun)
  BY <1>3, OthersKeepFaults DEF HeldInv, faultVars
<1> QED
  BY <1>1, <1>2, <1>3

\* However rules, clears, suspensions, stops and calls interleave, no held call
\* waits on a channel that nobody will close (faultinject.go).
THEOREM HeldCallsAreReleasable == Spec => []NoCallStranded
<1>1. Init => HeldInv
  BY DEF Init, LifeInit, HeldInv
<1>2. HeldInv /\ [Next]_ccuVars => HeldInv'
  BY EveryStepKeepsHeld
<1>3. HeldInv => NoCallStranded
  BY DEF HeldInv, NoCallStranded
<1> QED
  BY <1>1, <1>2, <1>3, PTL DEF Spec

-----------------------------------------------------------------------------
(* The session table                                                       *)

\* A session that is in the table was used when it says; one that is gone,
\* though nobody ended it, had expired.
TableInv ==
  /\ clock \in Nat
  /\ DOMAIN sessions \subseteq minted
  /\ DOMAIN sessions \cap over = {}
  /\ over \subseteq minted
  /\ DOMAIN used = minted
  /\ \A id \in minted : used[id] \in Nat
  /\ \A id \in DOMAIN sessions : sessions[id] = used[id]
  /\ \A id \in (minted \ over) \ DOMAIN sessions : clock - used[id] > Timeout

\* A new session, in the table or in what is left of it once the session that
\* it replaces is taken out.
LEMMA MintKeepsTable ==
  ASSUME TableInv, NEW id, NEW table, NEW ended,
         Mint(id, table, ended), clock' = clock,
         DOMAIN table = DOMAIN sessions \ ended,
         ended \subseteq minted,
         \A i \in DOMAIN table : table[i] = sessions[i]
  PROVE  TableInv'
<1>1. /\ id \notin minted
      /\ minted' = minted \cup {id}
      /\ over' = over \cup ended
      /\ DOMAIN sessions' = DOMAIN table \cup {id}
      /\ DOMAIN used' = minted \cup {id}
  BY DEF TableInv, Mint, Stamped
<1>2. /\ \A i \in DOMAIN sessions' : sessions'[i] = IF i = id THEN clock ELSE table[i]
      /\ \A i \in DOMAIN used' : used'[i] = IF i = id THEN clock ELSE used[i]
  BY <1>1 DEF TableInv, Mint, Stamped
<1> QED
  BY <1>1, <1>2 DEF TableInv

\* A table that loses sessions: those that expired, or those that are ended.
LEMMA LossKeepsTable ==
  ASSUME TableInv, NEW kept, NEW ended,
         kept \subseteq DOMAIN sessions,
         sessions' = Restrict(sessions, kept),
         over' = over \cup ended,
         ended \subseteq DOMAIN sessions \ kept,
         \A id \in (DOMAIN sessions \ kept) \ ended : IsExpired(id),
         UNCHANGED <<clock, minted, used>>
  PROVE  TableInv'
<1>1. /\ DOMAIN sessions' = kept
      /\ \A id \in kept : sessions'[id] = sessions[id]
  BY DEF Restrict
<1> QED
  BY <1>1 DEF TableInv, IsExpired

LEMMA RenewKeepsTable ==
  ASSUME TableInv, NEW id, NEW new, Renew(id, new), clock' = clock
  PROVE  TableInv'
<1>1. CASE UNCHANGED tableVars
  BY <1>1 DEF TableInv, tableVars
<1>2. CASE /\ id \in DOMAIN sessions
           /\ IsExpired(id)
           /\ sessions' = Restrict(sessions, DOMAIN sessions \ {id})
           /\ UNCHANGED <<minted, over, used>>
  <2>1. over' = over \cup {}
    BY <1>2
  <2> QED
    BY <1>2, <2>1, LossKeepsTable
<1>3. CASE id \in DOMAIN sessions /\ Mint(new, AfterRenewal(id), {id})
  <2>1. /\ DOMAIN AfterRenewal(id) = DOMAIN sessions \ {id}
        /\ \A i \in DOMAIN AfterRenewal(id) : AfterRenewal(id)[i] = sessions[i]
    BY DEF AfterRenewal, Restrict
  <2>2. {id} \subseteq minted
    BY <1>3 DEF TableInv
  <2> HIDE DEF AfterRenewal
  <2> QED
    BY <1>3, <2>1, <2>2, MintKeepsTable
<1> QED
  BY <1>1, <1>2, <1>3 DEF Renew

\* The handlers of the web API keep it.
LEMMA HandlersKeepTable ==
  ASSUME TableInv, NEW s, Handle(s)
  PROVE  TableInv'
<1>1. CASE SessionHandler(s)
  <2>1. clock' = clock
    BY <1>1 DEF SessionHandler
  <2>2. CASE sessionLogin(s)
    <3>1. PICK id : Mint(id, sessions, {})
      BY <2>2 DEF sessionLogin, Login
    <3> QED
      BY <2>1, <3>1, MintKeepsTable
  <2>3. CASE sessionLogout(s)
    <3> DEFINE id == CallOf(s).second
    <3>1. LogoutOf(id)
      BY <2>3 DEF sessionLogout
    <3> HIDE DEF id
    <3>2. DOMAIN sessions \ {id} \subseteq DOMAIN sessions
      OBVIOUS
    <3>3. {id} \cap DOMAIN sessions \subseteq DOMAIN sessions \ (DOMAIN sessions \ {id})
      OBVIOUS
    <3>4. \A i \in (DOMAIN sessions \ (DOMAIN sessions \ {id})) \ ({id} \cap DOMAIN sessions) :
            IsExpired(i)
      OBVIOUS
    <3> QED
      BY <2>1, <3>1, <3>2, <3>3, <3>4, LossKeepsTable DEF LogoutOf
  <2>4. CASE sessionRenew(s)
    BY <2>1, <2>4, RenewKeepsTable DEF sessionRenew
  <2> QED
    BY <1>1, <2>2, <2>3, <2>4 DEF SessionHandler
<1>2. CASE UNCHANGED <<clock, tableVars>>
  BY <1>2 DEF TableInv, tableVars
<1>3. CASE StateHandler(s) \/ InterfaceHandler(s) \/ QuietHandler(s)
  BY <1>2, <1>3 DEF StateHandler, InterfaceHandler, QuietHandler, OnlyRequest
<1>4. CASE Looks(s) \/ Acts(s) \/ DownloadStatus(s) \/ DownloadData(s) \/ ListAllDetail(s)
  BY <1>2, <1>4 DEF Looks, Acts, DownloadStatus, DownloadData, ListAllDetail, OnlyRequest
<1> QED
  BY <1>1, <1>3, <1>4 DEF Handle

-----------------------------------------------------------------------------
(* Requests on their way in                                                *)

\* A request that is waiting while authentication is off has noted it; one
\* that looks a session up has an id; one that was let in or turned away was
\* so for a reason.
Good(r) ==
  /\ DOMAIN r = {"stage", "call", "rest", "off", "tried", "idle", "dead"}
  /\ ~enabled => r.off
  /\ r.stage = "lookup" => r.tried # NoId
  /\ r.stage = "admitted" => Open(r) \/ Alive(r)
  /\ r.stage = "refused" => ~Alive(r)

RequestInv ==
  /\ DOMAIN request = Slots
  /\ \A s \in Slots : request[s] # NoRequest => Good(request[s])

SessInv == TableInv /\ RequestInv

\* A step that changes one request.
LEMMA OneRequest ==
  ASSUME RequestInv, NEW s \in Slots, NEW r,
         request' = [request EXCEPT ![s] = r],
         r = NoRequest \/ Good(r),
         UNCHANGED <<enabled, ccuErrorModel>>
  PROVE  RequestInv'
<1>1. /\ DOMAIN request' = Slots
      /\ \A t \in Slots : request'[t] = IF t = s THEN r ELSE request[t]
  BY DEF RequestInv
<1>2. \A t \in Slots : request'[t] # NoRequest => Good(request'[t])
  BY <1>1 DEF RequestInv
<1>3. \A t \in Slots : Good(request'[t]) => Good(request[t])'
  BY DEF Good, Open, Alive, Allowed
<1> QED
  BY <1>1, <1>2, <1>3 DEF RequestInv

\* A call that has just come.
LEMMA FreshIsGood ==
  ASSUME NEW body
  PROVE  Good(At(body, ~enabled))
<1> DEFINE r == At(body, ~enabled)
<1>1. /\ DOMAIN r = {"stage", "call", "rest", "off", "tried", "idle", "dead"}
      /\ r.off = ~enabled
      /\ r.stage = FirstStage(r.call.method)
  BY DEF At
<1>2. \/ r.stage = "enabled"
      \/ r.stage = "admitted" /\ r.call.method \in Unguarded
  BY <1>1 DEF FirstStage
<1> HIDE DEF r
<1> QED
  BY <1>1, <1>2 DEF Good, Open, Allowed, r

LEMMA AnsweredIsGood ==
  ASSUME NEW s
  PROVE  Answered(s) = NoRequest \/ Good(Answered(s))
BY FreshIsGood DEF Answered

\* A handler answers its call, or goes on with a stage of its own.
LEMMA HandlersKeepRequests ==
  ASSUME RequestInv, NEW s \in Slots, Handle(s)
  PROVE  RequestInv'
<1>0. request[s] # NoRequest /\ Good(request[s])
  BY DEF Handle, RequestInv
<1>1. UNCHANGED <<enabled, ccuErrorModel>>
  BY DEF Handle, SessionHandler, StateHandler, InterfaceHandler, QuietHandler, Looks, Acts,
         DownloadStatus, DownloadData, ListAllDetail, OnlyRequest
<1>2. \/ Answers(s)
      \/ GoesTo(s, "looked") \/ GoesTo(s, "download")
      \/ UNCHANGED request
  BY DEF Handle, SessionHandler, StateHandler, InterfaceHandler, QuietHandler, Looks, Acts,
         DownloadStatus, DownloadData, ListAllDetail
<1>3. CASE Answers(s)
  BY <1>1, <1>3, OneRequest, AnsweredIsGood DEF Answers
<1>4. ASSUME NEW stage \in {"looked", "download"}, GoesTo(s, stage)
      PROVE  RequestInv'
  <2> DEFINE r == [request[s] EXCEPT !.stage = stage]
  <2>1. Good(r)
    BY <1>0 DEF Good, Open, Alive, Allowed
  <2>2. request' = [request EXCEPT ![s] = r]
    BY <1>4 DEF GoesTo
  <2> HIDE DEF r
  <2> QED
    BY <1>1, <2>1, <2>2, OneRequest
<1>5. CASE UNCHANGED request
  BY <1>1, <1>5 DEF RequestInv, Good, Open, Alive, Allowed
<1> QED
  BY <1>2, <1>3, <1>4, <1>5

-----------------------------------------------------------------------------
(* The three looks of a request that is on its way in                      *)

LEMMA CheckEnabledKeeps ==
  ASSUME SessInv, NEW s \in Slots, request[s] # NoRequest, CheckEnabled(s)
  PROVE  SessInv'
<1> DEFINE stage == IF enabled THEN "validate" ELSE "admitted"
           r == [request[s] EXCEPT !.stage = stage, !.tried = Tried(request[s].call)]
<1>1. Good(request[s])
  BY DEF SessInv, RequestInv
<1>2. Good(r)
  BY <1>1 DEF Good, Open, Alive, Allowed
<1>3. request' = [request EXCEPT ![s] = r]
  BY DEF CheckEnabled
<1>4. TableInv'
  BY DEF SessInv, TableInv, CheckEnabled, tableVars
<1> HIDE DEF r
<1> QED
  BY <1>2, <1>3, <1>4, OneRequest DEF SessInv, CheckEnabled

LEMMA ValidateEnabledKeeps ==
  ASSUME SessInv, NEW s \in Slots, request[s] # NoRequest, ValidateEnabled(s)
  PROVE  SessInv'
<1> DEFINE old == request[s]
           valid == ~enabled /\ (old.tried # NoId \/ old.call.method \notin BackupAPI)
           stage == IF enabled /\ old.tried # NoId THEN "lookup"
                    ELSE IF Allowed(old.call.method, valid) THEN "admitted" ELSE "refused"
           r == [old EXCEPT !.stage = stage]
<1>1. Good(old)
  BY DEF SessInv, RequestInv
<1>2. Good(r)
  <2>1. /\ DOMAIN r = DOMAIN old
        /\ r.stage = stage /\ r.call = old.call /\ r.off = old.off
        /\ r.tried = old.tried /\ r.idle = old.idle /\ r.dead = old.dead
    BY <1>1 DEF Good
  <2>2. ~enabled => r.off
    BY <1>1, <2>1 DEF Good
  <2>3. r.stage = "lookup" => r.tried # NoId
    BY <2>1
  <2>4. r.stage = "admitted" => Open(r) \/ Alive(r)
    BY <2>1, <2>2 DEF Open, Allowed
  <2>5. r.stage = "refused" => ~Alive(r)
    BY <2>1 DEF Alive, Allowed
  <2> HIDE DEF r
  <2> QED
    BY <1>1, <2>1, <2>2, <2>3, <2>4, <2>5 DEF Good
<1>3. request' = [request EXCEPT ![s] = r]
  BY DEF ValidateEnabled, Verdict
<1>4. TableInv'
  BY DEF SessInv, TableInv, ValidateEnabled, tableVars
<1> HIDE DEF r
<1> QED
  BY <1>2, <1>3, <1>4, OneRequest DEF SessInv, ValidateEnabled

\* The session is there: it is used now, and the request is let in.
LEMMA FoundKeeps ==
  ASSUME SessInv, NEW s \in Slots, request[s] # NoRequest, ValidateLookup(s),
         Found(request[s].tried)
  PROVE  SessInv'
<1> DEFINE id == request[s].tried
           r == [request[s] EXCEPT !.stage = "admitted", !.idle = clock - used[id], !.dead = FALSE]
<1>1. Good(request[s]) /\ id # NoId
  BY DEF SessInv, RequestInv, Good, ValidateLookup
<1>2. id \in minted /\ id \notin over /\ clock - used[id] <= Timeout /\ clock - used[id] \in Int
  BY ClockAssumption DEF SessInv, TableInv, Found, IsExpired
<1>3. Good(r)
  BY <1>1, <1>2 DEF Good, Alive
<1>4. request' = [request EXCEPT ![s] = r]
  <2>1. /\ request' = Seen(s, Verdict(s, TRUE))
        /\ Verdict(s, TRUE) = [request EXCEPT ![s].stage = "admitted"]
    BY DEF ValidateLookup, Verdict, Allowed
  <2>2. (id \in over \/ id \notin minted) = FALSE
    BY <1>2
  <2> QED
    BY <1>2, <2>1, <2>2 DEF Seen
<1>5. TableInv'
  <2>1. /\ sessions' = [sessions EXCEPT ![id] = clock]
        /\ used' = [used EXCEPT ![id] = clock]
        /\ id \in DOMAIN sessions
        /\ UNCHANGED <<clock, minted, over>>
    BY DEF ValidateLookup, Found
  <2> HIDE DEF id
  <2> QED
    BY <1>2, <2>1 DEF SessInv, TableInv
<1>6. RequestInv'
  <2> HIDE DEF r
  <2> QED
    BY <1>3, <1>4, OneRequest DEF SessInv, ValidateLookup
<1> QED
  BY <1>5, <1>6 DEF SessInv

\* It is not, or not any more: an expired one is taken out, and the request is
\* turned away unless it has another id to try.
LEMMA NotFoundKeeps ==
  ASSUME SessInv, NEW s \in Slots, request[s] # NoRequest, ValidateLookup(s),
         ~Found(request[s].tried)
  PROVE  SessInv'
<1> DEFINE old == request[s]
           id == old.tried
           age == IF id \in minted THEN clock - used[id] ELSE 0
           ended == id \in over \/ id \notin minted
           next == Retry(s)[s]
           r == [next EXCEPT !.idle = age, !.dead = ended]
<1>1. Good(old) /\ id # NoId
  BY DEF SessInv, RequestInv, Good, ValidateLookup
<1>2. ended \/ age > Timeout
  BY DEF SessInv, TableInv, Found, IsExpired
<1>3. /\ Retry(s) = [request EXCEPT ![s] = next]
      /\ DOMAIN next = DOMAIN old
      /\ next.off = old.off /\ next.call = old.call
      /\ \/ next.stage = "validate"
         \/ next.stage = "admitted" /\ Allowed(old.call.method, FALSE)
         \/ next.stage = "refused" /\ next.tried = id
  BY <1>1 DEF SessInv, RequestInv, Retry, Verdict, Good
<1> HIDE DEF next
<1>4. Good(r)
  <2>1. /\ DOMAIN r = DOMAIN old
        /\ r.stage = next.stage /\ r.tried = next.tried /\ r.off = old.off /\ r.call = old.call
        /\ r.idle = age /\ (r.dead <=> ended)
    BY <1>1, <1>3 DEF Good
  <2>2. r.stage = "admitted" => Open(r)
    BY <1>3, <2>1 DEF Open
  <2>3. r.stage = "refused" => ~Alive(r)
    <3>1. age \in Int
      BY DEF SessInv, TableInv
    <3> QED
      BY <1>2, <2>1, <3>1, ClockAssumption DEF Alive
  <2>4. r.stage # "lookup"
    BY <1>3, <2>1
  <2> HIDE DEF r
  <2> QED
    BY <1>1, <2>1, <2>2, <2>3, <2>4 DEF Good
<1>5. request' = [request EXCEPT ![s] = r]
  <2>1. request' = [[request EXCEPT ![s] = next] EXCEPT ![s].idle = age, ![s].dead = ended]
    BY <1>3 DEF ValidateLookup, Seen
  <2> QED
    BY <2>1 DEF SessInv, RequestInv
<1>6. TableInv'
  <2>1. /\ sessions' = Restrict(sessions, DOMAIN sessions \ {id})
        /\ over' = over \cup {}
        /\ UNCHANGED <<clock, minted, used>>
    BY DEF ValidateLookup
  <2>2. \A i \in DOMAIN sessions \ (DOMAIN sessions \ {id}) : IsExpired(i)
    BY DEF Found
  <2> HIDE DEF id
  <2> QED
    BY <2>1, <2>2, LossKeepsTable DEF SessInv
<1>7. RequestInv'
  <2> HIDE DEF r
  <2> QED
    BY <1>4, <1>5, OneRequest DEF SessInv, ValidateLookup
<1> QED
  BY <1>6, <1>7 DEF SessInv

-----------------------------------------------------------------------------
(* Every other step of the web server, and time                            *)

LEMMA AdmissionKeeps ==
  ASSUME SessInv, NEW s \in Slots, AdmissionStep(s)
  PROVE  SessInv'
<1>1. request[s] # NoRequest
  BY DEF AdmissionStep
<1>2. CASE Refuse(s)
  <2>1. RequestInv'
    BY <1>2, OneRequest, AnsweredIsGood DEF SessInv, Refuse
  <2> QED
    BY <1>2, <2>1 DEF SessInv, TableInv, Refuse, tableVars
<1> QED
  BY <1>1, <1>2, CheckEnabledKeeps, ValidateEnabledKeeps, FoundKeeps, NotFoundKeeps DEF AdmissionStep

LEMMA TickKeeps ==
  ASSUME SessInv, SessionTick
  PROVE  SessInv'
<1>1. TableInv'
  BY ClockAssumption DEF SessInv, TableInv, SessionTick, tableVars
<1>2. RequestInv'
  BY DEF SessInv, RequestInv, SessionTick, Good, Open, Alive, Allowed
<1> QED
  BY <1>1, <1>2 DEF SessInv

LEMMA ToggleKeeps ==
  ASSUME SessInv, NEW on \in BOOLEAN, SetAuthEnabled(on) \/ SetWebReady(on)
  PROVE  SessInv'
<1>1. TableInv'
  BY DEF SessInv, TableInv, SetAuthEnabled, SetWebReady, tableVars
<1>2. CASE SetAuthEnabled(on)
  <2>1. ASSUME NEW s \in Slots, request'[s] # NoRequest
        PROVE  Good(request[s])'
    <3>1. request[s] # NoRequest /\ Good(request[s])
      BY <1>2, <2>1 DEF SetAuthEnabled, SessInv, RequestInv
    <3>2. request'[s] = [request[s] EXCEPT !.off = @ \/ ~on]
      BY <1>2, <3>1 DEF SetAuthEnabled
    <3>3. /\ DOMAIN request'[s] = DOMAIN request[s]
          /\ request'[s].stage = request[s].stage /\ request'[s].call = request[s].call
          /\ request'[s].tried = request[s].tried /\ request'[s].idle = request[s].idle
          /\ request'[s].dead = request[s].dead
          /\ request'[s].off <=> request[s].off \/ ~on
      BY <3>1, <3>2 DEF Good
    <3> QED
      BY <1>2, <3>1, <3>3 DEF SetAuthEnabled, Good, Open, Alive, Allowed
  <2> QED
    BY <1>1, <1>2, <2>1 DEF SessInv, RequestInv, SetAuthEnabled
<1>3. CASE SetWebReady(on)
  BY <1>1, <1>3 DEF SessInv, RequestInv, SetWebReady, Good, Open, Alive, Allowed
<1> QED
  BY <1>2, <1>3

LEMMA WebCallKeeps ==
  ASSUME SessInv, WebCall
  PROVE  SessInv'
<1>1. CASE \E part \in DOMAIN Bodies, s \in Slots : \E body \in Bodies[part] :
             Spend(part) /\ Arrive(s, body)
  <2>1. PICK s, body : s \in Slots /\ Arrive(s, body)
    BY <1>1
  <2>2. RequestInv'
    BY <2>1, OneRequest, FreshIsGood DEF SessInv, Arrive
  <2> QED
    BY <2>1, <2>2 DEF SessInv, TableInv, Arrive, tableVars
<1>2. CASE CleanupExpired
  <2>1. over' = over \cup {}
    BY <1>2 DEF CleanupExpired
  <2>2. TableInv'
    BY <1>2, <2>1, LossKeepsTable DEF SessInv, CleanupExpired
  <2> QED
    BY <1>2, <2>2 DEF SessInv, RequestInv, CleanupExpired, Good, Open, Alive, Allowed
<1>3. CASE InvalidateAll
  BY <1>3 DEF SessInv, TableInv, RequestInv, InvalidateAll, Good, Open, Alive, Allowed
<1>4. CASE \E on \in BOOLEAN : SetAuthEnabled(on) \/ SetWebReady(on)
  BY <1>4, ToggleKeeps
<1> QED
  BY <1>1, <1>2, <1>3, <1>4 DEF WebCall

\* No other part touches the sessions.
LEMMA OthersKeepSessions ==
  ASSUME [Next]_ccuVars, ~(WebCall \/ Admission \/ WebRun)
  PROVE  UNCHANGED sessVars
<1>1. CASE StoreCall \/ LinkCall \/ StoreRun \/ CatalogueCall \/ CatalogueRun
  BY <1>1 DEF StoreCall, LinkCall, StoreRun, CatalogueCall, CatalogueRun
<1>2. CASE FaultCall \/ FaultRun \/ LifeCall \/ LifeRun
  BY <1>2 DEF FaultCall, FaultRun, LifeCall, LifeRun
<1>3. CASE StateCall \/ StateRun \/ VirtualCall \/ VirtualRun
  BY <1>3 DEF StateCall, StateRun, VirtualCall, VirtualRun
<1>4. CASE UNCHANGED ccuVars
  BY <1>4 DEF ccuVars
<1> QED
  BY <1>1, <1>2, <1>3, <1>4 DEF Next

LEMMA EveryStepKeepsSessions ==
  ASSUME SessInv, [Next]_ccuVars
  PROVE  SessInv'
<1>1. CASE WebCall
  BY <1>1, WebCallKeeps
<1>2. CASE Admission
  BY <1>2, AdmissionKeeps, TickKeeps DEF Admission
<1>3. CASE WebRun
  BY <1>3, HandlersKeepTable, HandlersKeepRequests DEF WebRun, SessInv
<1>4. CASE ~(WebCall \/ Admission \/ WebRun)
  BY <1>4, OthersKeepSessions
  DEF sessVars, SessInv, TableInv, RequestInv, Good, Open, Alive, Allowed
<1> QED
  BY <1>1, <1>2, <1>3, <1>4

\* A request is let in, or turned away, for a reason that holds however logins,
\* renewals, logouts, clean-ups, toggles, time and the other requests come
\* between its three looks at the session manager (session.go, authorize).
THEOREM SessionsAreSound == Spec => []SessionSound
<1>1. Init => SessInv
  BY DEF Init, SessInit, SessInv, TableInv, RequestInv
<1>2. SessInv /\ [Next]_ccuVars => SessInv'
  BY EveryStepKeepsSessions
<1>3. SessInv => SessionSound
  BY DEF SessInv, TableInv, RequestInv, Good, SessionSound
<1> QED
  BY <1>1, <1>2, <1>3, PTL DEF Spec

-----------------------------------------------------------------------------
(* Maps and sequences of the state manager                                 *)

LEMMA AppendAny ==
  ASSUME NEW s, NEW x, NEW n \in Nat, s = [i \in 1 .. n |-> s[i]]
  PROVE  /\ Len(s) = n /\ Len(Append(s, x)) = n + 1
         /\ Append(s, x) = [i \in 1 .. n + 1 |-> Append(s, x)[i]]
         /\ Append(s, x)[n + 1] = x
         /\ \A i \in 1 .. n : Append(s, x)[i] = s[i]
<1> DEFINE S == {s[i] : i \in 1 .. n} \cup {x}
<1>1. s \in Seq(S) /\ x \in S
  OBVIOUS
<1>2. Len(s) = n
  OBVIOUS
<1> HIDE DEF S
<1> QED
  BY <1>1, <1>2

LEMMA WithProperties ==
  ASSUME NEW f, NEW key, NEW entry
  PROVE  /\ DOMAIN With(f, key, entry) = DOMAIN f \cup {key}
         /\ With(f, key, entry)[key] = entry
         /\ \A k \in DOMAIN f : k # key => With(f, key, entry)[k] = f[k]
BY DEF With

LEMMA WithoutProperties ==
  ASSUME NEW f, NEW key
  PROVE  /\ DOMAIN Without(f, key) = DOMAIN f \ {key}
         /\ \A k \in DOMAIN f : k # key => Without(f, key)[k] = f[k]
BY DEF Without, Restrict

-----------------------------------------------------------------------------
(* The two indexes of the system variables                                 *)

\* Both indexes list objects under what the objects say; two names that are
\* listed with one id are names that an addition overlapped.
IndexInv ==
  /\ Len(objects) \in Nat
  /\ objects = [o \in 1 .. Len(objects) |-> objects[o]]
  /\ \A o \in 1 .. Len(objects) : DOMAIN objects[o] = {"id", "name", "type", "value"}
  /\ \A id \in DOMAIN sysvars : sysvars[id] \in 1 .. Len(objects)
  /\ \A name \in DOMAIN sysvarByName :
       /\ sysvarByName[name] \in 1 .. Len(objects)
       /\ objects[sysvarByName[name]].name = name
  /\ \A m, n \in DOMAIN sysvarByName :
       objects[sysvarByName[m]].id = objects[sysvarByName[n]].id => m = n \/ n \in clashed
  /\ IndexesAgree

LEMMA AddKeepsIndexes ==
  ASSUME IndexInv, NEW name, NEW type, NEW value, NEW asked,
         AddSystemVariable(name, type, value, asked)
  PROVE  IndexInv'
<1> DEFINE id == IDFor("sysvar", asked)
<1>1. PICK obj : obj = Len(objects) + 1
  OBVIOUS
<1>2. /\ objects' = Append(objects, [id |-> id, name |-> name, type |-> type, value |-> value])
      /\ sysvars' = With(sysvars, id, obj)
      /\ sysvarByName' = With(sysvarByName, name, obj)
      /\ clashed' = clashed \cup Clash(name, id)
  BY <1>1 DEF AddSystemVariable
<1> HIDE DEF id
<1>3. /\ Len(objects') = obj /\ obj \in Nat /\ obj = Len(objects) + 1
      /\ objects' = [o \in 1 .. obj |-> objects'[o]]
      /\ objects'[obj] = [id |-> id, name |-> name, type |-> type, value |-> value]
      /\ \A o \in 1 .. Len(objects) : objects'[o] = objects[o]
  BY <1>1, <1>2, AppendAny DEF IndexInv
<1>4. /\ DOMAIN sysvars' = DOMAIN sysvars \cup {id} /\ sysvars'[id] = obj
      /\ \A k \in DOMAIN sysvars : k # id => sysvars'[k] = sysvars[k]
      /\ DOMAIN sysvarByName' = DOMAIN sysvarByName \cup {name} /\ sysvarByName'[name] = obj
      /\ \A n \in DOMAIN sysvarByName : n # name => sysvarByName'[n] = sysvarByName[n]
  <2>1. /\ DOMAIN With(sysvars, id, obj) = DOMAIN sysvars \cup {id} /\ With(sysvars, id, obj)[id] = obj
        /\ \A k \in DOMAIN sysvars : k # id => With(sysvars, id, obj)[k] = sysvars[k]
    BY DEF With
  <2>2. /\ DOMAIN With(sysvarByName, name, obj) = DOMAIN sysvarByName \cup {name}
        /\ With(sysvarByName, name, obj)[name] = obj
        /\ \A n \in DOMAIN sysvarByName :
             n # name => With(sysvarByName, name, obj)[n] = sysvarByName[n]
    BY DEF With
  <2> QED
    BY <1>2, <2>1, <2>2
<1>5. /\ clashed \subseteq clashed'
      /\ \A n \in DOMAIN sysvarByName :
           (n = name <=> objects[sysvarByName[n]].id # id) => n \in clashed' /\ name \in clashed'
  BY <1>2 DEF Clash
<1>6. /\ \A o \in 1 .. Len(objects') : DOMAIN objects'[o] = {"id", "name", "type", "value"}
      /\ objects'[obj].id = id /\ objects'[obj].name = name
      /\ \A k \in DOMAIN sysvars' : sysvars'[k] \in 1 .. obj /\ objects'[sysvars'[k]].id = k
      /\ \A n \in DOMAIN sysvarByName' : /\ sysvarByName'[n] \in 1 .. obj
                                         /\ objects'[sysvarByName'[n]].name = n
  BY <1>3, <1>4 DEF IndexInv, IndexesAgree
<1>7. \A m, n \in DOMAIN sysvarByName' :
        objects'[sysvarByName'[m]].id = objects'[sysvarByName'[n]].id => m = n \/ n \in clashed'
  BY <1>3, <1>4, <1>5, <1>6 DEF IndexInv
<1>8. ASSUME NEW k \in DOMAIN sysvars', objects'[sysvars'[k]].name \notin clashed'
      PROVE  /\ objects'[sysvars'[k]].name \in DOMAIN sysvarByName'
             /\ sysvarByName'[objects'[sysvars'[k]].name] = sysvars'[k]
  <2>1. CASE k = id
    BY <1>4, <1>6, <2>1
  <2>2. CASE k # id
    <3>1. /\ k \in DOMAIN sysvars /\ sysvars'[k] = sysvars[k] /\ sysvars[k] \in 1 .. Len(objects)
          /\ objects'[sysvars[k]] = objects[sysvars[k]] /\ objects[sysvars[k]].id = k
      BY <1>3, <1>4, <2>2 DEF IndexInv, IndexesAgree
    <3>2. PICK n : n = objects[sysvars[k]].name
      OBVIOUS
    <3>3. n \notin clashed
      BY <1>5, <1>8, <3>1, <3>2
    <3>4. n \in DOMAIN sysvarByName /\ sysvarByName[n] = sysvars[k]
      BY <3>1, <3>2, <3>3 DEF IndexInv, IndexesAgree
    <3>5. n # name
      BY <1>5, <1>8, <2>2, <3>1, <3>2, <3>4
    <3> QED
      BY <1>4, <3>1, <3>2, <3>4, <3>5
  <2> QED
    BY <2>1, <2>2
<1>9. ASSUME NEW n \in DOMAIN sysvarByName' \ clashed'
      PROVE  /\ objects'[sysvarByName'[n]].id \in DOMAIN sysvars'
             /\ sysvars'[objects'[sysvarByName'[n]].id] = sysvarByName'[n]
  <2>1. CASE n = name
    BY <1>4, <1>6, <2>1
  <2>2. CASE n # name
    <3>1. /\ n \in DOMAIN sysvarByName \ clashed /\ sysvarByName'[n] = sysvarByName[n]
          /\ objects'[sysvarByName[n]] = objects[sysvarByName[n]]
      BY <1>3, <1>4, <1>5, <2>2 DEF IndexInv
    <3>2. /\ objects[sysvarByName[n]].id \in DOMAIN sysvars
          /\ sysvars[objects[sysvarByName[n]].id] = sysvarByName[n]
      BY <3>1 DEF IndexInv, IndexesAgree
    <3>3. objects[sysvarByName[n]].id # id
      BY <1>5, <2>2, <3>1
    <3> QED
      BY <1>4, <3>1, <3>2, <3>3
  <2> QED
    BY <2>1, <2>2
<1> QED
  BY <1>3, <1>6, <1>7, <1>8, <1>9 DEF IndexInv, IndexesAgree

LEMMA SetKeepsIndexes ==
  ASSUME IndexInv, NEW name, NEW value, SetSystemVariable(name, value)
  PROVE  IndexInv'
<1>1. /\ objects' = [objects EXCEPT ![sysvarByName[name]].value = value]
      /\ UNCHANGED <<sysvars, sysvarByName, clashed>>
  BY DEF SetSystemVariable
<1>2. /\ DOMAIN objects = 1 .. Len(objects)
      /\ objects' = [o \in 1 .. Len(objects) |-> objects'[o]]
  BY <1>1 DEF IndexInv
<1>3. /\ objects' = [o \in 1 .. Len(objects') |-> objects'[o]] /\ Len(objects') = Len(objects)
  BY <1>2, AppendAny DEF IndexInv
<1>4. \A o \in 1 .. Len(objects) : /\ DOMAIN objects'[o] = {"id", "name", "type", "value"}
                                   /\ objects'[o].id = objects[o].id
                                   /\ objects'[o].name = objects[o].name
  BY <1>1, <1>2 DEF IndexInv
<1>5. IndexesAgree'
  <2>1. /\ \A id \in DOMAIN sysvars : objects'[sysvars[id]].name = objects[sysvars[id]].name
        /\ \A n \in DOMAIN sysvarByName :
             objects'[sysvarByName[n]].id = objects[sysvarByName[n]].id
    BY <1>4 DEF IndexInv
  <2>2. IndexesAgree
    BY DEF IndexInv
  <2> QED
    BY <1>1, <2>1, <2>2 DEF IndexesAgree
<1>6. \A m, n \in DOMAIN sysvarByName :
        objects'[sysvarByName[m]].id = objects'[sysvarByName[n]].id => m = n \/ n \in clashed
  BY <1>4 DEF IndexInv
<1>7. \A n \in DOMAIN sysvarByName : /\ sysvarByName[n] \in 1 .. Len(objects')
                                    /\ objects'[sysvarByName[n]].name = n
  BY <1>3, <1>4 DEF IndexInv
<1>8. /\ Len(objects') \in Nat /\ \A id \in DOMAIN sysvars : sysvars[id] \in 1 .. Len(objects')
      /\ \A o \in 1 .. Len(objects') : DOMAIN objects'[o] = {"id", "name", "type", "value"}
  BY <1>3, <1>4 DEF IndexInv
<1> QED
  BY <1>1, <1>3, <1>5, <1>6, <1>7, <1>8 DEF IndexInv

LEMMA DeleteKeepsIndexes ==
  ASSUME IndexInv, NEW name, DeleteSystemVariable(name)
  PROVE  IndexInv'
<1>1. PICK id : id = objects[sysvarByName[name]].id
  OBVIOUS
<1>2. /\ name \in DOMAIN sysvarByName
      /\ DOMAIN sysvars' = DOMAIN sysvars \ {id}
      /\ \A k \in DOMAIN sysvars' : sysvars'[k] = sysvars[k]
      /\ DOMAIN sysvarByName' = DOMAIN sysvarByName \ {name}
      /\ \A n \in DOMAIN sysvarByName' : sysvarByName'[n] = sysvarByName[n]
      /\ UNCHANGED <<objects, clashed>>
  <2>1. /\ name \in DOMAIN sysvarByName /\ UNCHANGED <<objects, clashed>>
        /\ sysvars' = Without(sysvars, id) /\ sysvarByName' = Without(sysvarByName, name)
    BY <1>1 DEF DeleteSystemVariable, IndexAfter
  <2>2. DOMAIN sysvars' = DOMAIN sysvars \ {id} /\ \A k \in DOMAIN sysvars' : sysvars'[k] = sysvars[k]
    BY <2>1, WithoutProperties
  <2>3. /\ DOMAIN sysvarByName' = DOMAIN sysvarByName \ {name}
        /\ \A n \in DOMAIN sysvarByName' : sysvarByName'[n] = sysvarByName[n]
    BY <2>1, WithoutProperties
  <2> QED
    BY <2>1, <2>2, <2>3
<1>3. ASSUME NEW k \in DOMAIN sysvars', objects'[sysvars'[k]].name \notin clashed'
      PROVE  /\ objects'[sysvars'[k]].name \in DOMAIN sysvarByName'
             /\ sysvarByName'[objects'[sysvars'[k]].name] = sysvars'[k]
  <2>1. /\ sysvarByName[objects[sysvars[k]].name] = sysvars[k] /\ objects[sysvars[k]].id = k
        /\ objects[sysvars[k]].name \in DOMAIN sysvarByName
    BY <1>2, <1>3 DEF IndexInv, IndexesAgree
  <2>2. objects[sysvars[k]].name # name
    BY <1>1, <1>2, <2>1
  <2> QED
    BY <1>2, <2>1, <2>2
<1>4. ASSUME NEW n \in DOMAIN sysvarByName' \ clashed'
      PROVE  /\ objects'[sysvarByName'[n]].id \in DOMAIN sysvars'
             /\ sysvars'[objects'[sysvarByName'[n]].id] = sysvarByName'[n]
  <2>1. /\ objects[sysvarByName[n]].id \in DOMAIN sysvars
        /\ sysvars[objects[sysvarByName[n]].id] = sysvarByName[n]
    BY <1>2 DEF IndexInv, IndexesAgree
  <2>2. objects[sysvarByName[n]].id # id
    BY <1>1, <1>2 DEF IndexInv
  <2> QED
    BY <1>2, <2>1, <2>2
<1>5. \A id_1 \in DOMAIN sysvars' : objects'[sysvars'[id_1]].id = id_1
  BY <1>2 DEF IndexInv, IndexesAgree
<1> QED
  BY <1>2, <1>3, <1>4, <1>5 DEF IndexInv, IndexesAgree

\* What a test and the handlers do to the state manager.
SysvarStep ==
  \/ \E name, type, value, asked : AddSystemVariable(name, type, value, asked)
  \/ \E name, value : SetSystemVariable(name, value)
  \/ \E name : DeleteSystemVariable(name)
RoomStep ==
  \/ AddRoom(<<>>, 0) \/ AddFunction(<<>>, 0)
  \/ \E id, ch : \/ AddChannelToRoom(id, ch) \/ RemoveChannelFromRoom(id, ch)
                 \/ AddChannelToFunction(id, ch)
BackupStep ==
  \/ \E on, late : SetBackupDelay(on, late)
  \/ BackupElapses \/ StartBackup \/ PromoteBackup
  \/ CompleteBackup("file") \/ FailBackup \/ ResetBackup
UpdateStep == TriggerUpdate \/ SetUpdateInfo(Firmware, "next")
ProgramStep ==
  \/ \E on, id : AddProgram(on, id) \/ SetProgramActive(id, on)
  \/ \E id : ExecuteProgram(id) \/ DeleteProgram(id)
QueueStep ==
  \/ AddServiceMessage \/ ClearAllServiceMessages
  \/ \E id : ClearServiceMessage(id)
  \/ \E a \in Partners : AddInboxDevice(a)
  \/ \E a : AcceptInboxDevice(a)
NameStep == \E a, name : SetDeviceName(a, name) \/ RegisterAddress(a)
StateStep ==
  \/ SysvarStep \/ RoomStep \/ BackupStep \/ UpdateStep \/ ProgramStep \/ QueueStep \/ NameStep
  \/ ClearAll
  \/ UNCHANGED stateVars

LEMMA StateKeepsIndexes ==
  ASSUME IndexInv, StateStep
  PROVE  IndexInv'
<1>1. CASE SysvarStep
  BY <1>1, AddKeepsIndexes, SetKeepsIndexes, DeleteKeepsIndexes DEF SysvarStep
<1>2. CASE UNCHANGED <<objects, sysvars, sysvarByName, clashed>>
  BY <1>2 DEF IndexInv, IndexesAgree
<1>3. CASE RoomStep
  BY <1>2, <1>3 DEF RoomStep, AddRoom, AddFunction, AddChannelToRoom, RemoveChannelFromRoom,
                    AddChannelToFunction, OnlyRooms
<1>4. CASE BackupStep
  BY <1>2, <1>4 DEF BackupStep, SetBackupDelay, BackupElapses, StartBackup, PromoteBackup,
                    CompleteBackup, FailBackup, ResetBackup, OnlyBackup, objectVars
<1>5. CASE UpdateStep
  BY <1>2, <1>5 DEF UpdateStep, TriggerUpdate, SetUpdateInfo, objectVars
<1>6. CASE ProgramStep
  BY <1>2, <1>6 DEF ProgramStep, AddProgram, SetProgramActive, ExecuteProgram, DeleteProgram,
                    OnlyPrograms
<1>7. CASE QueueStep
  BY <1>2, <1>7 DEF QueueStep, AddServiceMessage, ClearAllServiceMessages, ClearServiceMessage,
                    AddInboxDevice, AcceptInboxDevice, OnlyQueues
<1>8. CASE NameStep
  BY <1>2, <1>8 DEF NameStep, SetDeviceName, RegisterAddress, objectVars
<1>9. CASE ClearAll
  BY <1>9 DEF ClearAll, IndexInv, IndexesAgree
<1>10. CASE UNCHANGED stateVars
  BY <1>2, <1>10 DEF stateVars, objectVars
<1> QED
  BY <1>1, <1>3, <1>4, <1>5, <1>6, <1>7, <1>8, <1>9, <1>10 DEF StateStep

-----------------------------------------------------------------------------
(* Ids of addresses                                                        *)

\* The counter is beyond every id that was given out.
RegaInv ==
  /\ "rega" \in DOMAIN nextID
  /\ nextID["rega"] \in Nat
  /\ DOMAIN regaAddressByID = Range(regaIDByAddress)
  /\ \A a \in DOMAIN regaIDByAddress : regaAddressByID[regaIDByAddress[a]] = a
  /\ \A id \in DOMAIN regaAddressByID : id \in Nat /\ id < nextID["rega"]

LEMMA RegisterKeepsIds ==
  ASSUME RegaInv, NEW a, RegisterAddress(a)
  PROVE  RegaInv'
<1>1. CASE UNCHANGED <<regaVars, nextID>>
  BY <1>1 DEF RegaInv, regaVars
<1>2. CASE /\ Upper[a] \notin DOMAIN regaIDByAddress
           /\ regaIDByAddress' = With(regaIDByAddress, Upper[a], nextID["rega"])
           /\ regaAddressByID' = With(regaAddressByID, nextID["rega"], Upper[a])
           /\ nextID' = Counted("rega", 0)
  <2>1. PICK u : u = Upper[a]
    OBVIOUS
  <2>2. PICK n \in Nat : n = nextID["rega"]
    BY DEF RegaInv
  <2>3. /\ DOMAIN regaIDByAddress' = DOMAIN regaIDByAddress \cup {u} /\ regaIDByAddress'[u] = n
        /\ \A b \in DOMAIN regaIDByAddress : b # u => regaIDByAddress'[b] = regaIDByAddress[b]
    BY <1>2, <2>1, <2>2 DEF With
  <2>4. /\ DOMAIN regaAddressByID' = DOMAIN regaAddressByID \cup {n} /\ regaAddressByID'[n] = u
        /\ \A id \in DOMAIN regaAddressByID : id # n => regaAddressByID'[id] = regaAddressByID[id]
    BY <1>2, <2>1, <2>2 DEF With
  <2>5. "rega" \in DOMAIN nextID' /\ nextID'["rega"] = n + 1
    BY <1>2, <2>2 DEF Counted, RegaInv
  <2>6. u \notin DOMAIN regaIDByAddress /\ n \notin DOMAIN regaAddressByID
    BY <1>2, <2>1, <2>2 DEF RegaInv
  <2>7. Range(regaIDByAddress') = Range(regaIDByAddress) \cup {n}
    BY <2>3, <2>6 DEF Range
  <2>8. \A b \in DOMAIN regaIDByAddress : regaIDByAddress[b] \in DOMAIN regaAddressByID
    BY DEF RegaInv, Range
  <2>9. \A b \in DOMAIN regaIDByAddress' : regaAddressByID'[regaIDByAddress'[b]] = b
    BY <2>3, <2>4, <2>6, <2>8 DEF RegaInv
  <2>10. \A id \in DOMAIN regaAddressByID' : id \in Nat /\ id < n + 1
    BY <2>2, <2>4 DEF RegaInv
  <2>11. DOMAIN regaAddressByID' = Range(regaIDByAddress')
    BY <2>4, <2>7 DEF RegaInv
  <2> QED
    BY <2>2, <2>5, <2>9, <2>10, <2>11 DEF RegaInv
<1> QED
  BY <1>1, <1>2 DEF RegisterAddress

LEMMA StateKeepsIds ==
  ASSUME RegaInv, StateStep
  PROVE  RegaInv'
<1>1. ASSUME UNCHANGED regaVars,
             \/ UNCHANGED nextID
             \/ \E kind \in {"program", "sysvar", "room", "function", "message"} :
                  \E id : nextID' = Counted(kind, id)
      PROVE  RegaInv'
  <2>1. "rega" \in DOMAIN nextID' /\ nextID'["rega"] = nextID["rega"]
    BY <1>1 DEF RegaInv, Counted
  <2> QED
    BY <1>1, <2>1 DEF RegaInv, regaVars
<1>2. CASE SysvarStep
  <2>1. UNCHANGED regaVars
    BY <1>2 DEF SysvarStep, AddSystemVariable, SetSystemVariable, DeleteSystemVariable, OnlySysvars
  <2>2. UNCHANGED nextID \/ \E id : nextID' = Counted("sysvar", id)
    BY <1>2 DEF SysvarStep, AddSystemVariable, SetSystemVariable, DeleteSystemVariable
  <2> QED
    BY <1>1, <2>1, <2>2
<1>3. CASE RoomStep
  <2>1. UNCHANGED regaVars
    BY <1>3 DEF RoomStep, AddRoom, AddFunction, AddChannelToRoom, RemoveChannelFromRoom,
                AddChannelToFunction, OnlyRooms
  <2>2. UNCHANGED nextID \/ nextID' = Counted("room", 0) \/ nextID' = Counted("function", 0)
    BY <1>3 DEF RoomStep, AddRoom, AddFunction, AddChannelToRoom, RemoveChannelFromRoom,
                AddChannelToFunction
  <2> QED
    BY <1>1, <2>1, <2>2
<1>4. CASE BackupStep
  BY <1>1, <1>4 DEF BackupStep, SetBackupDelay, BackupElapses, StartBackup, PromoteBackup,
                    CompleteBackup, FailBackup, ResetBackup, OnlyBackup, objectVars
<1>5. CASE UpdateStep
  BY <1>1, <1>5 DEF UpdateStep, TriggerUpdate, SetUpdateInfo, objectVars
<1>6. CASE ProgramStep
  <2>1. UNCHANGED regaVars
    BY <1>6 DEF ProgramStep, AddProgram, SetProgramActive, ExecuteProgram, DeleteProgram,
                OnlyPrograms
  <2>2. UNCHANGED nextID \/ \E id : nextID' = Counted("program", id)
    BY <1>6 DEF ProgramStep, AddProgram, SetProgramActive, ExecuteProgram, DeleteProgram
  <2> QED
    BY <1>1, <2>1, <2>2
<1>7. CASE QueueStep
  <2>1. UNCHANGED regaVars
    BY <1>7 DEF QueueStep, AddServiceMessage, ClearAllServiceMessages, ClearServiceMessage,
                AddInboxDevice, AcceptInboxDevice, OnlyQueues
  <2>2. UNCHANGED nextID \/ nextID' = Counted("message", 0)
    BY <1>7 DEF QueueStep, AddServiceMessage, ClearAllServiceMessages, ClearServiceMessage,
                AddInboxDevice, AcceptInboxDevice
  <2> QED
    BY <1>1, <2>1, <2>2
<1>8. CASE NameStep
  BY <1>1, <1>8, RegisterKeepsIds DEF NameStep, SetDeviceName, objectVars
<1>9. CASE ClearAll \/ UNCHANGED stateVars
  BY <1>1, <1>9 DEF ClearAll, stateVars, objectVars
<1> QED
  BY <1>2, <1>3, <1>4, <1>5, <1>6, <1>7, <1>8, <1>9 DEF StateStep

-----------------------------------------------------------------------------
(* Rooms, backups and the update                                           *)

IsRoom(r) == Len(r) \in Nat /\ r = [i \in 1 .. Len(r) |-> r[i]] /\ IsInjective(r)

LEMMA JoinedIsRoom ==
  ASSUME NEW r, IsRoom(r), NEW ch
  PROVE  IsRoom(Joined(r, ch))
<1>1. CASE Contains(r, ch)
  BY <1>1 DEF Joined
<1>2. CASE ~Contains(r, ch)
  <2>1. PICK q : q = Append(r, ch)
    OBVIOUS
  <2>2. PICK n \in Nat : n = Len(r) /\ r = [i \in 1 .. n |-> r[i]]
    BY DEF IsRoom
  <2>3. /\ Len(q) = n + 1 /\ q = [i \in 1 .. n + 1 |-> q[i]]
        /\ q[n + 1] = ch /\ \A i \in 1 .. n : q[i] = r[i]
    BY <2>1, <2>2, AppendAny
  <2>4. \A i \in 1 .. n : r[i] # ch
    BY <1>2, <2>2 DEF Contains
  <2>5. \A i, j \in 1 .. n : r[i] = r[j] => i = j
    BY <2>2 DEF IsRoom, IsInjective
  <2>6. \A i, j \in 1 .. n + 1 : q[i] = q[j] => i = j
    BY <2>3, <2>4, <2>5
  <2>7. IsRoom(q)
    BY <2>3, <2>6 DEF IsRoom, IsInjective
  <2> QED
    BY <1>2, <2>1, <2>7 DEF Joined
<1> QED
  BY <1>1, <1>2

LEMMA LeastNumber ==
  ASSUME NEW I \in SUBSET Nat, I # {}
  PROVE  Min(I) \in I /\ \A j \in I : Min(I) <= j
<1>1. PICK k \in I : \A j \in I : ~(<<j, k>> \in OpToRel(<, Nat))
  BY NatLessThanWellFounded, WFMin
<1>2. \A j \in I : k <= j
  <2>1. ASSUME NEW j \in I PROVE k <= j
    <3>1. j \in Nat /\ k \in Nat /\ ~(j < k)
      BY <1>1 DEF OpToRel
    <3> QED
      BY <3>1
  <2> QED
    BY <2>1
<1> QED
  BY <1>2 DEF Min

LEMMA RemovedIsRoom ==
  ASSUME NEW r, IsRoom(r), NEW ch
  PROVE  IsRoom(RemoveFirst(r, ch))
<1>1. PICK n \in Nat : n = Len(r) /\ r = [i \in 1 .. n |-> r[i]]
  BY DEF IsRoom
<1>2. CASE ~\E i \in 1 .. Len(r) : r[i] = ch
  BY <1>2 DEF RemoveFirst
<1>3. CASE \E i \in 1 .. Len(r) : r[i] = ch
  <2> DEFINE I == {i \in 1 .. Len(r) : r[i] = ch}
             S == {r[i] : i \in 1 .. n}
  <2>1. PICK k : k = SelectInSeq(r, LAMBDA v : v = ch)
    OBVIOUS
  <2>2. k = Min(I)
    BY <1>3, <2>1 DEF SelectInSeq
  <2>3. k \in 1 .. n
    <3>1. I \in SUBSET Nat /\ I # {} /\ I \subseteq 1 .. n
      BY <1>1, <1>3
    <3> QED
      BY <2>2, <3>1, LeastNumber
  <2>4. PICK before : before = SubSeq(r, 1, k - 1)
    OBVIOUS
  <2>5. PICK after : after = SubSeq(r, k + 1, n)
    OBVIOUS
  <2>6. PICK q : q = RemoveFirst(r, ch)
    OBVIOUS
  <2>7. q = before \o after
    BY <1>1, <1>3, <2>1, <2>4, <2>5, <2>6 DEF RemoveFirst, RemoveAt
  <2>8. /\ before \in Seq(S) /\ Len(before) = k - 1
        /\ \A i \in 1 .. k - 1 : before[i] = r[i]
    <3>1. 1 \in Int /\ k - 1 \in Int /\ \A i \in 1 .. k - 1 : r[i] \in S
      BY <2>3
    <3>2. /\ SubSeq(r, 1, k - 1) \in Seq(S)
          /\ Len(SubSeq(r, 1, k - 1)) = IF 1 <= k - 1 THEN (k - 1) - 1 + 1 ELSE 0
          /\ \A i \in 1 .. (k - 1) - 1 + 1 : SubSeq(r, 1, k - 1)[i] = r[1 + i - 1]
      BY <3>1, SubSeqProperties
    <3> QED
      BY <2>3, <2>4, <3>2
  <2>9. /\ after \in Seq(S) /\ Len(after) = n - k
        /\ \A i \in 1 .. n - k : after[i] = r[k + i]
    <3>1. k + 1 \in Int /\ n \in Int /\ \A i \in k + 1 .. n : r[i] \in S
      BY <2>3
    <3>2. /\ SubSeq(r, k + 1, n) \in Seq(S)
          /\ Len(SubSeq(r, k + 1, n)) = IF k + 1 <= n THEN n - (k + 1) + 1 ELSE 0
          /\ \A i \in 1 .. n - (k + 1) + 1 : SubSeq(r, k + 1, n)[i] = r[k + 1 + i - 1]
      BY <3>1, SubSeqProperties
    <3> QED
      BY <2>3, <2>5, <3>2
  <2> HIDE DEF S
  <2>10. /\ q \in Seq(S) /\ Len(q) = (k - 1) + (n - k)
         /\ \A i \in 1 .. (k - 1) + (n - k) : q[i] = IF i <= k - 1 THEN before[i]
                                                     ELSE after[i - (k - 1)]
    <3>1. /\ before \o after \in Seq(S) /\ Len(before \o after) = Len(before) + Len(after)
          /\ \A i \in 1 .. Len(before) + Len(after) :
               (before \o after)[i] = IF i <= Len(before) THEN before[i] ELSE after[i - Len(before)]
      BY <2>8, <2>9, ConcatProperties, ZenonT(30)
    <3> QED
      BY <2>7, <2>8, <2>9, <3>1, ZenonT(30)
  <2>11. Len(q) = n - 1 /\ q = [i \in 1 .. n - 1 |-> q[i]]
    BY <2>3, <2>10
  <2>12. \A i \in 1 .. n - 1 : q[i] = IF i < k THEN r[i] ELSE r[i + 1]
    <3>1. ASSUME NEW i \in 1 .. n - 1 PROVE q[i] = IF i < k THEN r[i] ELSE r[i + 1]
      <4>1. CASE i < k
        BY <2>3, <2>8, <2>10, <4>1
      <4>2. CASE ~(i < k)
        <5>1. i - (k - 1) \in 1 .. n - k /\ k + (i - (k - 1)) = i + 1 /\ ~(i <= k - 1)
          BY <2>3, <4>2
        <5> QED
          BY <2>3, <2>9, <2>10, <4>2, <5>1
      <4> QED
        BY <4>1, <4>2
    <3> QED
      BY <3>1
  <2>13. \A i, j \in 1 .. n : r[i] = r[j] => i = j
    BY <1>1 DEF IsRoom, IsInjective
  <2>14. \A i, j \in 1 .. n - 1 : q[i] = q[j] => i = j
    BY <2>3, <2>12, <2>13
  <2>15. IsRoom(q)
    <3>1. n - 1 \in Nat /\ DOMAIN q = 1 .. n - 1 /\ Len(q) = n - 1
      BY <2>3, <2>11
    <3>2. IsInjective(q)
      BY <2>14, <3>1 DEF IsInjective
    <3> QED
      BY <2>11, <3>1, <3>2 DEF IsRoom
  <2> QED
    BY <2>6, <2>15
<1> QED
  BY <1>2, <1>3

\* A room holds no channel twice; a complete backup is the one that is handed
\* out; an update is offered exactly when the firmwares differ.
RoomInv == \A id \in DOMAIN rooms : IsRoom(rooms[id])
BackupInv ==
  /\ DOMAIN backup = {"status", "of"}
  /\ backup.status = "completed" => backupData = backup.of /\ backupData # NoBackup
UpdateInv ==
  /\ DOMAIN updateInfo = {"current", "available", "update"}
  /\ updateInfo.update <=> updateInfo.current # updateInfo.available

LEMMA StateKeepsRooms ==
  ASSUME RoomInv, StateStep
  PROVE  RoomInv'
<1>1. CASE rooms' = rooms
  BY <1>1 DEF RoomInv
<1>2. CASE AddRoom(<<>>, 0)
  <2>1. IsRoom(<<>>)
    BY DEF IsRoom, IsInjective
  <2> QED
    BY <1>2, <2>1 DEF RoomInv, AddRoom, With
<1>3. ASSUME NEW id, NEW r, id \in DOMAIN rooms, rooms' = [rooms EXCEPT ![id] = r], IsRoom(r)
      PROVE  RoomInv'
  BY <1>3 DEF RoomInv
<1>4. ASSUME NEW id, NEW ch, AddChannelToRoom(id, ch) \/ RemoveChannelFromRoom(id, ch)
      PROVE  RoomInv'
  <2>1. id \in DOMAIN rooms /\ IsRoom(rooms[id])
    BY <1>4 DEF RoomInv, AddChannelToRoom, RemoveChannelFromRoom
  <2>2. \/ rooms' = [rooms EXCEPT ![id] = Joined(rooms[id], ch)]
        \/ rooms' = [rooms EXCEPT ![id] = RemoveFirst(rooms[id], ch)]
    BY <1>4 DEF AddChannelToRoom, RemoveChannelFromRoom
  <2>3. IsRoom(Joined(rooms[id], ch)) /\ IsRoom(RemoveFirst(rooms[id], ch))
    BY <2>1, JoinedIsRoom, RemovedIsRoom
  <2> QED
    BY <1>3, <2>1, <2>2, <2>3
<1>5. CASE RoomStep
  BY <1>1, <1>2, <1>4, <1>5 DEF RoomStep, AddFunction, AddChannelToFunction
<1>6. CASE SysvarStep
  BY <1>1, <1>6 DEF SysvarStep, AddSystemVariable, SetSystemVariable, DeleteSystemVariable,
                    OnlySysvars
<1>7. CASE BackupStep \/ UpdateStep
  BY <1>1, <1>7 DEF BackupStep, SetBackupDelay, BackupElapses, StartBackup, PromoteBackup,
                    CompleteBackup, FailBackup, ResetBackup, OnlyBackup, UpdateStep, TriggerUpdate,
                    SetUpdateInfo, objectVars
<1>8. CASE ProgramStep
  BY <1>1, <1>8 DEF ProgramStep, AddProgram, SetProgramActive, ExecuteProgram, DeleteProgram,
                    OnlyPrograms
<1>9. CASE QueueStep \/ NameStep
  BY <1>1, <1>9 DEF QueueStep, AddServiceMessage, ClearAllServiceMessages, ClearServiceMessage,
                    AddInboxDevice, AcceptInboxDevice, OnlyQueues, NameStep, SetDeviceName,
                    RegisterAddress, objectVars
<1>10. CASE ClearAll
  BY <1>10 DEF ClearAll, RoomInv
<1>11. CASE UNCHANGED stateVars
  BY <1>1, <1>11 DEF stateVars, objectVars
<1> QED
  BY <1>5, <1>6, <1>7, <1>8, <1>9, <1>10, <1>11 DEF StateStep

LEMMA StateKeepsBackup ==
  ASSUME BackupInv, StateStep
  PROVE  BackupInv'
<1>1. CASE UNCHANGED <<backup, backupData>>
  BY <1>1 DEF BackupInv
<1>2. CASE BackupStep
  <2>1. CASE \E on, late : SetBackupDelay(on, late)
    BY <1>1, <2>1 DEF SetBackupDelay
  <2>2. CASE BackupElapses \/ StartBackup \/ FailBackup \/ ResetBackup
    BY <1>1, <2>2 DEF BackupElapses, StartBackup, FailBackup, ResetBackup, Status, BackupInv
  <2>3. CASE PromoteBackup \/ CompleteBackup("file")
    BY <1>1, <2>3, StateAssumption, CcuAssumption DEF PromoteBackup, CompleteBackup, Status, BackupInv
  <2> QED
    BY <1>2, <2>1, <2>2, <2>3 DEF BackupStep
<1>3. CASE SysvarStep
  BY <1>1, <1>3 DEF SysvarStep, AddSystemVariable, SetSystemVariable, DeleteSystemVariable,
                    OnlySysvars, backupVars
<1>4. CASE RoomStep
  BY <1>1, <1>4 DEF RoomStep, AddRoom, AddFunction, AddChannelToRoom, RemoveChannelFromRoom,
                    AddChannelToFunction, OnlyRooms, backupVars
<1>5. CASE UpdateStep \/ NameStep
  BY <1>1, <1>5 DEF UpdateStep, TriggerUpdate, SetUpdateInfo, NameStep, SetDeviceName,
                    RegisterAddress, backupVars
<1>6. CASE ProgramStep
  BY <1>1, <1>6 DEF ProgramStep, AddProgram, SetProgramActive, ExecuteProgram, DeleteProgram,
                    OnlyPrograms, backupVars
<1>7. CASE QueueStep
  BY <1>1, <1>7 DEF QueueStep, AddServiceMessage, ClearAllServiceMessages, ClearServiceMessage,
                    AddInboxDevice, AcceptInboxDevice, OnlyQueues, backupVars
<1>8. CASE ClearAll
  BY <1>8 DEF ClearAll, Status, BackupInv
<1>9. CASE UNCHANGED stateVars
  BY <1>1, <1>9 DEF stateVars, backupVars
<1> QED
  BY <1>2, <1>3, <1>4, <1>5, <1>6, <1>7, <1>8, <1>9 DEF StateStep

LEMMA StateKeepsUpdate ==
  ASSUME UpdateInv, StateStep
  PROVE  UpdateInv'
<1>1. CASE updateInfo' = updateInfo
  BY <1>1 DEF UpdateInv
<1>2. CASE UpdateStep \/ ClearAll
  <2>1. ASSUME NEW x, NEW y, updateInfo' = Update(x, y)
        PROVE  UpdateInv'
    <3>1. /\ DOMAIN updateInfo' = {"current", "available", "update"}
          /\ updateInfo'.current = x /\ updateInfo'.available = y
          /\ updateInfo'.update = (x # y)
      BY <2>1 DEF Update
    <3> QED
      BY <3>1 DEF UpdateInv
  <2>2. CASE TriggerUpdate
    <3>1. /\ DOMAIN updateInfo' = {"current", "available", "update"}
          /\ updateInfo'.current = updateInfo.available
          /\ updateInfo'.available = updateInfo.available
          /\ updateInfo'.update = FALSE
      BY <2>2 DEF TriggerUpdate, UpdateInv
    <3> QED
      BY <3>1 DEF UpdateInv
  <2>3. CASE SetUpdateInfo(Firmware, "next") \/ ClearAll
    BY <2>1, <2>3 DEF SetUpdateInfo, ClearAll
  <2> QED
    BY <1>2, <2>2, <2>3 DEF UpdateStep
<1>3. CASE SysvarStep \/ RoomStep
  BY <1>1, <1>3 DEF SysvarStep, AddSystemVariable, SetSystemVariable, DeleteSystemVariable,
                    OnlySysvars, RoomStep, AddRoom, AddFunction, AddChannelToRoom,
                    RemoveChannelFromRoom, AddChannelToFunction, OnlyRooms
<1>4. CASE BackupStep \/ NameStep
  BY <1>1, <1>4 DEF BackupStep, SetBackupDelay, BackupElapses, StartBackup, PromoteBackup,
                    CompleteBackup, FailBackup, ResetBackup, OnlyBackup, NameStep, SetDeviceName,
                    RegisterAddress
<1>5. CASE ProgramStep \/ QueueStep
  BY <1>1, <1>5 DEF ProgramStep, AddProgram, SetProgramActive, ExecuteProgram, DeleteProgram,
                    OnlyPrograms, QueueStep, AddServiceMessage, ClearAllServiceMessages,
                    ClearServiceMessage, AddInboxDevice, AcceptInboxDevice, OnlyQueues
<1>6. CASE UNCHANGED stateVars
  BY <1>1, <1>6 DEF stateVars
<1> QED
  BY <1>2, <1>3, <1>4, <1>5, <1>6 DEF StateStep

-----------------------------------------------------------------------------
(* Who calls the state manager                                             *)

\* A handler of the web API makes one step of it at a time, or none.
LEMMA HandlersStepState ==
  ASSUME NEW s, Handle(s)
  PROVE  StateStep
<1>1. CASE UNCHANGED stateVars
  BY <1>1 DEF StateStep
<1>2. CASE SessionHandler(s) \/ InterfaceHandler(s) \/ QuietHandler(s) \/ Looks(s)
  BY <1>1, <1>2 DEF SessionHandler, InterfaceHandler, QuietHandler, Looks
<1>3. CASE StateHandler(s)
  <2>1. PICK arg : arg = CallOf(s).arg
    OBVIOUS
  <2>2. CASE sysvarSet(s, arg) \/ sysvarDelete(s, arg)
    BY <2>2 DEF sysvarSet, sysvarDelete, SysvarStep, StateStep
  <2>3. CASE programExecute(s, arg) \/ programSetActive(s, arg)
    BY <2>3 DEF programExecute, programSetActive, ProgramStep, StateStep
  <2>4. CASE setName(s, arg) \/ handleMaintenance(s)
    BY <2>4 DEF setName, handleMaintenance, NameStep, UpdateStep, StateStep
  <2>5. CASE RunScript(arg)
    <3>1. CASE handleAcceptInboxDevice(arg) \/ handleAcknowledgeMessage(arg)
      BY <3>1 DEF handleAcceptInboxDevice, handleAcknowledgeMessage, QueueStep, StateStep
    <3>2. CASE handleSetProgramState(arg) \/ setSysvarInline(arg)
      BY <3>2 DEF handleSetProgramState, setSysvarInline, ProgramStep, SysvarStep, StateStep
    <3>3. CASE handleBackupStart(arg) \/ handleBackupStatus(arg) \/ handleTriggerUpdate(arg)
      BY <3>3 DEF handleBackupStart, handleBackupStatus, handleTriggerUpdate, BackupStep, UpdateStep,
                  StateStep
    <3> QED
      BY <2>5, <3>1, <3>2, <3>3 DEF RunScript
  <2> QED
    BY <1>3, <2>1, <2>2, <2>3, <2>4, <2>5 DEF StateHandler
<1>4. CASE Acts(s)
  <2>1. \/ \E name, type, value, asked : AddSystemVariable(name, type, value, asked)
        \/ \E name, value : SetSystemVariable(name, value)
        \/ UNCHANGED stateVars
    BY <1>4 DEF Acts
  <2> QED
    BY <2>1 DEF SysvarStep, StateStep
<1>5. CASE DownloadStatus(s) \/ DownloadData(s)
  BY <1>5 DEF DownloadStatus, DownloadData, BackupStep, StateStep
<1>6. CASE ListAllDetail(s)
  BY <1>1, <1>6 DEF ListAllDetail, NameStep, StateStep
<1> QED
  BY <1>2, <1>3, <1>4, <1>5, <1>6 DEF Handle

LEMMA EveryStepOfState ==
  ASSUME [Next]_ccuVars
  PROVE  StateStep
<1>1. CASE UNCHANGED stateVars
  BY <1>1 DEF StateStep
<1>2. CASE StoreCall \/ LinkCall \/ StoreRun \/ CatalogueCall \/ CatalogueRun \/ FaultCall \/ FaultRun
  BY <1>1, <1>2 DEF StoreCall, LinkCall, StoreRun, CatalogueCall, CatalogueRun, FaultCall, FaultRun
<1>3. CASE LifeCall \/ LifeRun \/ WebCall \/ Admission \/ VirtualCall \/ VirtualRun
  BY <1>1, <1>3 DEF LifeCall, LifeRun, WebCall, Admission, VirtualCall, VirtualRun
<1>4. CASE WebRun
  BY <1>4, HandlersStepState DEF WebRun
<1>5. CASE StateRun
  BY <1>5 DEF StateRun, BackupStep, StateStep
<1>6. CASE StateCall
  <2>1. CASE \E on \in BOOLEAN, id \in {0, 1000} : AddProgram(on, id)
    BY <2>1 DEF ProgramStep, StateStep
  <2>2. CASE \E id \in DOMAIN programs : DeleteProgram(id)
    BY <2>2 DEF ProgramStep, StateStep
  <2>3. CASE \E name \in Names, id \in {0} \cup {one.id : one \in Range(Builtin)},
                type \in {"STRING", "BOOL"} : AddSystemVariable(name, type, 0, id)
    BY <2>3 DEF SysvarStep, StateStep
  <2>4. CASE AddRoom(<<>>, 0) \/ AddFunction(<<>>, 0)
    BY <2>4 DEF RoomStep, StateStep
  <2>5. CASE \/ \E id \in DOMAIN rooms, ch \in Partners :
                  AddChannelToRoom(id, ch) \/ RemoveChannelFromRoom(id, ch)
             \/ \E id \in DOMAIN functions, ch \in Partners : AddChannelToFunction(id, ch)
    BY <2>5 DEF RoomStep, StateStep
  <2>6. CASE AddServiceMessage \/ ClearAllServiceMessages
    BY <2>6 DEF QueueStep, StateStep
  <2>7. CASE \E a \in Partners : AddInboxDevice(a) \/ RegisterAddress(a)
    BY <2>7 DEF QueueStep, NameStep, StateStep
  <2>8. CASE \E on, late \in BOOLEAN : SetBackupDelay(on, late)
    BY <2>8 DEF BackupStep, StateStep
  <2>9. CASE CompleteBackup("file") \/ FailBackup \/ ResetBackup
    BY <2>9 DEF BackupStep, StateStep
  <2>10. CASE SetUpdateInfo(Firmware, "next") \/ ClearAll
    BY <2>10 DEF UpdateStep, StateStep
  <2> QED
    BY <1>6, <2>1, <2>2, <2>3, <2>4, <2>5, <2>6, <2>7, <2>8, <2>9, <2>10 DEF StateCall
<1>7. CASE UNCHANGED ccuVars
  BY <1>1, <1>7 DEF ccuVars
<1> QED
  BY <1>2, <1>3, <1>4, <1>5, <1>6, <1>7 DEF Next

-----------------------------------------------------------------------------
\* What is in the inbox was put there by the test.
InboxInv == inbox \in Seq(Partners)

LEMMA RemovedIsIn ==
  ASSUME NEW S, NEW r \in Seq(S), NEW v
  PROVE  RemoveFirst(r, v) \in Seq(S)
<1>1. CASE ~\E i \in 1 .. Len(r) : r[i] = v
  BY <1>1 DEF RemoveFirst
<1>2. CASE \E i \in 1 .. Len(r) : r[i] = v
  <2> DEFINE I == {i \in 1 .. Len(r) : r[i] = v}
  <2>1. PICK n \in Nat : n = Len(r)
    OBVIOUS
  <2>2. PICK k : k = SelectInSeq(r, LAMBDA x : x = v)
    OBVIOUS
  <2>3. k = Min(I)
    BY <1>2, <2>2 DEF SelectInSeq
  <2>4. k \in 1 .. n
    <3>1. I \in SUBSET Nat /\ I # {} /\ I \subseteq 1 .. n
      BY <1>2, <2>1
    <3> QED
      BY <2>3, <3>1, LeastNumber
  <2>5. PICK before : before = SubSeq(r, 1, k - 1)
    OBVIOUS
  <2>6. PICK after : after = SubSeq(r, k + 1, n)
    OBVIOUS
  <2>7. RemoveFirst(r, v) = before \o after
    BY <1>2, <2>1, <2>2, <2>5, <2>6 DEF RemoveFirst, RemoveAt
  <2>8. before \in Seq(S)
    <3>1. 1 \in Int /\ k - 1 \in Int /\ \A i \in 1 .. k - 1 : r[i] \in S
      BY <2>1, <2>4
    <3> QED
      BY <2>5, <3>1, SubSeqProperties
  <2>9. after \in Seq(S)
    <3>1. k + 1 \in Int /\ n \in Int /\ \A i \in k + 1 .. n : r[i] \in S
      BY <2>1, <2>4
    <3> QED
      BY <2>6, <3>1, SubSeqProperties
  <2> QED
    BY <2>7, <2>8, <2>9, ConcatProperties
<1> QED
  BY <1>1, <1>2

LEMMA StateKeepsInbox ==
  ASSUME InboxInv, StateStep
  PROVE  InboxInv'
<1>1. CASE QueueStep
  <2>1. CASE \E a \in Partners : AddInboxDevice(a)
    BY <2>1 DEF AddInboxDevice, InboxInv
  <2>2. CASE \E a : AcceptInboxDevice(a)
    <3>1. PICK a : inbox' = RemoveFirst(inbox, a)
      BY <2>2 DEF AcceptInboxDevice
    <3> QED
      BY <3>1, RemovedIsIn DEF InboxInv
  <2> QED
    BY <1>1, <2>1, <2>2 DEF QueueStep, AddServiceMessage, ClearAllServiceMessages,
                            ClearServiceMessage, InboxInv
<1>2. CASE ClearAll
  BY <1>2 DEF ClearAll, InboxInv
<1>3. CASE UNCHANGED inbox
  BY <1>3 DEF InboxInv
<1>4. CASE SysvarStep \/ RoomStep \/ BackupStep
  BY <1>3, <1>4 DEF SysvarStep, AddSystemVariable, SetSystemVariable, DeleteSystemVariable, OnlySysvars,
     RoomStep, AddRoom, AddFunction, AddChannelToRoom, RemoveChannelFromRoom, AddChannelToFunction, OnlyRooms,
     BackupStep, SetBackupDelay, BackupElapses, StartBackup, PromoteBackup, CompleteBackup, FailBackup,
     ResetBackup, OnlyBackup, objectVars, queueVars
<1>5. CASE UpdateStep \/ ProgramStep \/ NameStep \/ UNCHANGED stateVars
  BY <1>3, <1>5 DEF UpdateStep, TriggerUpdate, SetUpdateInfo, ProgramStep, AddProgram, SetProgramActive,
     ExecuteProgram, DeleteProgram, OnlyPrograms, NameStep, SetDeviceName, RegisterAddress, stateVars,
     objectVars, queueVars
<1> QED
  BY <1>1, <1>2, <1>4, <1>5 DEF StateStep

StateInv == IndexInv /\ RegaInv /\ RoomInv /\ BackupInv /\ UpdateInv /\ InboxInv

LEMMA StateStarts ==
  ASSUME StateInit
  PROVE  StateInv
<1>1. PICK n \in Nat : n = Len(Builtin) /\ DOMAIN Builtin = 1 .. n
  BY StateAssumption
<1>2. /\ objects = [o \in 1 .. n |-> [id |-> Builtin[o].id, name |-> Builtin[o].name,
                                      type |-> "BOOL", value |-> 0]]
      /\ clashed = {}
  BY <1>1 DEF StateInit
<1>3. objects = [o \in 1 .. n |-> objects[o]] /\ Len(objects) = n
  <2>1. objects = [o \in 1 .. n |-> objects[o]]
    BY <1>2
  <2> QED
    BY <2>1, AppendAny
<1>4. ASSUME NEW id \in DOMAIN sysvars
      PROVE  sysvars[id] \in 1 .. n /\ Builtin[sysvars[id]].id = id
  <2>1. id \in {one.id : one \in Range(Builtin)}
    BY DEF StateInit
  <2>2. \E o \in DOMAIN Builtin : Builtin[o].id = id
    BY <2>1 DEF Range
  <2>3. sysvars[id] = CHOOSE o \in DOMAIN Builtin : Builtin[o].id = id
    BY <2>1 DEF StateInit
  <2> QED
    BY <1>1, <2>2, <2>3
<1>5. ASSUME NEW name \in DOMAIN sysvarByName
      PROVE  sysvarByName[name] \in 1 .. n /\ Builtin[sysvarByName[name]].name = name
  <2>1. name \in {one.name : one \in Range(Builtin)}
    BY DEF StateInit
  <2>2. \E o \in DOMAIN Builtin : Builtin[o].name = name
    BY <2>1 DEF Range
  <2>3. sysvarByName[name] = CHOOSE o \in DOMAIN Builtin : Builtin[o].name = name
    BY <2>1 DEF StateInit
  <2> QED
    BY <1>1, <2>2, <2>3
<1>6. \A o \in 1 .. n : Builtin[o].id \in DOMAIN sysvars /\ Builtin[o].name \in DOMAIN sysvarByName
  BY <1>1 DEF StateInit, Range
<1>7. \A o, q \in 1 .. n : Builtin[o].id = Builtin[q].id \/ Builtin[o].name = Builtin[q].name => o = q
  BY <1>1, StateAssumption
<1>8. IndexInv
  <2>1. \A o \in 1 .. n : /\ DOMAIN objects[o] = {"id", "name", "type", "value"}
                          /\ objects[o].id = Builtin[o].id /\ objects[o].name = Builtin[o].name
    BY <1>2
  <2>2. IndexesAgree
    BY <1>4, <1>5, <1>6, <1>7, <2>1 DEF IndexesAgree
  <2>3. \A m, k \in DOMAIN sysvarByName :
          objects[sysvarByName[m]].id = objects[sysvarByName[k]].id => m = k
    BY <1>5, <1>7, <2>1
  <2> QED
    BY <1>3, <1>4, <1>5, <2>1, <2>2, <2>3 DEF IndexInv
<1>9. RegaInv
  BY DEF StateInit, RegaInv, Range
<1>10. RoomInv
  BY DEF StateInit, RoomInv
<1>11. BackupInv
  BY DEF StateInit, BackupInv, Status
<1>12. UpdateInv
  <2>1. updateInfo = [current |-> Firmware, available |-> Firmware, update |-> Firmware # Firmware]
    BY DEF StateInit, Update
  <2>2. /\ DOMAIN updateInfo = {"current", "available", "update"}
        /\ updateInfo.current = Firmware /\ updateInfo.available = Firmware
        /\ updateInfo.update = (Firmware # Firmware)
    BY <2>1
  <2> QED
    BY <2>2 DEF UpdateInv
<1>13. InboxInv
  BY DEF StateInit, InboxInv
<1> QED
  BY <1>8, <1>9, <1>10, <1>11, <1>12, <1>13 DEF StateInv

LEMMA EveryStepKeepsState ==
  ASSUME StateInv, [Next]_ccuVars
  PROVE  StateInv'
BY EveryStepOfState, StateKeepsIndexes, StateKeepsIds, StateKeepsRooms, StateKeepsBackup,
   StateKeepsUpdate, StateKeepsInbox DEF StateInv

\* Whatever a test and the web API add, delete, rename, clear and look up, the
\* indexes of the system variables, the ids of addresses, the backup, the
\* update and the rooms stay consistent (state/manager.go).
THEOREM ManagerStaysSound == Spec => []ManagerSound
<1>1. Init => StateInv
  BY StateStarts DEF Init
<1>2. StateInv /\ [Next]_ccuVars => StateInv'
  BY EveryStepKeepsState
<1>3. StateInv => ManagerSound
  BY DEF StateInv, IndexInv, RegaInv, RoomInv, IsRoom, BackupInv, UpdateInv, ManagerSound
<1> QED
  BY <1>1, <1>2, <1>3, PTL DEF Spec

-----------------------------------------------------------------------------
(* The order in which the simulator binds its listeners                    *)

Hosts == Interfaces \cup {"main", "script", "json", "ssdp"}
Ports == Hosts \X {"plain", "tls", "bin", "udp"}

\* When Start comes to a listener.
Rank(l) ==
  IF l \in OfInterfaces THEN 1
  ELSE IF l = Port("main", "plain") THEN 2
  ELSE IF l = Port("main", "tls") THEN 3
  ELSE IF l = Port("script", "plain") THEN 4
  ELSE IF l = Port("main", "bin") THEN 5
  ELSE IF l = Port("json", "plain") THEN 6
  ELSE IF l = Port("json", "tls") THEN 7
  ELSE IF l = Port("ssdp", "udp") THEN 8
  ELSE 9

\* A sequence of listeners whose ranks are low to high, and rise but for the
\* listeners of interfaces.
InOrder(s, low, high) ==
  /\ s \in Seq(Ports)
  /\ \A i \in 1 .. Len(s) : Rank(s[i]) \in low .. high
  /\ \A i, j \in 1 .. Len(s) : i < j => Rank(s[i]) < Rank(s[j]) \/ Rank(s[i]) = 1

LEMMA RankOfPorts ==
  ASSUME config \in Configs
  PROVE  /\ Interfaces \cap {"main", "script", "json", "ssdp"} = {}
         /\ Rank(Port("main", "plain")) = 2 /\ Rank(Port("main", "tls")) = 3
         /\ Rank(Port("script", "plain")) = 4 /\ Rank(Port("main", "bin")) = 5
         /\ Rank(Port("json", "plain")) = 6 /\ Rank(Port("json", "tls")) = 7
         /\ Rank(Port("ssdp", "udp")) = 8
         /\ \A l \in Ports : /\ Rank(l) \in 1 .. 9
                             /\ Rank(l) = 1 <=> l \in OfInterfaces
                             /\ Rank(l) = 2 => l = Port("main", "plain")
                             /\ Rank(l) = 3 => l = Port("main", "tls")
                             /\ Rank(l) = 4 => l = Port("script", "plain")
                             /\ Rank(l) = 5 => l = Port("main", "bin")
                             /\ Rank(l) = 6 => l = Port("json", "plain")
                             /\ Rank(l) = 7 => l = Port("json", "tls")
                             /\ Rank(l) = 8 => l = Port("ssdp", "udp")
<1>1. Interfaces \cap {"main", "script", "json", "ssdp"} = {}
  <2>1. config.interfaces \in Seq(STRING \ {"main", "script", "json", "ssdp"})
    BY VirtualAssumption
  <2> QED
    BY <2>1 DEF Interfaces, Range
<1>2. \A l \in OfInterfaces : l[1] \notin {"main", "script", "json", "ssdp"}
  BY <1>1 DEF OfInterfaces
<1>3. \A name, kind : name \in {"main", "script", "json", "ssdp"} => Port(name, kind) \notin OfInterfaces
  BY <1>1 DEF OfInterfaces, Port
<1> QED
  BY <1>1, <1>3 DEF Rank, Port

LEMMA OrderedConcat ==
  ASSUME NEW s, NEW t, NEW a \in Nat, NEW b \in Nat, NEW c \in Nat, NEW d \in Nat,
         InOrder(s, a, b), InOrder(t, c, d), a <= c, b < c, b <= d
  PROVE  InOrder(s \o t, a, d)
<1>1. PICK m \in Nat : m = Len(s)
  BY DEF InOrder
<1>2. PICK n \in Nat : n = Len(t)
  BY DEF InOrder
<1>3. PICK q : q = s \o t
  OBVIOUS
<1>4. /\ q \in Seq(Ports) /\ Len(q) = m + n
      /\ \A i \in 1 .. m + n : q[i] = IF i <= m THEN s[i] ELSE t[i - m]
  <2>1. s \in Seq(Ports) /\ t \in Seq(Ports)
    BY DEF InOrder
  <2> QED
    BY <1>1, <1>2, <1>3, <2>1, ConcatProperties
<1>5. \A i \in 1 .. m : Rank(s[i]) \in a .. b
  BY <1>1 DEF InOrder
<1>6. \A i \in 1 .. n : Rank(t[i]) \in c .. d
  BY <1>2 DEF InOrder
<1>7. \A i \in 1 .. m + n : /\ i <= m => q[i] = s[i] /\ i \in 1 .. m
                            /\ i > m => q[i] = t[i - m] /\ i - m \in 1 .. n
  BY <1>4
<1>8. \A i \in 1 .. m + n : Rank(q[i]) \in a .. d
  BY <1>5, <1>6, <1>7
<1>9. ASSUME NEW i \in 1 .. m + n, NEW j \in 1 .. m + n, i < j
      PROVE  Rank(q[i]) < Rank(q[j]) \/ Rank(q[i]) = 1
  <2>1. CASE j <= m
    BY <1>1, <1>7, <1>9, <2>1 DEF InOrder
  <2>2. CASE i > m
    <3>1. /\ q[i] = t[i - m] /\ i - m \in 1 .. Len(t)
          /\ q[j] = t[j - m] /\ j - m \in 1 .. Len(t) /\ i - m < j - m
      BY <1>2, <1>7, <1>9, <2>2
    <3> QED
      BY <3>1 DEF InOrder
  <2>3. CASE i <= m /\ j > m
    <3>1. Rank(q[i]) \in a .. b /\ Rank(q[j]) \in c .. d
      BY <1>5, <1>6, <1>7, <2>3
    <3> QED
      BY <3>1
  <2> QED
    BY <2>1, <2>2, <2>3
<1> QED
  BY <1>3, <1>4, <1>8, <1>9 DEF InOrder

\* A server's plain listener, and a TLS one if that is configured.
LEMMA TwinsInOrder ==
  ASSUME config \in Configs, NEW name \in {"main", "json"}, NEW tls \in BOOLEAN
  PROVE  /\ InOrder(Twins(name, tls), Rank(Port(name, "plain")), Rank(Port(name, "tls")))
         /\ Len(Twins(name, tls)) \in {1, 2} /\ Twins(name, tls)[1] = Port(name, "plain")
<1>1. Rank(Port(name, "plain")) \in Nat /\ Rank(Port(name, "tls")) = Rank(Port(name, "plain")) + 1
  BY RankOfPorts
<1>0. Port(name, "plain") \in Ports /\ Port(name, "tls") \in Ports
  BY DEF Port, Ports, Hosts
<1>2. CASE tls
  <2>1. PICK p : p = Port(name, "plain")
    OBVIOUS
  <2>2. PICK q : q = Port(name, "tls")
    OBVIOUS
  <2>3. Twins(name, tls) = <<p>> \o <<q>>
    BY <1>2, <2>1, <2>2 DEF Twins, Listed
  <2>4. <<p>> \in Seq(Ports) /\ <<q>> \in Seq(Ports) /\ Len(<<p>>) = 1 /\ Len(<<q>>) = 1
    BY <1>0, <2>1, <2>2
  <2>5. PICK both : both = <<p>> \o <<q>>
    OBVIOUS
  <2>6. both \in Seq(Ports) /\ Len(both) = 2 /\ both[1] = p /\ both[2] = q
    BY <2>4, <2>5, ConcatProperties
  <2> QED
    BY <1>1, <2>1, <2>2, <2>3, <2>5, <2>6 DEF InOrder
<1>3. CASE ~tls
  <2>1. Twins(name, tls) = <<Port(name, "plain")>>
    BY <1>3 DEF Twins, Listed
  <2> QED
    BY <1>0, <1>1, <2>1 DEF InOrder
<1> QED
  BY <1>2, <1>3

LEMMA ListedInOrder ==
  ASSUME NEW yes \in BOOLEAN, NEW s, NEW a \in Nat, NEW b \in Nat, InOrder(s, a, b)
  PROVE  InOrder(Listed(yes, s), a, b)
<1>1. InOrder(<<>>, a, b)
  BY DEF InOrder
<1> QED
  BY <1>1 DEF Listed

LEMMA OneInOrder ==
  ASSUME NEW l \in Ports, Rank(l) \in Nat
  PROVE  InOrder(<<l>>, Rank(l), Rank(l))
BY DEF InOrder

\* The TLS listener of an interface comes after its plain one.
TwinsFollow(s) ==
  \A j \in 1 .. Len(s) : s[j] \in OfInterfaces /\ s[j][2] = "tls" =>
    \E i \in 1 .. Len(s) : i < j /\ s[i] = Port(s[j][1], "plain")

LEMMA InterfacesInOrder ==
  ASSUME config \in Configs
  PROVE  InOrder(InterfacePorts, 1, 1) /\ TwinsFollow(InterfacePorts)
<1>1. PICK names : names = config.interfaces
  OBVIOUS
<1>2. PICK n \in Nat : n = Len(names) /\ DOMAIN names = 1 .. n
  BY <1>1, VirtualAssumption
<1>3. \A i \in 1 .. n : names[i] \in Interfaces
  BY <1>1, <1>2 DEF Interfaces, Range
<1>4. config.tls \in BOOLEAN
  BY VirtualAssumption
<1>5. PICK s : s = InterfacePorts
  OBVIOUS
<1>6. CASE config.tls
  <2>1. s = [i \in 1 .. 2 * n |-> Port(names[(i + 1) \div 2], IF i % 2 = 1 THEN "plain" ELSE "tls")]
    BY <1>1, <1>2, <1>5, <1>6 DEF InterfacePorts
  <2>2. \A i \in 1 .. 2 * n : (i + 1) \div 2 \in 1 .. n
    BY <1>2
  <2>3. \A i \in 1 .. 2 * n : s[i] \in OfInterfaces
    BY <1>3, <2>1, <2>2 DEF OfInterfaces, Port
  <2>4. s \in Seq(Ports) /\ Len(s) = 2 * n
    <3>1. \A i \in 1 .. 2 * n : s[i] \in Ports
      BY <2>3 DEF OfInterfaces, Ports, Hosts
    <3>2. 2 * n \in Nat
      BY <1>2
    <3> QED
      BY <2>1, <3>1, <3>2
  <2>5. InOrder(s, 1, 1)
    BY <2>3, <2>4 DEF InOrder, Rank
  <2>6. ASSUME NEW j \in 1 .. 2 * n, s[j][2] = "tls"
        PROVE  \E i \in 1 .. 2 * n : i < j /\ s[i] = Port(s[j][1], "plain")
    <3>1. j % 2 # 1
      BY <2>1, <2>6 DEF Port
    <3>2. j - 1 \in 1 .. 2 * n /\ (j - 1) % 2 = 1 /\ ((j - 1) + 1) \div 2 = (j + 1) \div 2
      BY <1>2, <3>1
    <3>3. s[j - 1] = Port(names[(j + 1) \div 2], "plain")
      BY <2>1, <3>2
    <3>4. s[j][1] = names[(j + 1) \div 2]
      BY <2>1 DEF Port
    <3> QED
      BY <3>2, <3>3, <3>4
  <2> QED
    BY <1>5, <2>4, <2>5, <2>6 DEF TwinsFollow
<1>7. CASE ~config.tls
  <2>1. s = [i \in 1 .. n |-> Port(names[i], "plain")]
    BY <1>1, <1>2, <1>5, <1>7 DEF InterfacePorts
  <2>2. \A i \in 1 .. n : s[i] \in OfInterfaces /\ s[i][2] = "plain"
    BY <1>3, <2>1 DEF OfInterfaces, Port
  <2>3. s \in Seq(Ports) /\ Len(s) = n
    BY <2>1, <2>2 DEF OfInterfaces, Ports, Hosts
  <2>4. InOrder(s, 1, 1)
    BY <2>2, <2>3 DEF InOrder, Rank
  <2> QED
    BY <1>5, <2>2, <2>3, <2>4 DEF TwinsFollow
<1> QED
  BY <1>4, <1>6, <1>7

\* What the proofs need to know of the plan.
PlanSound(p) ==
  /\ InOrder(p, 1, 8)
  /\ \E i \in 1 .. Len(p) : p[i] = Port("main", "plain")
  /\ TwinsFollow(p)

LEMMA PlanIsSound ==
  ASSUME config \in Configs
  PROVE  PlanSound(Plan)
<1> DEFINE noTwins == config.interfaces = <<>>
<1>1. /\ config.tls \in BOOLEAN /\ config.script \in BOOLEAN /\ config.bin \in BOOLEAN
      /\ config.web \in BOOLEAN /\ config.discovery \in BOOLEAN
  BY VirtualAssumption
<1>2. PICK tls : tls = (config.tls /\ noTwins)
  OBVIOUS
<1>3. tls \in BOOLEAN
  BY <1>2
<1>4. PICK s1 : s1 = InterfacePorts
  OBVIOUS
<1>5. PICK s2 : s2 = Twins("main", tls)
  OBVIOUS
<1>6. PICK s3 : s3 = Listed(config.script, <<Port("script", "plain")>>)
  OBVIOUS
<1>7. PICK s4 : s4 = Listed(config.bin, <<Port("main", "bin")>>)
  OBVIOUS
<1>8. PICK s5 : s5 = Listed(config.web, Twins("json", config.tls)
                                         \o Listed(config.discovery, <<Port("ssdp", "udp")>>))
  OBVIOUS
<1>9. Plan = s1 \o s2 \o s3 \o s4 \o s5
  BY <1>2, <1>4, <1>5, <1>6, <1>7, <1>8 DEF Plan
<1>10. InOrder(s1, 1, 1) /\ TwinsFollow(s1)
  BY <1>4, InterfacesInOrder
<1>11. InOrder(s2, 2, 3) /\ Len(s2) \in {1, 2} /\ s2[1] = Port("main", "plain")
  BY <1>3, <1>5, TwinsInOrder, RankOfPorts
<1>12. InOrder(s3, 4, 4) /\ InOrder(s4, 5, 5)
  <2>1. Port("script", "plain") \in Ports /\ Port("main", "bin") \in Ports
    BY DEF Port, Ports, Hosts
  <2>2. InOrder(<<Port("script", "plain")>>, 4, 4) /\ InOrder(<<Port("main", "bin")>>, 5, 5)
    BY <2>1, OneInOrder, RankOfPorts
  <2> QED
    BY <1>1, <1>6, <1>7, <2>2, ListedInOrder
<1>13. InOrder(s5, 6, 8)
  <2>1. InOrder(Twins("json", config.tls), 6, 7)
    BY <1>1, TwinsInOrder, RankOfPorts
  <2>2. Port("ssdp", "udp") \in Ports
    BY DEF Port, Ports, Hosts
  <2>3. InOrder(<<Port("ssdp", "udp")>>, 8, 8)
    BY <2>2, OneInOrder, RankOfPorts
  <2>4. InOrder(Listed(config.discovery, <<Port("ssdp", "udp")>>), 8, 8)
    BY <1>1, <2>3, ListedInOrder
  <2>5. InOrder(Twins("json", config.tls) \o Listed(config.discovery, <<Port("ssdp", "udp")>>), 6, 8)
    BY <2>1, <2>4, OrderedConcat
  <2> QED
    BY <1>1, <1>8, <2>5, ListedInOrder
<1>14. PICK q2 : q2 = s1 \o s2
  OBVIOUS
<1>15. PICK q3 : q3 = q2 \o s3
  OBVIOUS
<1>16. PICK q4 : q4 = q3 \o s4
  OBVIOUS
<1>17. PICK p : p = q4 \o s5
  OBVIOUS
<1>18. InOrder(q2, 1, 3)
  BY <1>10, <1>11, <1>14, OrderedConcat
<1>19. InOrder(q3, 1, 4)
  BY <1>12, <1>15, <1>18, OrderedConcat
<1>20. InOrder(q4, 1, 5)
  BY <1>12, <1>16, <1>19, OrderedConcat
<1>21. InOrder(p, 1, 8)
  BY <1>13, <1>17, <1>20, OrderedConcat
<1>22. ASSUME NEW s \in Seq(Ports), NEW t \in Seq(Ports)
       PROVE  /\ Len(s) \in Nat /\ Len(s \o t) \in Nat /\ Len(s) <= Len(s \o t)
              /\ \A i \in 1 .. Len(s) : (s \o t)[i] = s[i]
  <2>1. Len(s \o t) = Len(s) + Len(t) /\ Len(s) \in Nat /\ Len(t) \in Nat
    BY ConcatProperties
  <2>2. \A i \in 1 .. Len(s) + Len(t) : (s \o t)[i] = IF i <= Len(s) THEN s[i] ELSE t[i - Len(s)]
    BY ConcatProperties
  <2> QED
    BY <2>1, <2>2
<1>23. /\ s1 \in Seq(Ports) /\ s2 \in Seq(Ports) /\ s3 \in Seq(Ports) /\ s4 \in Seq(Ports)
       /\ s5 \in Seq(Ports) /\ q2 \in Seq(Ports) /\ q3 \in Seq(Ports) /\ q4 \in Seq(Ports)
  BY <1>10, <1>11, <1>12, <1>13, <1>18, <1>19, <1>20 DEF InOrder
<1>24. /\ Len(q2) <= Len(q3) /\ Len(q3) <= Len(q4) /\ Len(q4) <= Len(p)
       /\ Len(q2) \in Nat /\ Len(q3) \in Nat /\ Len(q4) \in Nat /\ Len(p) \in Nat
       /\ \A i \in 1 .. Len(q2) : q3[i] = q2[i]
       /\ \A i \in 1 .. Len(q3) : q4[i] = q3[i]
       /\ \A i \in 1 .. Len(q4) : p[i] = q4[i]
  <2>1. /\ Len(q2) \in Nat /\ Len(q3) \in Nat /\ Len(q2) <= Len(q3)
        /\ \A i \in 1 .. Len(q2) : q3[i] = q2[i]
    BY <1>15, <1>22, <1>23, Zenon
  <2>2. /\ Len(q4) \in Nat /\ Len(q3) <= Len(q4) /\ \A i \in 1 .. Len(q3) : q4[i] = q3[i]
    BY <1>16, <1>22, <1>23, Zenon
  <2>3. /\ Len(p) \in Nat /\ Len(q4) <= Len(p) /\ \A i \in 1 .. Len(q4) : p[i] = q4[i]
    BY <1>17, <1>22, <1>23, Zenon
  <2> QED
    BY <2>1, <2>2, <2>3, Zenon
<1>25. Len(q2) <= Len(p) /\ \A i \in 1 .. Len(q2) : p[i] = q2[i]
  BY <1>24
<1>26. /\ Len(s1) \in Nat /\ Len(s2) \in Nat /\ Len(q2) = Len(s1) + Len(s2)
       /\ \A i \in 1 .. Len(s1) + Len(s2) : q2[i] = IF i <= Len(s1) THEN s1[i] ELSE s2[i - Len(s1)]
  BY <1>14, <1>23, ConcatProperties
<1>27. p[Len(s1) + 1] = Port("main", "plain") /\ Len(s1) + 1 \in 1 .. Len(p)
  BY <1>11, <1>24, <1>25, <1>26
<1>28. ASSUME NEW j \in 1 .. Len(p), p[j] \in OfInterfaces
       PROVE  j <= Len(s1) /\ p[j] = s1[j]
  <2>1. Rank(p[j]) = 1 /\ Rank(p[Len(s1) + 1]) = 2
    BY <1>27, <1>28, RankOfPorts DEF Rank
  <2>2. ~(Len(s1) + 1 < j)
    BY <1>21, <1>27, <2>1 DEF InOrder
  <2>3. j <= Len(s1)
    BY <1>24, <1>26, <2>1, <2>2
  <2> QED
    BY <1>25, <1>26, <2>3
<1>29. TwinsFollow(p)
  <2> SUFFICES ASSUME NEW j \in 1 .. Len(p), p[j] \in OfInterfaces, p[j][2] = "tls"
               PROVE  \E i \in 1 .. Len(p) : i < j /\ p[i] = Port(p[j][1], "plain")
    BY DEF TwinsFollow
  <2>1. j \in 1 .. Len(s1) /\ p[j] = s1[j]
    BY <1>26, <1>28
  <2>2. PICK i \in 1 .. Len(s1) : i < j /\ s1[i] = Port(s1[j][1], "plain")
    BY <1>10, <2>1 DEF TwinsFollow
  <2>3. p[i] = s1[i] /\ i \in 1 .. Len(p)
    BY <1>24, <1>25, <1>26
  <2> QED
    BY <2>1, <2>2, <2>3
<1>30. Plan = p
  BY <1>9, <1>14, <1>15, <1>16, <1>17
<1> QED
  BY <1>21, <1>27, <1>29, <1>30 DEF PlanSound

-----------------------------------------------------------------------------
(* What Stop closes without the lock                                       *)

LEMMA RangeOfConcat ==
  ASSUME NEW s \in Seq(Ports), NEW t \in Seq(Ports)
  PROVE  s \o t \in Seq(Ports) /\ Range(s \o t) = Range(s) \cup Range(t)
<1>1. PICK m \in Nat : m = Len(s) /\ DOMAIN s = 1 .. m
  OBVIOUS
<1>2. PICK n \in Nat : n = Len(t) /\ DOMAIN t = 1 .. n
  OBVIOUS
<1>3. PICK q : q = s \o t
  OBVIOUS
<1>4. /\ q \in Seq(Ports) /\ Len(q) = m + n /\ DOMAIN q = 1 .. m + n
      /\ \A i \in 1 .. m + n : q[i] = IF i <= m THEN s[i] ELSE t[i - m]
  BY <1>1, <1>2, <1>3, ConcatProperties
<1>5. ASSUME NEW x, x \in Range(q) PROVE x \in Range(s) \cup Range(t)
  <2>1. PICK i \in 1 .. m + n : x = q[i]
    BY <1>4, <1>5 DEF Range
  <2>2. CASE i <= m
    BY <1>1, <1>4, <2>1, <2>2 DEF Range
  <2>3. CASE i > m
    <3>1. i - m \in 1 .. n /\ x = t[i - m]
      BY <1>4, <2>1, <2>3
    <3> QED
      BY <1>2, <3>1 DEF Range
  <2> QED
    BY <2>2, <2>3
<1>6. ASSUME NEW x, x \in Range(s) PROVE x \in Range(q)
  <2>1. PICK i \in 1 .. m : x = s[i]
    BY <1>1, <1>6 DEF Range
  <2>2. i \in 1 .. m + n /\ q[i] = x
    BY <1>4, <2>1
  <2> QED
    BY <1>4, <2>2 DEF Range
<1>7. ASSUME NEW x, x \in Range(t) PROVE x \in Range(q)
  <2>1. PICK i \in 1 .. n : x = t[i]
    BY <1>2, <1>7 DEF Range
  <2>2. m + i \in 1 .. m + n /\ q[m + i] = x
    BY <1>4, <2>1
  <2> QED
    BY <1>4, <2>2 DEF Range
<1> QED
  BY <1>3, <1>4, <1>5, <1>6, <1>7

LEMMA PlannedRange ==
  ASSUME NEW l \in Ports
  PROVE  /\ Planned(l) \in Seq(Ports)
         /\ Range(Planned(l)) = IF l \in Range(Plan) THEN {l} ELSE {}
<1>1. CASE l \in Range(Plan)
  <2>1. Planned(l) = <<l>>
    BY <1>1 DEF Planned, Listed
  <2>2. <<l>> \in Seq(Ports) /\ DOMAIN <<l>> = {1} /\ <<l>>[1] = l
    OBVIOUS
  <2>3. Range(<<l>>) = {l}
    BY <2>2 DEF Range
  <2> QED
    BY <1>1, <2>1, <2>2, <2>3
<1>2. CASE l \notin Range(Plan)
  <2>1. Planned(l) = <<>>
    BY <1>2 DEF Planned, Listed
  <2>2. <<>> \in Seq(Ports) /\ DOMAIN <<>> = {}
    OBVIOUS
  <2>3. Range(<<>>) = {}
    BY <2>2 DEF Range
  <2> QED
    BY <1>2, <2>1, <2>2, <2>3
<1> QED
  BY <1>1, <1>2

ClosedLate == {Port("ssdp", "udp"), Port("json", "tls"), Port("json", "plain"),
               Port("main", "bin"), Port("main", "tls"), Port("main", "plain")}

LEMMA ClosingRange ==
  Closing \in Seq(Ports) /\ Range(Closing) = ClosedLate \cap Range(Plan)
<1>1. ClosedLate \subseteq Ports
  BY DEF ClosedLate, Port, Ports, Hosts
<1>2. PICK a : a = Planned(Port("ssdp", "udp"))
  OBVIOUS
<1>3. PICK b : b = Planned(Port("json", "tls"))
  OBVIOUS
<1>4. PICK c : c = Planned(Port("json", "plain"))
  OBVIOUS
<1>5. PICK d : d = Planned(Port("main", "bin"))
  OBVIOUS
<1>6. PICK e : e = Planned(Port("main", "tls"))
  OBVIOUS
<1>7. PICK f : f = Planned(Port("main", "plain"))
  OBVIOUS
<1>8. Closing = a \o b \o c \o d \o e \o f
  BY <1>2, <1>3, <1>4, <1>5, <1>6, <1>7 DEF Closing
<1>9. /\ a \in Seq(Ports) /\ b \in Seq(Ports) /\ c \in Seq(Ports)
      /\ d \in Seq(Ports) /\ e \in Seq(Ports) /\ f \in Seq(Ports)
  BY <1>1, <1>2, <1>3, <1>4, <1>5, <1>6, <1>7, PlannedRange DEF ClosedLate
<1>10. a \o b \in Seq(Ports) /\ Range(a \o b) = Range(a) \cup Range(b)
  BY <1>9, RangeOfConcat, Zenon
<1>11. a \o b \o c \in Seq(Ports) /\ Range(a \o b \o c) = Range(a \o b) \cup Range(c)
  BY <1>9, <1>10, RangeOfConcat, Zenon
<1>12. a \o b \o c \o d \in Seq(Ports) /\ Range(a \o b \o c \o d) = Range(a \o b \o c) \cup Range(d)
  BY <1>9, <1>11, RangeOfConcat, Zenon
<1>13. /\ a \o b \o c \o d \o e \in Seq(Ports)
       /\ Range(a \o b \o c \o d \o e) = Range(a \o b \o c \o d) \cup Range(e)
  BY <1>9, <1>12, RangeOfConcat, Zenon
<1>14. /\ a \o b \o c \o d \o e \o f \in Seq(Ports)
       /\ Range(a \o b \o c \o d \o e \o f) = Range(a \o b \o c \o d \o e) \cup Range(f)
  BY <1>9, <1>13, RangeOfConcat, Zenon
<1>15. Closing \in Seq(Ports)
       /\ Range(Closing) = Range(a) \cup Range(b) \cup Range(c) \cup Range(d) \cup Range(e) \cup Range(f)
  BY <1>8, <1>10, <1>11, <1>12, <1>13, <1>14, Zenon
<1>16. \A l \in ClosedLate : Range(Planned(l)) = {l} \cap Range(Plan)
  BY <1>1, PlannedRange
<1> QED
  BY <1>2, <1>3, <1>4, <1>5, <1>6, <1>7, <1>15, <1>16 DEF ClosedLate

-----------------------------------------------------------------------------
(* The simulator                                                           *)

\* A start runs or is in progress.
Live == ccuUp \/ todo # <<>>

\* The listeners that it has bound so far.
Made == {Plan[i] : i \in 1 .. Len(Plan) - Len(todo)}

VirtualType ==
  /\ config \in Configs /\ ccuUp \in BOOLEAN /\ starts \in Nat
  /\ refs \in [{"main", "interfaces", "json", "script", "ssdp"} -> 0 .. starts]
  /\ DOMAIN servers \subseteq Hosts \X Nat
  /\ \A h \in DOMAIN servers : servers[h] \in [asleep : BOOLEAN, tls : BOOLEAN, bin : BOOLEAN]
  /\ bound \subseteq Ports \X Nat
  /\ tails \subseteq [of : 1 .. starts, rest : Seq(Ports)]
  /\ \A t \in tails : t.rest # <<>> /\ refs.main # t.of
  /\ scenario \subseteq [op : {"stop", "start", "restart"}, on : Hosts \X (0 .. starts)]
  /\ failed \subseteq 0 .. starts /\ lateBin \subseteq 0 .. starts

\* What a Start has still to bind is the end of the plan.
TodoInv ==
  /\ todo \in Seq(Ports)
  /\ ccuUp => todo = <<>>
  /\ Len(todo) <= Len(Plan)
  /\ \A i \in 1 .. Len(todo) : todo[i] = Plan[Len(Plan) - Len(todo) + i]

\* The servers of the latest start: they have the listeners that were bound for
\* them, unless they were suspended; nobody else has got hold of one before the
\* start is through.
OwnServers ==
  /\ \A n \in Hosts : <<n, starts>> \in DOMAIN servers =>
       /\ n \in Interfaces \cup {"main"}
       /\ Port(n, "plain") \in Made
       /\ servers[<<n, starts>>].tls <=> Port(n, "tls") \in Made
       /\ servers[<<n, starts>>].bin => Port(n, "bin") \in Made
       /\ servers[<<n, starts>>].asleep => todo = <<>>
  /\ \A l \in Made : l[1] \in Interfaces \cup {"main"} => <<l[1], starts>> \in DOMAIN servers
OwnPorts ==
  /\ \A l \in Ports : <<l, starts>> \in bound => l \in Made
  /\ \A l \in Made : l[2] \in {"plain", "tls"} =>
       \/ <<l, starts>> \in bound
       \/ l[1] \in Interfaces \cup {"main"} /\ servers[<<l[1], starts>>].asleep
OwnRefs ==
  /\ starts >= 1
  /\ Port("main", "plain") \in Made => refs.main = starts /\ refs.interfaces = starts
  /\ Port("script", "plain") \in Made => refs.script = starts
  /\ todo # <<>> => \A c \in scenario : c.on[2] < starts
  /\ \A t \in tails : t.of < starts
OwnInv == Live => OwnServers /\ OwnPorts /\ OwnRefs

\* Servers and listeners that are left of earlier starts.
Kept(n, g) ==
  \/ Live /\ g = starts
  \/ g \in failed /\ n \notin {"main", "json"}
  \/ n = "main" /\ \E t \in tails : /\ t.of = g /\ Port("main", "plain") \in Range(t.rest)
                                    /\ servers[<<n, g>>].tls => Port("main", "tls") \in Range(t.rest)
Owed(l, g) ==
  \/ Live /\ g = starts
  \/ \E t \in tails : t.of = g /\ l \in Range(t.rest)
  \/ g \in failed /\ l \notin {Port("json", "plain"), Port("json", "tls"),
                               Port("main", "plain"), Port("main", "bin")}
  \/ g \in lateBin /\ l = Port("main", "bin")
OldInv ==
  /\ \A n \in Hosts, g \in Nat : <<n, g>> \in DOMAIN servers => Kept(n, g)
  /\ \A l \in Ports, g \in Nat : <<l, g>> \in bound => Owed(l, g)

VirtualInv == VirtualType /\ TodoInv /\ OwnInv /\ OldInv

LEMMA SameConfig ==
  ASSUME config' = config
  PROVE  /\ Plan' = Plan /\ Interfaces' = Interfaces /\ OfInterfaces' = OfInterfaces
         /\ Hosts' = Hosts /\ Ports' = Ports
<1>1. Interfaces' = Interfaces /\ OfInterfaces' = OfInterfaces /\ Hosts' = Hosts /\ Ports' = Ports
  BY DEF Interfaces, OfInterfaces, Hosts, Ports
<1>2. Plan' = Plan
  BY DEF Plan, InterfacePorts
<1> QED
  BY <1>1, <1>2

\* The invariant says what the property says.
LEMMA VirtualInvImplies ==
  ASSUME VirtualInv
  PROVE  VirtualSound
<1>1. ASSUME ccuUp, NEW l \in Range(Plan), l[2] \in {"plain", "tls"}
      PROVE  \/ <<l, starts>> \in bound
             \/ l[1] \in Interfaces \cup {"main"} /\ servers[<<l[1], starts>>].asleep
  <2>1. todo = <<>> /\ Len(todo) = 0 /\ OwnPorts
    BY <1>1 DEF VirtualInv, TodoInv, OwnInv, Live
  <2>2. Plan \in Seq(Ports)
    BY PlanIsSound DEF VirtualInv, VirtualType, PlanSound, InOrder
  <2>3. l \in Made
    BY <2>1, <2>2 DEF Made, Range
  <2> QED
    BY <1>1, <2>1, <2>3 DEF OwnPorts
<1>2. ASSUME NEW b \in bound
      PROVE  \/ b[2] = starts /\ (ccuUp \/ todo # <<>>)
             \/ \E t \in tails : t.of = b[2] /\ b[1] \in Range(t.rest)
             \/ b[2] \in failed /\ b[1] \notin {Port("json", "plain"), Port("json", "tls"),
                                                Port("main", "plain"), Port("main", "bin")}
             \/ b[2] \in lateBin /\ b[1] = Port("main", "bin")
  <2>1. b[1] \in Ports /\ b[2] \in Nat /\ b = <<b[1], b[2]>>
    BY DEF VirtualInv, VirtualType
  <2>2. Owed(b[1], b[2])
    BY <2>1 DEF VirtualInv, OldInv
  <2> QED
    BY <2>2 DEF Owed, Live
<1> QED
  BY <1>1, <1>2 DEF VirtualSound

LEMMA VirtualStarts ==
  ASSUME VirtualInit
  PROVE  VirtualInv
<1>1. Plan \in Seq(Ports)
  BY PlanIsSound DEF VirtualInit, PlanSound, InOrder
<1>2. VirtualType
  <2>1. DOMAIN servers = {}
    BY DEF VirtualInit
  <2>2. refs \in [{"main", "interfaces", "json", "script", "ssdp"} -> 0 .. starts]
    BY DEF VirtualInit
  <2> QED
    BY <2>1, <2>2 DEF VirtualInit, VirtualType
<1>3. TodoInv
  BY <1>1 DEF VirtualInit, TodoInv
<1>4. OwnInv /\ OldInv
  BY DEF VirtualInit, OwnInv, OldInv, Live
<1> QED
  BY <1>2, <1>3, <1>4 DEF VirtualInv

\* What the invariant says of the plan.
LEMMA MadeFacts ==
  ASSUME VirtualInv
  PROVE  /\ config \in Configs /\ PlanSound(Plan)
         /\ Plan \in Seq(Ports) /\ Len(Plan) \in Nat /\ Len(Plan) >= 1
         /\ todo \in Seq(Ports) /\ Len(todo) \in 0 .. Len(Plan)
         /\ Made \subseteq Range(Plan) /\ Range(Plan) \subseteq Ports
         /\ \A l \in Range(Plan) : Rank(l) \in 1 .. 8
         /\ todo = <<>> => Made = Range(Plan)
         /\ Port("main", "plain") \in Range(Plan)
<1>1. config \in Configs
  BY DEF VirtualInv, VirtualType
<1>2. PlanSound(Plan)
  BY <1>1, PlanIsSound
<1>3. Plan \in Seq(Ports) /\ Len(Plan) \in Nat /\ DOMAIN Plan = 1 .. Len(Plan)
  BY <1>2 DEF PlanSound, InOrder
<1>4. todo \in Seq(Ports) /\ Len(todo) \in 0 .. Len(Plan)
  BY <1>3 DEF VirtualInv, TodoInv
<1>5. Range(Plan) = {Plan[i] : i \in 1 .. Len(Plan)}
  BY <1>3 DEF Range
<1>6. \A l \in Range(Plan) : l \in Ports /\ Rank(l) \in 1 .. 8
  BY <1>2, <1>3, <1>5 DEF PlanSound, InOrder
<1>7. Made \subseteq Range(Plan)
  BY <1>3, <1>4, <1>5 DEF Made
<1>8. todo = <<>> => Made = Range(Plan)
  BY <1>3, <1>5 DEF Made
<1>9. Port("main", "plain") \in Range(Plan) /\ Len(Plan) >= 1
  BY <1>2, <1>3, <1>5 DEF PlanSound
<1> QED
  BY <1>1, <1>2, <1>3, <1>4, <1>6, <1>7, <1>8, <1>9

\* What Start has done when it comes to a listener.
LEMMA NextPort ==
  ASSUME VirtualInv, todo # <<>>
  PROVE  LET l == Head(todo) IN
         /\ ~ccuUp /\ Live
         /\ l \in Range(Plan) /\ l \in Ports /\ Rank(l) \in 1 .. 8
         /\ Tail(todo) \in Seq(Ports) /\ Len(Tail(todo)) = Len(todo) - 1
         /\ Len(todo) = 1 <=> Tail(todo) = <<>>
         /\ \A m \in Made : Rank(m) < Rank(l) \/ Rank(m) = 1
         /\ Rank(l) > 2 => Port("main", "plain") \in Made
         /\ l \in OfInterfaces /\ l[2] = "tls" => Port(l[1], "plain") \in Made
         /\ Rank(l) = 8 => Len(todo) = 1
<1> DEFINE n == Len(Plan)
           k == Len(Plan) - Len(todo)
           l == Head(todo)
<1>1. PlanSound(Plan) /\ InOrder(Plan, 1, 8) /\ n \in Nat
  BY MadeFacts DEF PlanSound
<1>2. /\ todo \in Seq(Ports) /\ Len(todo) \in 1 .. n /\ l = todo[1]
      /\ Tail(todo) \in Seq(Ports) /\ Len(Tail(todo)) = Len(todo) - 1
  BY MadeFacts
<1>3. l = Plan[k + 1] /\ k + 1 \in 1 .. n /\ k \in Nat
  BY <1>1, <1>2 DEF VirtualInv, TodoInv
<1>4. l \in Range(Plan) /\ l \in Ports /\ Rank(l) \in 1 .. 8
  <2>1. DOMAIN Plan = 1 .. n
    BY MadeFacts
  <2>2. l \in Range(Plan)
    BY <1>3, <2>1 DEF Range
  <2> QED
    BY <2>2, MadeFacts
<1>5. \A m \in Made : Rank(m) < Rank(l) \/ Rank(m) = 1
  <2> SUFFICES ASSUME NEW i \in 1 .. k
               PROVE  Rank(Plan[i]) < Rank(l) \/ Rank(Plan[i]) = 1
    BY DEF Made
  <2>1. i \in 1 .. n /\ i < k + 1
    BY <1>1, <1>3
  <2> QED
    BY <1>1, <1>3, <2>1 DEF InOrder
<1>6. ASSUME Rank(l) > 2
      PROVE  Port("main", "plain") \in Made
  <2>1. PICK i \in 1 .. n : Plan[i] = Port("main", "plain")
    BY <1>1 DEF PlanSound
  <2>2. Rank(Plan[i]) = 2
    BY <2>1, MadeFacts, RankOfPorts
  <2>3. ~(k + 1 < i) /\ i # k + 1
    BY <1>1, <1>3, <1>4, <1>6, <2>2 DEF InOrder
  <2>4. i \in 1 .. k
    BY <1>1, <1>3, <2>3
  <2> QED
    BY <2>1, <2>4 DEF Made
<1>7. ASSUME l \in OfInterfaces, l[2] = "tls"
      PROVE  Port(l[1], "plain") \in Made
  <2>1. PICK i \in 1 .. n : i < k + 1 /\ Plan[i] = Port(l[1], "plain")
    BY <1>1, <1>3, <1>7 DEF PlanSound, TwinsFollow
  <2>2. i \in 1 .. k
    BY <1>3, <2>1
  <2> QED
    BY <2>1, <2>2 DEF Made
<1>8. ASSUME Rank(l) = 8
      PROVE  Len(todo) = 1
  <2>1. CASE k + 2 \in 1 .. n
    <3>1. Rank(Plan[k + 2]) \in 1 .. 8 /\ (8 < Rank(Plan[k + 2]) \/ 8 = 1)
      <4>1. Rank(Plan[k + 1]) < Rank(Plan[k + 2]) \/ Rank(Plan[k + 1]) = 1
        BY <1>1, <1>3, <2>1 DEF InOrder
      <4>2. Rank(Plan[k + 1]) = 8
        BY <1>3, <1>8
      <4>3. Rank(Plan[k + 2]) \in 1 .. 8
        BY <1>1, <2>1 DEF InOrder
      <4> QED
        BY <4>1, <4>2, <4>3
    <3> QED
      BY <3>1
  <2>2. CASE k + 2 \notin 1 .. n
    BY <1>1, <1>2, <1>3, <2>2
  <2> QED
    BY <2>1, <2>2
<1>9. Len(todo) = 1 <=> Tail(todo) = <<>>
  <2>1. Tail(todo) = <<>> <=> Len(Tail(todo)) = 0
    BY <1>2, EmptySeq
  <2> QED
    BY <1>2, <2>1
<1>10. ~ccuUp /\ Live
  BY DEF VirtualInv, TodoInv, VirtualType, Live
<1> QED
  BY <1>2, <1>4, <1>5, <1>6, <1>7, <1>8, <1>9, <1>10

\* Start goes on to the next listener.
LEMMA NextMade ==
  ASSUME VirtualInv, todo # <<>>, config' = config, todo' = Tail(todo), ccuUp' = (Len(todo) = 1)
  PROVE  Made' = Made \cup {Head(todo)} /\ TodoInv' /\ Live'
<1> DEFINE n == Len(Plan)
           k == Len(Plan) - Len(todo)
<1>1. Plan' = Plan /\ Ports' = Ports
  BY SameConfig
<1>2. n \in Nat /\ todo \in Seq(Ports) /\ Len(todo) \in 1 .. n /\ Head(todo) = todo[1]
  BY MadeFacts
<1>3. /\ Tail(todo) \in Seq(Ports) /\ Len(Tail(todo)) = Len(todo) - 1
      /\ \A i \in 1 .. Len(todo) - 1 : Tail(todo)[i] = todo[i + 1]
      /\ Len(todo) = 1 <=> Tail(todo) = <<>>
  BY <1>2, NextPort
<1>4. \A i \in 1 .. Len(todo) : todo[i] = Plan[k + i]
  BY DEF VirtualInv, TodoInv
<1>5. Made' = {Plan[i] : i \in 1 .. k + 1}
  BY <1>1, <1>2, <1>3 DEF Made
<1>6. Made' = Made \cup {Plan[k + 1]}
  <2>1. k \in Nat
    BY <1>2
  <2>2. \A i : i \in 1 .. k + 1 <=> i \in 1 .. k \/ i = k + 1
    BY <2>1
  <2> QED
    BY <1>5, <2>2 DEF Made
<1>7. Head(todo) = Plan[k + 1]
  BY <1>2, <1>4
<1>8. TodoInv'
  <2>1. Len(todo') = Len(todo) - 1 /\ n - Len(todo') = k + 1
    BY <1>2, <1>3
  <2>2. \A i \in 1 .. Len(todo') : todo'[i] = Plan[n - Len(todo') + i]
    <3> SUFFICES ASSUME NEW i \in 1 .. Len(todo')
                 PROVE  todo'[i] = Plan[n - Len(todo') + i]
      OBVIOUS
    <3>1. i \in 1 .. Len(todo) - 1 /\ i + 1 \in 1 .. Len(todo)
      BY <1>2, <2>1
    <3>2. todo'[i] = todo[i + 1] /\ todo[i + 1] = Plan[k + (i + 1)]
      BY <1>3, <1>4, <3>1
    <3>3. k + (i + 1) = n - Len(todo') + i
      BY <1>2, <2>1, <3>1
    <3> QED
      BY <3>2, <3>3
  <2>3. ccuUp' => todo' = <<>>
    BY <1>3
  <2>4. todo' \in Seq(Ports) /\ Len(todo') <= n
    BY <1>2, <1>3
  <2> QED
    BY <1>1, <2>1, <2>2, <2>3, <2>4 DEF TodoInv
<1>9. Live'
  BY <1>3 DEF Live
<1> QED
  BY <1>6, <1>7, <1>8, <1>9

LEMMA SameMade ==
  ASSUME VirtualInv, UNCHANGED <<config, ccuUp, todo>>
  PROVE  Made' = Made /\ TodoInv' /\ Live' = Live
<1>1. Plan' = Plan /\ Ports' = Ports
  BY SameConfig
<1> QED
  BY <1>1 DEF Made, TodoInv, Live, VirtualInv

\* Start takes the lock: nothing is left that carries the new number.
LEMMA StartKeepsVirtual ==
  ASSUME VirtualInv, StartCcu
  PROVE  VirtualInv'
<1>1. /\ todo = <<>> /\ ~ccuUp /\ starts' = starts + 1 /\ todo' = Plan
      /\ UNCHANGED <<config, ccuUp, refs, servers, bound, tails, scenario, foreign, failed, lateBin>>
  BY DEF StartCcu
<1>2. Plan' = Plan /\ Hosts' = Hosts /\ Ports' = Ports /\ Interfaces' = Interfaces
  BY <1>1, SameConfig
<1>3. starts \in Nat /\ VirtualType
  BY DEF VirtualInv, VirtualType
<1>4. VirtualType'
  <2>1. refs' \in [{"main", "interfaces", "json", "script", "ssdp"} -> 0 .. starts']
    BY <1>1, <1>3 DEF VirtualType
  <2>2. tails' \subseteq [of : 1 .. starts', rest : Seq(Ports')]
    BY <1>1, <1>2, <1>3 DEF VirtualType
  <2>3. scenario' \subseteq [op : {"stop", "start", "restart"}, on : Hosts' \X (0 .. starts')]
    BY <1>1, <1>2, <1>3 DEF VirtualType
  <2> QED
    BY <1>1, <1>2, <1>3, <2>1, <2>2, <2>3 DEF VirtualType
<1>5. TodoInv'
  <2>1. Plan \in Seq(Ports) /\ Len(Plan) \in Nat
    BY MadeFacts
  <2> QED
    BY <1>1, <1>2, <2>1 DEF TodoInv
<1>6. Made' = {}
  BY <1>1, <1>2, MadeFacts DEF Made
<1>7. ~Live
  BY <1>1 DEF Live
<1>8. \A n \in Hosts : <<n, starts + 1>> \notin DOMAIN servers
  <2> SUFFICES ASSUME NEW n \in Hosts, <<n, starts + 1>> \in DOMAIN servers
               PROVE  FALSE
    OBVIOUS
  <2>1. Kept(n, starts + 1)
    BY <1>3 DEF VirtualInv, OldInv
  <2> QED
    BY <1>3, <1>7, <2>1 DEF Kept, VirtualType
<1>9. \A l \in Ports : <<l, starts + 1>> \notin bound
  <2> SUFFICES ASSUME NEW l \in Ports, <<l, starts + 1>> \in bound
               PROVE  FALSE
    OBVIOUS
  <2>1. Owed(l, starts + 1)
    BY <1>3 DEF VirtualInv, OldInv
  <2> QED
    BY <1>3, <1>7, <2>1 DEF Owed, VirtualType
<1>10. OwnServers' /\ OwnPorts'
  BY <1>1, <1>2, <1>6, <1>8, <1>9 DEF OwnServers, OwnPorts
<1>11. OwnRefs'
  <2>1. \A c \in scenario : c.on[2] \in 0 .. starts
    BY <1>3 DEF VirtualType
  <2>2. \A t \in tails : t.of \in 1 .. starts
    BY <1>3 DEF VirtualType
  <2> QED
    BY <1>1, <1>3, <1>6, <2>1, <2>2 DEF OwnRefs
<1>12. OldInv'
  <2>1. ASSUME NEW n \in Hosts, NEW g \in Nat, <<n, g>> \in DOMAIN servers
        PROVE  Kept(n, g)'
    <3>1. Kept(n, g)
      BY <2>1 DEF VirtualInv, OldInv
    <3> QED
      BY <1>1, <1>7, <3>1 DEF Kept
  <2>2. ASSUME NEW l \in Ports, NEW g \in Nat, <<l, g>> \in bound
        PROVE  Owed(l, g)'
    <3>1. Owed(l, g)
      BY <2>2 DEF VirtualInv, OldInv
    <3> QED
      BY <1>1, <1>7, <3>1 DEF Owed
  <2> QED
    BY <1>1, <1>2, <2>1, <2>2 DEF OldInv
<1> QED
  BY <1>4, <1>5, <1>10, <1>11, <1>12 DEF VirtualInv, OwnInv

\* During a start nobody has suspended a server of it.
LEMMA AwakeDuringStart ==
  ASSUME VirtualInv, todo # <<>>
  PROVE  /\ \A l \in Made : l[2] \in {"plain", "tls"} => <<l, starts>> \in bound
         /\ \A l \in Ports : <<l, starts>> \in bound => l \in Made
         /\ \A n \in Hosts : <<n, starts>> \in DOMAIN servers =>
              /\ n \in Interfaces \cup {"main"} /\ Port(n, "plain") \in Made
              /\ ~servers[<<n, starts>>].asleep
<1>1. OwnServers /\ OwnPorts
  BY NextPort DEF VirtualInv, OwnInv
<1>2. \A l \in Made : l \in Ports
  BY MadeFacts
<1>3. \A n \in Hosts : <<n, starts>> \in DOMAIN servers =>
        /\ n \in Interfaces \cup {"main"} /\ Port(n, "plain") \in Made
        /\ ~servers[<<n, starts>>].asleep
  BY <1>1 DEF OwnServers
<1>4. ASSUME NEW l \in Made, l[2] \in {"plain", "tls"}
      PROVE  <<l, starts>> \in bound
  <2>1. CASE l[1] \in Interfaces \cup {"main"}
    <3>1. l[1] \in Hosts /\ <<l[1], starts>> \in DOMAIN servers
      BY <1>1, <1>2, <2>1 DEF OwnServers, Ports
    <3> QED
      BY <1>1, <1>3, <1>4, <3>1 DEF OwnPorts
  <2> QED
    BY <1>1, <1>4, <2>1 DEF OwnPorts
<1> QED
  BY <1>1, <1>3, <1>4 DEF OwnPorts

\* A step that leaves the tails alone keeps what is owed to earlier starts.
LEMMA OthersStay ==
  ASSUME VirtualInv, UNCHANGED <<config, starts, tails>>,
         failed \subseteq failed', lateBin \subseteq lateBin',
         NEW n \in Hosts, NEW l \in Ports, NEW g \in Nat, g # starts
  PROVE  /\ Kept(n, g) /\ servers'[<<n, g>>].tls = servers[<<n, g>>].tls => Kept(n, g)'
         /\ Owed(l, g) => Owed(l, g)'
<1>1. Kept(n, g) /\ servers'[<<n, g>>].tls = servers[<<n, g>>].tls => Kept(n, g)'
  BY DEF Kept
<1>2. Owed(l, g) => Owed(l, g)'
  BY DEF Owed
<1> QED
  BY <1>1, <1>2

\* The server of a listener that Start binds: it starts with its plain
\* listener, and runs already when another one is bound.
LEMMA ServersOfBind ==
  ASSUME VirtualInv, todo # <<>>, Free(Head(todo)), servers' = ServersWith(Head(todo))
  PROVE  LET l == Head(todo)
             h == <<Head(todo)[1], starts>> IN
         /\ l[1] \in Interfaces \cup {"main"} /\ l[2] = "plain" =>
              /\ h \notin DOMAIN servers /\ DOMAIN servers' = DOMAIN servers \cup {h}
              /\ servers'[h] = [asleep |-> FALSE, tls |-> FALSE, bin |-> FALSE]
              /\ \A k \in DOMAIN servers : servers'[k] = servers[k]
         /\ l[1] \in Interfaces \cup {"main"} /\ l[2] = "tls" =>
              /\ h \in DOMAIN servers /\ DOMAIN servers' = DOMAIN servers
              /\ servers'[h] = [servers[h] EXCEPT !.tls = TRUE]
              /\ \A k \in DOMAIN servers : k # h => servers'[k] = servers[k]
         /\ l = Port("main", "bin") => h \in DOMAIN servers /\ servers' = servers
         /\ l[1] \notin Interfaces \cup {"main"} => servers' = servers
         /\ l[1] \in Interfaces \cup {"main"} => l[2] \in {"plain", "tls"} \/ l = Port("main", "bin")
<1> DEFINE l == Head(todo)
           h == <<Head(todo)[1], starts>>
<1>1. /\ l \in Ports /\ Rank(l) \in 1 .. 8
      /\ Rank(l) > 2 => Port("main", "plain") \in Made
      /\ l \in OfInterfaces /\ l[2] = "tls" => Port(l[1], "plain") \in Made
      /\ Live
  BY NextPort
<1>2. l = <<l[1], l[2]>> /\ l[1] \in Hosts
  BY <1>1 DEF Ports
<1>3. config \in Configs
  BY MadeFacts
<1>4. l[1] \in Interfaces \cup {"main"} => l[2] \in {"plain", "tls"} \/ l = Port("main", "bin")
  BY <1>1, <1>2, <1>3, RankOfPorts DEF Port, OfInterfaces
<1>5. OwnServers
  BY <1>1 DEF VirtualInv, OwnInv
<1>6. ASSUME l[1] \in Interfaces \cup {"main"}, l[2] = "plain"
      PROVE  h \notin DOMAIN servers
  <2>1. SUFFICES ASSUME h \in DOMAIN servers PROVE FALSE
    OBVIOUS
  <2>2. Port(l[1], "plain") \in Made
    BY <1>2, <1>5, <2>1 DEF OwnServers
  <2>3. l \in Made
    BY <1>2, <1>6, <2>2 DEF Port
  <2>4. <<l, starts>> \in bound
    BY <1>6, <2>3, AwakeDuringStart
  <2>5. starts \in Nat /\ starts >= 1
    BY <1>1 DEF VirtualInv, VirtualType, OwnInv, OwnRefs
  <2>6. IsBound(l)
    BY <2>4, <2>5 DEF IsBound
  <2> QED
    BY <1>6, <2>6 DEF Free
<1>7. ASSUME l[1] \in Interfaces \cup {"main"}, l[2] # "plain"
      PROVE  h \in DOMAIN servers
  <2>1. Port(l[1], "plain") \in Made
    <3>1. CASE l[1] \in Interfaces
      <4>1. l \in OfInterfaces /\ l[2] = "tls"
        BY <1>2, <1>3, <1>4, <1>7, <3>1, RankOfPorts DEF OfInterfaces, Port
      <4> QED
        BY <1>1, <4>1
    <3>2. CASE l[1] = "main"
      <4>1. l = Port("main", "tls") \/ l = Port("main", "bin")
        BY <1>2, <1>4, <1>7, <3>2 DEF Port
      <4>2. Rank(l) > 2
        BY <1>3, <4>1, RankOfPorts
      <4> QED
        BY <1>1, <3>2, <4>2
    <3> QED
      BY <1>7, <3>1, <3>2
  <2>2. Port(l[1], "plain")[1] = l[1]
    BY DEF Port
  <2> QED
    BY <1>5, <1>7, <2>1, <2>2 DEF OwnServers
<1>8. l[1] \in Interfaces \cup {"main"} /\ l[2] = "plain" => servers' = Started(h)
  BY DEF ServersWith
<1>9. l[1] \in Interfaces \cup {"main"} /\ l[2] = "tls" => servers' = [servers EXCEPT ![h].tls = TRUE]
  BY DEF ServersWith
<1>10. l = Port("main", "bin") => servers' = servers
  BY DEF ServersWith, Port
<1>11. l[1] \notin Interfaces \cup {"main"} => servers' = servers
  BY DEF ServersWith
<1>12. l = Port("main", "bin") => l[1] = "main" /\ l[2] = "bin"
  BY DEF Port
<1> QED
  BY <1>4, <1>6, <1>7, <1>8, <1>9, <1>10, <1>11, <1>12 DEF Started

\* What Start stores with a listener.
LEMMA RefsOfBind ==
  ASSUME VirtualInv, todo # <<>>, refs' = StoredAfter(Head(todo))
  PROVE  LET l == Head(todo) IN
         /\ refs' \in [{"main", "interfaces", "json", "script", "ssdp"} -> 0 .. starts]
         /\ IF l = Port("main", "plain") THEN refs'.main = starts /\ refs'.interfaces = starts
            ELSE refs'.main = refs.main /\ refs'.interfaces = refs.interfaces
         /\ IF l = Port("script", "plain") THEN refs'.script = starts ELSE refs'.script = refs.script
<1> DEFINE l == Head(todo)
<1>1. config \in Configs /\ l \in Ports /\ Rank(l) \in 1 .. 8
  BY MadeFacts, NextPort
<1>2. refs \in [{"main", "interfaces", "json", "script", "ssdp"} -> 0 .. starts] /\ starts \in 0 .. starts
  BY DEF VirtualInv, VirtualType
<1>3. l = <<l[1], l[2]>>
  BY <1>1 DEF Ports
<1>4. l[1] = "script" <=> l = Port("script", "plain")
  BY <1>1, <1>3, RankOfPorts DEF Port, OfInterfaces
<1>5. CASE l = Port("main", "plain")
  <2>1. refs' = [refs EXCEPT !.main = starts, !.interfaces = starts]
    BY <1>5 DEF StoredAfter, Assigned, Port
  <2>2. refs' \in [{"main", "interfaces", "json", "script", "ssdp"} -> 0 .. starts]
    BY <1>2, <2>1
  <2>3. refs'.main = starts /\ refs'.interfaces = starts /\ refs'.script = refs.script
    BY <1>2, <2>1
  <2>4. l # Port("script", "plain")
    BY <1>5 DEF Port
  <2> QED
    BY <1>5, <2>2, <2>3, <2>4
<1>6. CASE l = Port("script", "plain")
  <2>1. refs' = [refs EXCEPT !.script = starts]
    BY <1>6 DEF StoredAfter, Port
  <2> QED
    BY <1>2, <1>6, <2>1 DEF Port
<1>7. CASE l # Port("main", "plain") /\ l # Port("script", "plain")
  <2>1. refs' \in {refs, [refs EXCEPT !.json = starts], [refs EXCEPT !.ssdp = starts]}
    BY <1>4, <1>7 DEF StoredAfter, Assigned, Port
  <2> QED
    BY <1>2, <1>7, <2>1
<1> QED
  BY <1>5, <1>6, <1>7

\* A listener is bound.
LEMMA BindKeepsVirtual ==
  ASSUME VirtualInv, Bind
  PROVE  VirtualInv'
<1> DEFINE l == Head(todo)
           h == <<Head(todo)[1], starts>>
<1>1. /\ todo # <<>> /\ Free(l) /\ bound' = bound \cup {<<l, starts>>}
      /\ servers' = ServersWith(l) /\ refs' = StoredAfter(l)
      /\ todo' = Tail(todo) /\ ccuUp' = (Len(todo) = 1)
      /\ UNCHANGED <<config, starts, tails, scenario, foreign, failed, lateBin>>
  BY DEF Bind
<1>2. /\ Plan' = Plan /\ Interfaces' = Interfaces /\ OfInterfaces' = OfInterfaces
      /\ Hosts' = Hosts /\ Ports' = Ports
  BY <1>1, SameConfig
<1>3. Made' = Made \cup {l} /\ TodoInv' /\ Live'
  BY <1>1, NextMade
<1>4. /\ l \in Ports /\ Rank(l) \in 1 .. 8 /\ Live /\ l = <<l[1], l[2]>> /\ l[1] \in Hosts
      /\ Rank(l) > 2 => Port("main", "plain") \in Made
  <2>1. l \in Ports /\ Rank(l) \in 1 .. 8 /\ Live /\ (Rank(l) > 2 => Port("main", "plain") \in Made)
    BY <1>1, NextPort
  <2> QED
    BY <2>1 DEF Ports
<1>5. OwnServers /\ OwnPorts /\ OwnRefs
  BY <1>4 DEF VirtualInv, OwnInv
<1>6. /\ config \in Configs /\ Made \subseteq Ports
  BY MadeFacts
<1>7. VirtualType /\ starts \in Nat
  BY DEF VirtualInv, VirtualType
<1>8. /\ l[1] \in Interfaces \cup {"main"} /\ l[2] = "plain" =>
           /\ h \notin DOMAIN servers /\ DOMAIN servers' = DOMAIN servers \cup {h}
           /\ servers'[h] = [asleep |-> FALSE, tls |-> FALSE, bin |-> FALSE]
           /\ \A k \in DOMAIN servers : servers'[k] = servers[k]
      /\ l[1] \in Interfaces \cup {"main"} /\ l[2] = "tls" =>
           /\ h \in DOMAIN servers /\ DOMAIN servers' = DOMAIN servers
           /\ servers'[h] = [servers[h] EXCEPT !.tls = TRUE]
           /\ \A k \in DOMAIN servers : k # h => servers'[k] = servers[k]
      /\ l = Port("main", "bin") => h \in DOMAIN servers /\ servers' = servers
      /\ l[1] \notin Interfaces \cup {"main"} => servers' = servers
      /\ l[1] \in Interfaces \cup {"main"} => l[2] \in {"plain", "tls"} \/ l = Port("main", "bin")
  BY <1>1, ServersOfBind
<1>9. \A k \in DOMAIN servers : servers[k] \in [asleep : BOOLEAN, tls : BOOLEAN, bin : BOOLEAN]
  BY <1>7 DEF VirtualType
\* What the servers are afterwards.
<1>10. /\ \A k \in DOMAIN servers' : servers'[k] \in [asleep : BOOLEAN, tls : BOOLEAN, bin : BOOLEAN]
       /\ DOMAIN servers' \subseteq DOMAIN servers \cup {h} /\ DOMAIN servers \subseteq DOMAIN servers'
       /\ h \in DOMAIN servers' \ DOMAIN servers => l[1] \in Interfaces \cup {"main"} /\ l[2] = "plain"
       /\ \A k \in DOMAIN servers : k # h => servers'[k] = servers[k]
       /\ l[1] \in Interfaces \cup {"main"} => h \in DOMAIN servers'
  <2>1. CASE l[1] \in Interfaces \cup {"main"} /\ l[2] = "plain"
    <3>1. /\ h \notin DOMAIN servers /\ DOMAIN servers' = DOMAIN servers \cup {h}
          /\ servers'[h] = [asleep |-> FALSE, tls |-> FALSE, bin |-> FALSE]
          /\ \A k \in DOMAIN servers : servers'[k] = servers[k]
      BY <1>8, <2>1
    <3>2. servers'[h] \in [asleep : BOOLEAN, tls : BOOLEAN, bin : BOOLEAN]
      BY <3>1
    <3> QED
      BY <1>9, <2>1, <3>1, <3>2, Zenon
  <2>2. CASE l[1] \in Interfaces \cup {"main"} /\ l[2] = "tls"
    <3>1. /\ h \in DOMAIN servers /\ DOMAIN servers' = DOMAIN servers
          /\ servers'[h] = [servers[h] EXCEPT !.tls = TRUE]
          /\ \A k \in DOMAIN servers : k # h => servers'[k] = servers[k]
      BY <1>8, <2>2
    <3>2. servers'[h] \in [asleep : BOOLEAN, tls : BOOLEAN, bin : BOOLEAN]
      BY <1>9, <3>1
    <3> QED
      BY <1>9, <2>2, <3>1, <3>2, Zenon
  <2>3. CASE l = Port("main", "bin")
    BY <1>8, <1>9, <2>3
  <2>4. CASE l[1] \notin Interfaces \cup {"main"}
    BY <1>8, <1>9, <2>4
  <2> QED
    BY <1>8, <2>1, <2>2, <2>3, <2>4
<1>11. /\ refs' \in [{"main", "interfaces", "json", "script", "ssdp"} -> 0 .. starts]
       /\ IF l = Port("main", "plain") THEN refs'.main = starts /\ refs'.interfaces = starts
          ELSE refs'.main = refs.main /\ refs'.interfaces = refs.interfaces
       /\ IF l = Port("script", "plain") THEN refs'.script = starts ELSE refs'.script = refs.script
  BY <1>1, RefsOfBind
<1>12. VirtualType'
  <2>1. DOMAIN servers' \subseteq Hosts \X Nat
    BY <1>4, <1>7, <1>10 DEF VirtualType
  <2>2. bound' \subseteq Ports \X Nat
    BY <1>1, <1>4, <1>7 DEF VirtualType
  <2>3. \A t \in tails : t.rest # <<>> /\ refs'.main # t.of
    BY <1>5, <1>7, <1>11 DEF VirtualType, OwnRefs
  <2>4. ccuUp' \in BOOLEAN
    BY <1>1
  <2>5. tails \subseteq [of : 1 .. starts, rest : Seq(Ports)]
    BY <1>7 DEF VirtualType
  <2>6. scenario \subseteq [op : {"stop", "start", "restart"}, on : Hosts \X (0 .. starts)]
    BY <1>7 DEF VirtualType
  <2>7. failed \subseteq 0 .. starts /\ lateBin \subseteq 0 .. starts
    BY <1>7 DEF VirtualType
  <2> QED
    BY <1>1, <1>2, <1>6, <1>7, <1>10, <1>11, <2>1, <2>2, <2>3, <2>4, <2>5, <2>6, <2>7 DEF VirtualType
<1>13. \A n \in Hosts : <<n, starts>> \in DOMAIN servers => ~servers[<<n, starts>>].asleep
  BY <1>1, AwakeDuringStart
<1>14. OwnServers'
  <2>1. ASSUME NEW n \in Hosts, <<n, starts>> \in DOMAIN servers'
        PROVE  /\ n \in Interfaces \cup {"main"}
               /\ Port(n, "plain") \in Made'
               /\ servers'[<<n, starts>>].tls <=> Port(n, "tls") \in Made'
               /\ servers'[<<n, starts>>].bin => Port(n, "bin") \in Made'
               /\ servers'[<<n, starts>>].asleep => todo' = <<>>
    <3>1. CASE n # l[1]
      <4>1. <<n, starts>> # h /\ <<n, starts>> \in DOMAIN servers
        BY <1>10, <2>1, <3>1
      <4>2. servers'[<<n, starts>>] = servers[<<n, starts>>]
        BY <1>10, <4>1
      <4>3. Port(n, "tls") # l
        BY <3>1 DEF Port
      <4> QED
        BY <1>3, <1>5, <1>13, <4>1, <4>2, <4>3 DEF OwnServers
    <3>2. CASE n = l[1] /\ h \notin DOMAIN servers
      <4>1. l[1] \in Interfaces \cup {"main"} /\ l[2] = "plain"
        BY <1>10, <2>1, <3>2
      <4>2. servers'[h] = [asleep |-> FALSE, tls |-> FALSE, bin |-> FALSE]
        BY <1>8, <4>1
      <4>3. l = Port(n, "plain")
        BY <1>4, <3>2, <4>1 DEF Port
      <4>4. Port(n, "tls") \notin Made /\ Port(n, "tls") # l
        <5>1. Port(n, "tls")[1] = n /\ Port(n, "tls") # Port(n, "plain")
          BY DEF Port
        <5> QED
          BY <1>5, <3>2, <4>1, <4>3, <5>1 DEF OwnServers
      <4> QED
        BY <1>3, <3>2, <4>1, <4>2, <4>3, <4>4
    <3>3. CASE n = l[1] /\ h \in DOMAIN servers
      <4>1. /\ n \in Interfaces \cup {"main"} /\ Port(n, "plain") \in Made
            /\ servers[h].tls <=> Port(n, "tls") \in Made
            /\ servers[h].bin => Port(n, "bin") \in Made
        BY <1>4, <1>5, <3>3 DEF OwnServers
      <4>2. CASE l[2] = "tls"
        <5>1. servers'[h] = [servers[h] EXCEPT !.tls = TRUE]
          BY <1>8, <3>3, <4>1, <4>2
        <5>2. servers'[h].tls /\ servers'[h].bin = servers[h].bin /\ servers'[h].asleep = servers[h].asleep
          BY <1>9, <3>3, <5>1
        <5>3. l = Port(n, "tls")
          BY <1>4, <3>3, <4>2 DEF Port
        <5> QED
          BY <1>3, <1>4, <1>13, <3>3, <4>1, <5>2, <5>3
      <4>3. CASE l = Port("main", "bin")
        <5>1. servers' = servers /\ Port(n, "tls") # l
          BY <1>8, <4>3 DEF Port
        <5> QED
          BY <1>3, <1>4, <1>13, <3>3, <4>1, <5>1
      <4> QED
        BY <1>8, <3>3, <4>1, <4>2, <4>3
    <3> QED
      BY <3>1, <3>2, <3>3
  <2>2. ASSUME NEW x \in Made', x[1] \in Interfaces \cup {"main"}
        PROVE  <<x[1], starts>> \in DOMAIN servers'
    BY <1>3, <1>5, <1>10, <2>2 DEF OwnServers
  <2> QED
    BY <1>1, <1>2, <2>1, <2>2 DEF OwnServers
<1>15. OwnPorts'
  <2>1. \A x \in Ports : <<x, starts>> \in bound' => x \in Made'
    BY <1>1, <1>3, <1>5 DEF OwnPorts
  <2>2. \A x \in Made' : x[2] \in {"plain", "tls"} => <<x, starts>> \in bound'
    BY <1>1, <1>3, AwakeDuringStart
  <2> QED
    BY <1>1, <1>2, <2>1, <2>2 DEF OwnPorts
<1>16. OwnRefs'
  <2>1. /\ Port("main", "plain") \in Made' => refs'.main = starts /\ refs'.interfaces = starts
        /\ Port("script", "plain") \in Made' => refs'.script = starts
    BY <1>3, <1>5, <1>11 DEF OwnRefs
  <2> QED
    BY <1>1, <1>5, <2>1 DEF OwnRefs
<1>17. OldInv'
  <2>1. ASSUME NEW n \in Hosts, NEW g \in Nat, <<n, g>> \in DOMAIN servers'
        PROVE  Kept(n, g)'
    <3>1. CASE g = starts
      BY <1>1, <1>3, <3>1 DEF Kept
    <3>2. CASE g # starts
      <4>1. <<n, g>> \in DOMAIN servers /\ servers'[<<n, g>>] = servers[<<n, g>>]
        BY <1>10, <2>1, <3>2
      <4>2. Kept(n, g)
        BY <4>1 DEF VirtualInv, OldInv
      <4> QED
        BY <1>1, <1>4, <3>2, <4>1, <4>2, OthersStay
    <3> QED
      BY <3>1, <3>2
  <2>2. ASSUME NEW x \in Ports, NEW g \in Nat, <<x, g>> \in bound'
        PROVE  Owed(x, g)'
    <3>1. CASE g = starts
      BY <1>1, <1>3, <3>1 DEF Owed
    <3>2. CASE g # starts
      <4>1. <<x, g>> \in bound
        BY <1>1, <2>2, <3>2
      <4>2. Owed(x, g)
        BY <4>1 DEF VirtualInv, OldInv
      <4> QED
        BY <1>1, <1>4, <3>2, <4>2, OthersStay
    <3> QED
      BY <3>1, <3>2
  <2> QED
    BY <1>2, <2>1, <2>2 DEF OldInv
<1> QED
  BY <1>3, <1>12, <1>14, <1>15, <1>16, <1>17 DEF VirtualInv, OwnInv

\* Discovery does not start; the simulator runs without it.
LEMMA NoDiscoveryKeepsVirtual ==
  ASSUME VirtualInv, NoDiscovery
  PROVE  VirtualInv'
<1> DEFINE l == Head(todo)
<1>1. /\ todo # <<>> /\ l[1] = "ssdp" /\ todo' = <<>> /\ ccuUp' = TRUE
      /\ UNCHANGED <<config, starts, refs, servers, bound, tails, scenario, foreign, failed, lateBin>>
  BY DEF NoDiscovery
<1>2. /\ l \in Ports /\ Rank(l) \in 1 .. 8 /\ Live
      /\ Rank(l) = 8 => Len(todo) = 1
      /\ Len(todo) = 1 <=> Tail(todo) = <<>>
  BY <1>1, NextPort
<1>3. config \in Configs
  BY MadeFacts
<1>4. l = Port("ssdp", "udp") /\ Len(todo) = 1
  <2>1. l \notin OfInterfaces
    BY <1>1, <1>3, RankOfPorts DEF OfInterfaces
  <2>2. Rank(l) \notin {2, 3, 4, 5, 6, 7}
    <3>1. l \notin {Port("main", "plain"), Port("main", "tls"), Port("script", "plain"),
                    Port("main", "bin"), Port("json", "plain"), Port("json", "tls")}
      BY <1>1 DEF Port
    <3> QED
      BY <1>2, <1>3, <3>1, RankOfPorts
  <2>3. Rank(l) = 8
    <3>1. Rank(l) # 1
      BY <1>2, <1>3, <2>1, RankOfPorts
    <3> QED
      BY <1>2, <2>2, <3>1
  <2> QED
    BY <1>2, <1>3, <2>3, RankOfPorts
<1>5. Made' = Made \cup {l} /\ TodoInv' /\ Live'
  <2>1. todo' = Tail(todo) /\ ccuUp' = (Len(todo) = 1)
    BY <1>1, <1>2, <1>4
  <2> QED
    BY <1>1, <2>1, NextMade
<1>6. /\ Plan' = Plan /\ Interfaces' = Interfaces /\ OfInterfaces' = OfInterfaces
      /\ Hosts' = Hosts /\ Ports' = Ports
  BY <1>1, SameConfig
<1>7. OwnServers /\ OwnPorts /\ OwnRefs
  BY <1>2 DEF VirtualInv, OwnInv
<1>8. l[1] \notin Interfaces \cup {"main"} /\ l[2] \notin {"plain", "tls"} /\ l \notin Made' \ {l}
  BY <1>1, <1>3, <1>4, RankOfPorts DEF Port
<1>9. VirtualType'
  BY <1>1, <1>6 DEF VirtualInv, VirtualType
<1>10. OwnServers'
  <2>1. \A n \in Interfaces \cup {"main"} : Port(n, "tls") # l
    BY <1>8 DEF Port
  <2> QED
    BY <1>1, <1>5, <1>6, <1>7, <1>8, <2>1 DEF OwnServers
<1>11. OwnPorts'
  BY <1>1, <1>5, <1>6, <1>7, <1>8 DEF OwnPorts
<1>12. OwnRefs'
  <2>1. l # Port("main", "plain") /\ l # Port("script", "plain")
    BY <1>4 DEF Port
  <2> QED
    BY <1>1, <1>5, <1>7, <2>1 DEF OwnRefs
<1>13. OldInv'
  <2>1. ASSUME NEW n \in Hosts, NEW g \in Nat, <<n, g>> \in DOMAIN servers
        PROVE  Kept(n, g)'
    <3>1. Kept(n, g)
      BY <2>1 DEF VirtualInv, OldInv
    <3> QED
      BY <1>1, <1>5, <3>1 DEF Kept
  <2>2. ASSUME NEW x \in Ports, NEW g \in Nat, <<x, g>> \in bound
        PROVE  Owed(x, g)'
    <3>1. Owed(x, g)
      BY <2>2 DEF VirtualInv, OldInv
    <3> QED
      BY <1>1, <1>5, <3>1 DEF Owed
  <2> QED
    BY <1>1, <1>6, <2>1, <2>2 DEF OldInv
<1> QED
  BY <1>5, <1>9, <1>10, <1>11, <1>12, <1>13 DEF VirtualInv, OwnInv

\* What is left when a start fails: it has come no further than the listener
\* that cannot be bound, and the later that is, the more it closes.
LEMMA RollBackOfPorts ==
  ASSUME VirtualInv, todo # <<>>, Head(todo)[1] # "ssdp", NEW x \in Made,
         x \in {Port("main", "plain"), Port("main", "bin"), Port("json", "plain"), Port("json", "tls")}
  PROVE  x \in RolledBack(Head(todo))
<1> DEFINE l == Head(todo)
<1>1. config \in Configs /\ x \in Ports
  BY MadeFacts
<1>2. l \in Ports /\ Rank(l) \in 1 .. 8 /\ (Rank(x) < Rank(l) \/ Rank(x) = 1)
  BY NextPort
<1>3. Rank(l) # 8 /\ Rank(x) > 1
  BY <1>1, <1>2, RankOfPorts DEF Port
<1>4. Rank(l) > Rank(x)
  BY <1>2, <1>3
<1>5. \A name \in {"main", "script", "json"} : name \notin Interfaces
  BY <1>1, RankOfPorts
<1>6. CASE l \in {Port("main", "tls"), Port("script", "plain"), Port("main", "bin")}
  <2>1. Rank(l) <= 5
    BY <1>1, <1>6, RankOfPorts
  <2>2. x = Port("main", "plain")
    <3>1. \A y \in {Port("main", "bin"), Port("json", "plain"), Port("json", "tls")} : Rank(y) >= 5
      BY <1>1, RankOfPorts
    <3>2. \A y \in {Port("main", "plain"), Port("main", "bin"), Port("json", "plain"), Port("json", "tls")} :
            Rank(y) \in Nat
      BY <1>1, RankOfPorts
    <3> QED
      BY <1>2, <1>4, <2>1, <3>1, <3>2
  <2>3. RolledBack(l) = {Port("main", "plain")}
    <3>1. l[1] \notin Interfaces /\ l # Port("main", "plain") /\ l[1] # "json"
      BY <1>5, <1>6 DEF Port
    <3>2. l[1] = "script" \/ l \in Main \ {Port("main", "plain")}
      BY <1>6, <3>1 DEF Main, Port
    <3> QED
      BY <3>1, <3>2 DEF RolledBack
  <2> QED
    BY <2>2, <2>3
<1>7. CASE l \in {Port("json", "plain"), Port("json", "tls")}
  <2>1. l[1] = "json" /\ l[1] \notin Interfaces /\ l \notin Main
    BY <1>5, <1>7 DEF Port, Main
  <2>2. RolledBack(l) = OfInterfaces \cup Main \cup {Port("json", "plain")}
    BY <2>1 DEF RolledBack, Main
  <2>3. x # Port("json", "tls")
    <3>1. Rank(l) <= 7
      BY <1>1, <1>7, RankOfPorts
    <3> QED
      <4>1. Rank(Port("json", "tls")) = 7
        BY <1>1, RankOfPorts
      <4> QED
        BY <1>2, <1>4, <3>1, <4>1
  <2> QED
    BY <2>2, <2>3 DEF Main
<1> QED
  <2>1. Rank(l) \in {3, 4, 5, 6, 7}
    <3>1. Rank(x) >= 2
      BY <1>1, RankOfPorts
    <3>2. Rank(x) \in Nat
      BY <1>1, RankOfPorts
    <3> QED
      BY <1>2, <1>3, <1>4, <3>1, <3>2
  <2>2. l \in {Port("main", "tls"), Port("script", "plain"), Port("main", "bin"),
               Port("json", "plain"), Port("json", "tls")}
    BY <1>1, <1>2, <2>1, RankOfPorts
  <2> QED
    BY <1>6, <1>7, <2>2

\* A listener cannot be bound.
LEMMA StartFailsKeepsVirtual ==
  ASSUME VirtualInv, StartFails
  PROVE  VirtualInv'
<1> DEFINE l == Head(todo)
           closed == RolledBack(Head(todo))
<1>1. /\ todo # <<>> /\ l[1] # "ssdp" /\ bound' = bound \ (closed \X {starts})
      /\ servers' = Running(closed, starts)
      /\ refs' = StoredBefore(l) \/ refs' = StoredWithout(l)
      /\ todo' = <<>> /\ failed' = failed \cup {starts}
      /\ UNCHANGED <<config, ccuUp, starts, tails, scenario, foreign, lateBin>>
  <2>1. CASE l[1] # "ssdp" /\ refs' = StoredBefore(l)
    BY <2>1 DEF StartFails
  <2>2. CASE l[1] \in Interfaces \cup {"main"} /\ refs' = StoredWithout(l)
    <3>1. todo # <<>>
      BY DEF StartFails
    <3>2. "ssdp" \notin Interfaces
      BY MadeFacts, RankOfPorts
    <3>3. l[1] # "ssdp"
      BY <2>2, <3>2
    <3> QED
      BY <2>2, <3>3 DEF StartFails
  <2> QED
    BY <2>1, <2>2 DEF StartFails
<1>2. /\ Plan' = Plan /\ Interfaces' = Interfaces /\ Hosts' = Hosts /\ Ports' = Ports
  BY <1>1, SameConfig
<1>3. Live /\ ~ccuUp
  BY <1>1, NextPort
<1>4. OwnServers /\ OwnPorts /\ OwnRefs /\ VirtualType
  BY <1>3 DEF VirtualInv, OwnInv
<1>5. ~Live'
  BY <1>1, <1>3 DEF Live
<1>6. \A k \in DOMAIN servers' : k \in DOMAIN servers /\ servers'[k] = servers[k]
  BY <1>1 DEF Running, Restrict
<1>7. refs' \in [{"main", "interfaces", "json", "script", "ssdp"} -> 0 .. starts]
      /\ refs'.main \in {refs.main, starts}
  <2>1. /\ refs \in [{"main", "interfaces", "json", "script", "ssdp"} -> 0 .. starts]
        /\ starts \in 0 .. starts /\ 0 \in 0 .. starts
    BY <1>4 DEF VirtualType
  <2>2. Assigned(l) \in [{"main", "interfaces", "json", "script", "ssdp"} -> 0 .. starts]
        /\ Assigned(l).main \in {refs.main, starts}
    <3>1. CASE l = Port("main", "plain")
      BY <2>1, <3>1 DEF Assigned, Port
    <3>2. CASE l = Port("json", "plain")
      BY <2>1, <3>2 DEF Assigned, Port
    <3>3. CASE l # Port("main", "plain") /\ l # Port("json", "plain")
      BY <2>1, <3>3 DEF Assigned
    <3> QED
      BY <3>1, <3>2, <3>3
  <2>3. PICK a : a = Assigned(l)
    OBVIOUS
  <2>4. refs' \in {a, [a EXCEPT !.interfaces = 0], refs, [refs EXCEPT !.interfaces = starts]}
    BY <1>1, <2>3 DEF StoredBefore, StoredWithout
  <2> QED
    BY <2>1, <2>2, <2>3, <2>4
<1>8. VirtualType'
  <2>1. DOMAIN servers' \subseteq Hosts \X Nat
        /\ \A k \in DOMAIN servers' : servers'[k] \in [asleep : BOOLEAN, tls : BOOLEAN, bin : BOOLEAN]
    BY <1>4, <1>6 DEF VirtualType
  <2>2. bound' \subseteq Ports \X Nat /\ failed' \subseteq 0 .. starts
    BY <1>1, <1>4 DEF VirtualType
  <2>3. \A t \in tails : t.rest # <<>> /\ refs'.main # t.of
    <3>1. \A t \in tails : t.rest # <<>> /\ refs.main # t.of /\ t.of < starts /\ t.of \in Nat
      BY <1>4 DEF VirtualType, OwnRefs
    <3>2. starts \in Nat
      BY <1>4 DEF VirtualType
    <3> QED
      BY <1>7, <3>1, <3>2
  <2> QED
    BY <1>1, <1>2, <1>4, <1>7, <2>1, <2>2, <2>3 DEF VirtualType
<1>9. TodoInv'
  BY <1>1, <1>2, <1>3, MadeFacts DEF TodoInv
<1>10. OldInv'
  <2>1. ASSUME NEW n \in Hosts, NEW g \in Nat, <<n, g>> \in DOMAIN servers'
        PROVE  Kept(n, g)'
    <3>1. <<n, g>> \in DOMAIN servers /\ servers'[<<n, g>>] = servers[<<n, g>>]
      BY <1>6, <2>1
    <3>2. CASE g # starts
      <4>1. Kept(n, g)
        BY <3>1 DEF VirtualInv, OldInv
      <4>2. Port("main", "plain") \in Ports
        BY DEF Port, Ports, Hosts
      <4> QED
        BY <1>1, <3>1, <3>2, <4>1, <4>2, OthersStay
    <3>3. CASE g = starts
      <4>1. n \in Interfaces \cup {"main"} /\ Port(n, "plain") \in Made
        BY <1>4, <3>1, <3>3 DEF OwnServers
      <4>2. n # "main"
        <5> SUFFICES ASSUME n = "main" PROVE FALSE
          OBVIOUS
        <5>1. Port("main", "plain") \in closed
          BY <1>1, <4>1, RollBackOfPorts
        <5>2. <<n, g>> \notin DOMAIN Running(closed, starts)
          BY <3>3, <5>1 DEF Running, Restrict
        <5> QED
          BY <1>1, <2>1, <5>2
      <4>3. "json" \notin Interfaces
        BY MadeFacts, RankOfPorts
      <4> QED
        BY <1>1, <3>3, <4>1, <4>2, <4>3 DEF Kept
    <3> QED
      BY <3>2, <3>3
  <2>2. ASSUME NEW x \in Ports, NEW g \in Nat, <<x, g>> \in bound'
        PROVE  Owed(x, g)'
    <3>1. <<x, g>> \in bound /\ (g = starts => x \notin closed)
      BY <1>1, <2>2
    <3>2. CASE g # starts
      <4>1. Owed(x, g)
        BY <3>1 DEF VirtualInv, OldInv
      <4>2. "main" \in Hosts
        BY DEF Hosts
      <4> QED
        BY <1>1, <3>2, <4>1, <4>2, OthersStay
    <3>3. CASE g = starts
      <4>1. x \in Made
        BY <1>4, <3>1, <3>3 DEF OwnPorts
      <4>2. x \notin {Port("main", "plain"), Port("main", "bin"), Port("json", "plain"), Port("json", "tls")}
        BY <1>1, <3>1, <3>3, <4>1, RollBackOfPorts
      <4> QED
        BY <1>1, <3>3, <4>2 DEF Owed
    <3> QED
      BY <3>2, <3>3
  <2> QED
    BY <1>2, <2>1, <2>2 DEF OldInv
<1> QED
  BY <1>5, <1>8, <1>9, <1>10 DEF VirtualInv, OwnInv

\* What Stop closes under the lock and what it leaves for afterwards make up
\* the plan.
LEMMA StopClosesAll ==
  ASSUME VirtualInv, NEW l \in Range(Plan)
  PROVE  l \in OfInterfaces \/ l = Port("script", "plain") \/ l \in Range(Closing)
<1>1. config \in Configs /\ l \in Ports /\ Rank(l) \in 1 .. 8
  BY MadeFacts
<1>2. l \in OfInterfaces \/ l = Port("script", "plain") \/ l \in ClosedLate
  BY <1>1, RankOfPorts DEF ClosedLate
<1> QED
  BY <1>2, ClosingRange

\* Stop under the lock.
LEMMA StopKeepsVirtual ==
  ASSUME VirtualInv, StopCcu
  PROVE  VirtualInv'
<1> DEFINE new == [of |-> refs.main, rest |-> Closing]
<1>1. /\ todo = <<>> /\ ccuUp /\ ccuUp' = FALSE
      /\ bound' = bound \ ({<<Port("script", "plain"), refs.script>>} \cup OfInterfaces \X {refs.interfaces})
      /\ servers' = Running(OfInterfaces, refs.interfaces)
      /\ refs' = [r \in DOMAIN refs |-> 0]
      /\ tails' = tails \cup {new}
      /\ UNCHANGED <<config, starts, todo, scenario, foreign, failed, lateBin>>
  BY DEF StopCcu
<1>2. /\ Plan' = Plan /\ Interfaces' = Interfaces /\ OfInterfaces' = OfInterfaces
      /\ Hosts' = Hosts /\ Ports' = Ports
  BY <1>1, SameConfig
<1>3. Live /\ ~Live'
  BY <1>1 DEF Live
<1>4. OwnServers /\ OwnPorts /\ OwnRefs /\ VirtualType
  BY <1>3 DEF VirtualInv, OwnInv
<1>5. config \in Configs /\ Made = Range(Plan) /\ Port("main", "plain") \in Made
  BY <1>1, MadeFacts
<1>6. refs.main = starts /\ refs.interfaces = starts /\ starts \in Nat /\ starts >= 1
  BY <1>4, <1>5 DEF OwnRefs, VirtualType
<1>7. Closing \in Seq(Ports) /\ Range(Closing) = ClosedLate \cap Range(Plan)
  BY ClosingRange
<1>8. Port("main", "plain") \in Range(Closing) /\ Closing # <<>>
  <2>1. Port("main", "plain") \in Range(Closing)
    BY <1>5, <1>7 DEF ClosedLate
  <2> QED
    BY <2>1 DEF Range
<1>9. \A k \in DOMAIN servers' : k \in DOMAIN servers /\ servers'[k] = servers[k]
  BY <1>1 DEF Running, Restrict
<1>10. refs' \in [{"main", "interfaces", "json", "script", "ssdp"} -> 0 .. starts] /\ refs'.main = 0
  <2>1. DOMAIN refs = {"main", "interfaces", "json", "script", "ssdp"}
    BY <1>4 DEF VirtualType
  <2> QED
    BY <1>1, <1>6, <2>1
<1>11. new \in [of : 1 .. starts, rest : Seq(Ports)] /\ new.of = starts /\ new.rest = Closing
  BY <1>6, <1>7
<1> HIDE DEF new
<1>12. VirtualType'
  <2>1. DOMAIN servers' \subseteq Hosts \X Nat
        /\ \A k \in DOMAIN servers' : servers'[k] \in [asleep : BOOLEAN, tls : BOOLEAN, bin : BOOLEAN]
    BY <1>4, <1>9 DEF VirtualType
  <2>2. bound' \subseteq Ports \X Nat
    BY <1>1, <1>4 DEF VirtualType
  <2>3. tails' \subseteq [of : 1 .. starts, rest : Seq(Ports)]
    BY <1>1, <1>4, <1>11 DEF VirtualType
  <2>4. \A t \in tails' : t.rest # <<>> /\ refs'.main # t.of
    <3>1. \A t \in tails' : t.rest # <<>>
      BY <1>1, <1>4, <1>8, <1>11 DEF VirtualType
    <3>2. \A t \in tails' : t.of \in 1 .. starts
      BY <2>3
    <3> QED
      BY <1>6, <1>10, <3>1, <3>2
  <2> QED
    BY <1>1, <1>2, <1>4, <1>10, <2>1, <2>2, <2>3, <2>4 DEF VirtualType
<1>13. TodoInv'
  BY <1>1, <1>2, <1>3 DEF TodoInv, VirtualInv
<1>14. OldInv'
  <2>1. ASSUME NEW n \in Hosts, NEW g \in Nat, <<n, g>> \in DOMAIN servers'
        PROVE  Kept(n, g)'
    <3>1. <<n, g>> \in DOMAIN servers /\ servers'[<<n, g>>] = servers[<<n, g>>]
      BY <1>9, <2>1
    <3>2. CASE g # starts
      <4>1. Kept(n, g)
        BY <3>1 DEF VirtualInv, OldInv
      <4> QED
        BY <1>1, <3>1, <3>2, <4>1 DEF Kept
    <3>3. CASE g = starts
      <4>1. n \in Interfaces \cup {"main"} /\ (servers[<<n, g>>].tls => Port(n, "tls") \in Made)
        BY <1>4, <3>1, <3>3 DEF OwnServers
      <4>2. n \notin Interfaces
        <5> SUFFICES ASSUME n \in Interfaces PROVE FALSE
          OBVIOUS
        <5>1. Port(n, "plain") \in OfInterfaces
          BY DEF Port, OfInterfaces
        <5>2. <<n, g>> \notin DOMAIN Running(OfInterfaces, refs.interfaces)
          BY <1>6, <3>3, <5>1 DEF Running, Restrict
        <5> QED
          BY <1>1, <2>1, <5>2
      <4>3. servers'[<<n, g>>].tls => Port("main", "tls") \in Range(new.rest)
        BY <1>5, <1>7, <1>11, <3>1, <4>1, <4>2 DEF ClosedLate
      <4>4. new \in tails' /\ Port("main", "plain") \in Range(new.rest) /\ n = "main"
        BY <1>1, <1>8, <1>11, <4>1, <4>2
      <4> QED
        BY <1>11, <3>3, <4>3, <4>4 DEF Kept
    <3> QED
      BY <3>2, <3>3
  <2>2. ASSUME NEW x \in Ports, NEW g \in Nat, <<x, g>> \in bound'
        PROVE  Owed(x, g)'
    <3>1. /\ <<x, g>> \in bound /\ <<x, g>> # <<Port("script", "plain"), refs.script>>
          /\ g = refs.interfaces => x \notin OfInterfaces
      BY <1>1, <2>2
    <3>2. CASE g # starts
      <4>1. Owed(x, g)
        BY <3>1 DEF VirtualInv, OldInv
      <4> QED
        BY <1>1, <3>2, <4>1 DEF Owed
    <3>3. CASE g = starts
      <4>1. x \in Made
        BY <1>4, <3>1, <3>3 DEF OwnPorts
      <4>2. x # Port("script", "plain")
        BY <1>4, <3>1, <3>3, <4>1 DEF OwnRefs
      <4>3. x \in Range(Closing)
        BY <1>5, <1>6, <3>1, <3>3, <4>1, <4>2, StopClosesAll
      <4> QED
        BY <1>1, <1>11, <3>3, <4>3 DEF Owed
    <3> QED
      BY <3>2, <3>3
  <2> QED
    BY <1>2, <2>1, <2>2 DEF OldInv
<1> QED
  BY <1>3, <1>12, <1>13, <1>14 DEF VirtualInv, OwnInv

LEMMA HeadAndTail ==
  ASSUME NEW s \in Seq(Ports), s # <<>>
  PROVE  /\ Len(s) # 1 => Tail(s) \in Seq(Ports) /\ Tail(s) # <<>>
         /\ \A x \in Range(s) : x = Head(s) \/ (Len(s) # 1 /\ x \in Range(Tail(s)))
<1>1. Len(s) \in Nat /\ Len(s) >= 1 /\ DOMAIN s = 1 .. Len(s) /\ Head(s) = s[1]
  BY EmptySeq
<1>2. /\ Tail(s) \in Seq(Ports) /\ Len(Tail(s)) = Len(s) - 1
      /\ DOMAIN Tail(s) = 1 .. Len(s) - 1 /\ \A i \in 1 .. Len(s) - 1 : Tail(s)[i] = s[i + 1]
  BY <1>1
<1>3. Len(s) # 1 => Tail(s) # <<>>
  <2>1. Tail(s) = <<>> <=> Len(Tail(s)) = 0
    BY <1>2, EmptySeq
  <2> QED
    BY <1>1, <1>2, <2>1
<1>4. ASSUME NEW x \in Range(s), x # Head(s)
      PROVE  Len(s) # 1 /\ x \in Range(Tail(s))
  <2>1. PICK i \in 1 .. Len(s) : x = s[i]
    BY <1>1, <1>4 DEF Range
  <2>2. i - 1 \in 1 .. Len(s) - 1 /\ (i - 1) + 1 = i
    BY <1>1, <1>4, <2>1
  <2>3. Tail(s)[i - 1] = x
    BY <1>2, <2>1, <2>2
  <2>4. i - 1 \in DOMAIN Tail(s)
    BY <1>2, <2>2
  <2>5. Len(s) # 1
    BY <1>1, <2>2
  <2> QED
    BY <2>3, <2>4, <2>5 DEF Range
<1> QED
  BY <1>2, <1>3, <1>4

\* Stop closes the next listener.
LEMMA StopNextKeepsVirtual ==
  ASSUME VirtualInv, NEW t, StopNext(t)
  PROVE  VirtualInv'
<1> DEFINE l == Head(t.rest)
           h == <<"main", t.of>>
           later == IF Len(t.rest) = 1 THEN {} ELSE {[t EXCEPT !.rest = Tail(@)]}
<1>1. /\ t \in tails /\ bound' = bound \ {<<l, t.of>>}
      /\ servers' = IF l = Port("main", "tls") THEN [servers EXCEPT ![h].tls = FALSE]
                    ELSE Running({l}, t.of)
      /\ tails' = (tails \ {t}) \cup later
      /\ UNCHANGED <<config, ccuUp, starts, todo, refs, scenario, foreign, failed, lateBin>>
  BY DEF StopNext
<1>2. /\ Plan' = Plan /\ Interfaces' = Interfaces /\ OfInterfaces' = OfInterfaces
      /\ Hosts' = Hosts /\ Ports' = Ports
  BY <1>1, SameConfig
<1>3. Made' = Made /\ TodoInv' /\ Live' = Live
  BY <1>1, SameMade
<1>4. VirtualType /\ starts \in Nat
  BY DEF VirtualInv, VirtualType
<1>5. t.of \in 1 .. starts /\ t.rest \in Seq(Ports) /\ t.rest # <<>> /\ refs.main # t.of
  BY <1>1, <1>4 DEF VirtualType
<1>6. /\ Len(t.rest) # 1 => Tail(t.rest) \in Seq(Ports) /\ Tail(t.rest) # <<>>
      /\ \A x \in Range(t.rest) : x = l \/ (Len(t.rest) # 1 /\ x \in Range(Tail(t.rest)))
  BY <1>5, HeadAndTail
<1>7. \A u \in later : /\ u \in [of : 1 .. starts, rest : Seq(Ports)]
                       /\ u.of = t.of /\ u.rest = Tail(t.rest) /\ u.rest # <<>>
  <2>1. t \in [of : 1 .. starts, rest : Seq(Ports)]
    BY <1>1, <1>4 DEF VirtualType
  <2> QED
    BY <1>6, <2>1
<1>8. Len(t.rest) # 1 => \E u \in later : TRUE
  OBVIOUS
<1> HIDE DEF later
\* What the servers are afterwards.
<1>9. /\ \A k \in DOMAIN servers' : k \in DOMAIN servers
      /\ \A k \in DOMAIN servers : k[2] # t.of => k \in DOMAIN servers' /\ servers'[k] = servers[k]
      /\ \A k \in DOMAIN servers' : servers'[k] \in [asleep : BOOLEAN, tls : BOOLEAN, bin : BOOLEAN]
      /\ \A k \in DOMAIN servers' : servers'[k].tls => servers[k].tls
      /\ l = Port("main", "plain") => h \notin DOMAIN servers'
      /\ l = Port("main", "tls") /\ h \in DOMAIN servers' => ~servers'[h].tls
  <2>1. \A k \in DOMAIN servers : servers[k] \in [asleep : BOOLEAN, tls : BOOLEAN, bin : BOOLEAN]
    BY <1>4 DEF VirtualType
  <2>2. CASE l = Port("main", "tls")
    <3>1. servers' = [servers EXCEPT ![h].tls = FALSE]
      BY <1>1, <2>2
    <3>2. /\ DOMAIN servers' = DOMAIN servers
          /\ \A k \in DOMAIN servers : k # h => servers'[k] = servers[k]
          /\ h \in DOMAIN servers => servers'[h] = [servers[h] EXCEPT !.tls = FALSE]
      BY <3>1
    <3>3. h \in DOMAIN servers => /\ servers'[h] \in [asleep : BOOLEAN, tls : BOOLEAN, bin : BOOLEAN]
                                  /\ ~servers'[h].tls
      BY <2>1, <3>2
    <3>4. l # Port("main", "plain")
      BY <2>2 DEF Port
    <3>5. h[2] = t.of
      OBVIOUS
    <3> QED
      BY <2>1, <3>2, <3>3, <3>4, <3>5, Zenon
  <2>3. CASE l # Port("main", "tls")
    <3>1. servers' = Running({l}, t.of)
      BY <1>1, <2>3
    <3>2. /\ DOMAIN servers' = {k \in DOMAIN servers : ~(k[2] = t.of /\ Port(k[1], "plain") \in {l})}
          /\ \A k \in DOMAIN servers' : servers'[k] = servers[k]
      BY <3>1 DEF Running, Restrict
    <3>3. l = Port("main", "plain") => h \notin DOMAIN servers'
      BY <3>2
    <3> QED
      BY <2>1, <2>3, <3>2, <3>3
  <2> QED
    BY <2>2, <2>3
<1>10. VirtualType'
  <2>1. DOMAIN servers' \subseteq Hosts \X Nat
    BY <1>4, <1>9 DEF VirtualType
  <2>2. bound' \subseteq Ports \X Nat
    BY <1>1, <1>4 DEF VirtualType
  <2>3. tails' \subseteq [of : 1 .. starts, rest : Seq(Ports)]
    BY <1>1, <1>4, <1>7 DEF VirtualType
  <2>4. \A u \in tails' : u.rest # <<>> /\ refs.main # u.of
    BY <1>1, <1>4, <1>5, <1>7 DEF VirtualType
  <2> QED
    BY <1>1, <1>2, <1>4, <1>9, <2>1, <2>2, <2>3, <2>4 DEF VirtualType
<1>11. OwnInv'
  <2> SUFFICES ASSUME Live PROVE OwnServers' /\ OwnPorts' /\ OwnRefs'
    BY <1>3 DEF OwnInv
  <2>1. OwnServers /\ OwnPorts /\ OwnRefs
    BY DEF VirtualInv, OwnInv
  <2>2. t.of # starts
    BY <1>1, <1>5, <2>1 DEF OwnRefs
  <2>3. \A n \in Hosts : /\ <<n, starts>> \in DOMAIN servers' <=> <<n, starts>> \in DOMAIN servers
                         /\ <<n, starts>> \in DOMAIN servers => servers'[<<n, starts>>] = servers[<<n, starts>>]
    <3> TAKE n \in Hosts
    <3>1. <<n, starts>>[2] = starts
      OBVIOUS
    <3> QED
      BY <1>9, <2>2, <3>1, Zenon
  <2>4. OwnServers'
    <3>1. \A x \in Made : x[1] \in Hosts
      BY MadeFacts DEF Ports
    <3> QED
      BY <1>1, <1>2, <1>3, <2>1, <2>3, <3>1 DEF OwnServers
  <2>5. OwnPorts'
    <3>1. \A x : <<x, starts>> \in bound' <=> <<x, starts>> \in bound
      BY <1>1, <2>2
    <3>2. \A x \in Made : x[1] \in Interfaces \cup {"main"} =>
            x[1] \in Hosts /\ <<x[1], starts>> \in DOMAIN servers
      BY <2>1, MadeFacts DEF Ports, OwnServers
    <3>3. \A x \in Made : x[2] \in {"plain", "tls"} =>
            \/ <<x, starts>> \in bound'
            \/ x[1] \in Interfaces \cup {"main"} /\ servers'[<<x[1], starts>>].asleep
      <4> TAKE x \in Made
      <4> HAVE x[2] \in {"plain", "tls"}
      <4>1. CASE <<x, starts>> \in bound
        BY <3>1, <4>1
      <4>2. CASE x[1] \in Interfaces \cup {"main"} /\ servers[<<x[1], starts>>].asleep
        <5>1. servers'[<<x[1], starts>>] = servers[<<x[1], starts>>]
          BY <2>3, <3>2, <4>2
        <5> QED
          BY <4>2, <5>1
      <4> QED
        BY <2>1, <4>1, <4>2 DEF OwnPorts
    <3> QED
      BY <1>1, <1>2, <1>3, <2>1, <3>1, <3>3 DEF OwnPorts
  <2>6. OwnRefs'
    <3>1. \A u \in tails' : u.of < starts
      BY <1>1, <1>7, <2>1 DEF OwnRefs
    <3> QED
      BY <1>1, <1>3, <2>1, <3>1 DEF OwnRefs
  <2> QED
    BY <2>4, <2>5, <2>6
<1>12. OldInv'
  <2>1. ASSUME NEW n \in Hosts, NEW g \in Nat, <<n, g>> \in DOMAIN servers'
        PROVE  Kept(n, g)'
    <3>1. <<n, g>> \in DOMAIN servers /\ (servers'[<<n, g>>].tls => servers[<<n, g>>].tls)
      BY <1>9, <2>1
    <3>2. Kept(n, g)
      BY <3>1 DEF VirtualInv, OldInv
    <3>3. CASE (Live /\ g = starts) \/ (g \in failed /\ n \notin {"main", "json"})
      BY <1>1, <1>3, <3>3 DEF Kept
    <3>4. ASSUME NEW u \in tails, n = "main", u.of = g, Port("main", "plain") \in Range(u.rest),
                 servers[<<n, g>>].tls => Port("main", "tls") \in Range(u.rest)
          PROVE  Kept(n, g)'
      <4>1. CASE u # t
        BY <1>1, <3>1, <3>4, <4>1 DEF Kept
      <4>2. CASE u = t
        <5>1. <<n, g>> = h /\ l # Port("main", "plain")
          BY <1>9, <2>1, <3>4, <4>2
        <5>2. Len(t.rest) # 1 /\ Port("main", "plain") \in Range(Tail(t.rest))
          BY <1>6, <3>4, <4>2, <5>1
        <5>3. servers'[<<n, g>>].tls => Port("main", "tls") \in Range(Tail(t.rest))
          BY <1>6, <1>9, <2>1, <3>1, <3>4, <4>2, <5>1
        <5>4. PICK v \in later : TRUE
          BY <1>8, <5>2
        <5>5. v \in tails' /\ v.of = g /\ v.rest = Tail(t.rest)
          BY <1>1, <1>7, <3>4, <4>2
        <5> QED
          BY <3>4, <5>2, <5>3, <5>5 DEF Kept
      <4> QED
        BY <4>1, <4>2
    <3> QED
      BY <3>2, <3>3, <3>4 DEF Kept
  <2>2. ASSUME NEW x \in Ports, NEW g \in Nat, <<x, g>> \in bound'
        PROVE  Owed(x, g)'
    <3>1. <<x, g>> \in bound /\ <<x, g>> # <<l, t.of>>
      BY <1>1, <2>2
    <3>2. Owed(x, g)
      BY <3>1 DEF VirtualInv, OldInv
    <3>3. ASSUME NEW u \in tails, u.of = g, x \in Range(u.rest)
          PROVE  Owed(x, g)'
      <4>1. CASE u # t
        BY <1>1, <3>3, <4>1 DEF Owed
      <4>2. CASE u = t
        <5>1. x # l
          BY <3>1, <3>3, <4>2
        <5>2. Len(t.rest) # 1 /\ x \in Range(Tail(t.rest))
          BY <1>6, <3>3, <4>2, <5>1
        <5>3. PICK v \in later : TRUE
          BY <1>8, <5>2
        <5>4. v \in tails' /\ v.of = g /\ v.rest = Tail(t.rest)
          BY <1>1, <1>7, <3>3, <4>2
        <5> QED
          BY <5>2, <5>4 DEF Owed
      <4> QED
        BY <4>1, <4>2
    <3> QED
      BY <1>1, <1>3, <3>2, <3>3 DEF Owed
  <2> QED
    BY <1>2, <2>1, <2>2 DEF OldInv
<1> QED
  BY <1>3, <1>10, <1>11, <1>12 DEF VirtualInv

\* A scenario call looks its server up.
LEMMA LookUpKeepsVirtual ==
  ASSUME VirtualInv, NEW op \in {"stop", "start", "restart"}, NEW name \in {"main"} \cup Interfaces,
         LookUp(op, name)
  PROVE  VirtualInv'
<1>1. /\ todo = <<>> /\ scenario' = scenario \cup {[op |-> op, on |-> ServerFor(name)]}
      /\ UNCHANGED <<config, ccuUp, starts, todo, refs, servers, bound, tails, foreign, failed, lateBin>>
  BY DEF LookUp
<1>2. /\ Plan' = Plan /\ Interfaces' = Interfaces /\ OfInterfaces' = OfInterfaces
      /\ Hosts' = Hosts /\ Ports' = Ports
  BY <1>1, SameConfig
<1>3. Made' = Made /\ TodoInv' /\ Live' = Live
  BY <1>1, SameMade
<1>4. ServerFor(name) \in Hosts \X (0 .. starts)
  <2>1. refs \in [{"main", "interfaces", "json", "script", "ssdp"} -> 0 .. starts]
    BY DEF VirtualInv, VirtualType
  <2>2. refs.main \in 0 .. starts /\ refs.interfaces \in 0 .. starts
    BY <2>1
  <2> QED
    BY <2>2 DEF ServerFor, Hosts
<1>5. VirtualType'
  BY <1>1, <1>2, <1>4 DEF VirtualInv, VirtualType
<1>6. OwnServers' = OwnServers /\ OwnPorts' = OwnPorts
  BY <1>1, <1>2, <1>3 DEF OwnServers, OwnPorts
<1>7. OwnRefs => OwnRefs'
  BY <1>1, <1>3 DEF OwnRefs
<1>8. OldInv'
  BY <1>1, <1>2, <1>3 DEF VirtualInv, OldInv, Kept, Owed
<1> QED
  BY <1>3, <1>5, <1>6, <1>7, <1>8 DEF VirtualInv, OwnInv

\* The type of a call, and what it becomes.
LEMMA CallFacts ==
  ASSUME VirtualInv, NEW c \in scenario
  PROVE  /\ c.op \in {"stop", "start", "restart"}
         /\ c.on = <<c.on[1], c.on[2]>> /\ c.on[1] \in Hosts /\ c.on[2] \in 0 .. starts
         /\ [c EXCEPT !.op = "start"] \in [op : {"stop", "start", "restart"}, on : Hosts \X (0 .. starts)]
         /\ [c EXCEPT !.op = "start"].on = c.on
         /\ c.on[2] \in Nat /\ starts \in Nat
         /\ c.on \in DOMAIN servers => Kept(c.on[1], c.on[2])
         /\ Live /\ c.on[2] = starts => todo = <<>>
<1>1. c \in [op : {"stop", "start", "restart"}, on : Hosts \X (0 .. starts)] /\ starts \in Nat
  BY DEF VirtualInv, VirtualType
<1>2. c.on = <<c.on[1], c.on[2]>> /\ c.on[1] \in Hosts /\ c.on[2] \in 0 .. starts
  BY <1>1
<1>3. c.on[2] \in Nat
  BY <1>1, <1>2
<1>4. c.on \in DOMAIN servers => Kept(c.on[1], c.on[2])
  BY <1>2, <1>3 DEF VirtualInv, OldInv
<1>5. Live /\ c.on[2] = starts => todo = <<>>
  BY <1>1 DEF VirtualInv, OwnInv, OwnRefs
<1> QED
  BY <1>1, <1>2, <1>3, <1>4, <1>5

\* The server of a call was stopped.
LEMMA CallFailsKeepsVirtual ==
  ASSUME VirtualInv, NEW c \in scenario, CallFails(c)
  PROVE  VirtualInv'
<1>1. /\ scenario' \subseteq scenario
      /\ UNCHANGED <<config, ccuUp, starts, todo, refs, servers, bound, tails, foreign, failed, lateBin>>
  BY DEF CallFails, Done
<1>2. /\ Plan' = Plan /\ Interfaces' = Interfaces /\ OfInterfaces' = OfInterfaces
      /\ Hosts' = Hosts /\ Ports' = Ports
  BY <1>1, SameConfig
<1>3. Made' = Made /\ TodoInv' /\ Live' = Live
  BY <1>1, SameMade
<1>4. VirtualType'
  BY <1>1, <1>2 DEF VirtualInv, VirtualType
<1>5. OwnServers' = OwnServers /\ OwnPorts' = OwnPorts
  BY <1>1, <1>2, <1>3 DEF OwnServers, OwnPorts
<1>6. OwnRefs => OwnRefs'
  BY <1>1, <1>3 DEF OwnRefs
<1>7. OldInv'
  BY <1>1, <1>2, <1>3 DEF VirtualInv, OldInv, Kept, Owed
<1> QED
  BY <1>3, <1>4, <1>5, <1>6, <1>7 DEF VirtualInv, OwnInv

\* Another program takes a port, or leaves it.
LEMMA SquatKeepsVirtual ==
  ASSUME VirtualInv, NEW l, Squat(l)
  PROVE  VirtualInv'
<1>1. UNCHANGED <<config, ccuUp, starts, todo, refs, servers, bound, tails, scenario, failed, lateBin>>
  BY DEF Squat
<1>2. /\ Plan' = Plan /\ Interfaces' = Interfaces /\ OfInterfaces' = OfInterfaces
      /\ Hosts' = Hosts /\ Ports' = Ports
  BY <1>1, SameConfig
<1>3. Made' = Made /\ TodoInv' /\ Live' = Live
  BY <1>1, SameMade
<1>4. VirtualType'
  BY <1>1, <1>2 DEF VirtualInv, VirtualType
<1>5. OwnServers' = OwnServers /\ OwnPorts' = OwnPorts /\ OwnRefs' = OwnRefs
  BY <1>1, <1>2, <1>3 DEF OwnServers, OwnPorts, OwnRefs
<1>6. OldInv'
  BY <1>1, <1>2, <1>3 DEF VirtualInv, OldInv, Kept, Owed
<1> QED
  BY <1>3, <1>4, <1>5, <1>6 DEF VirtualInv, OwnInv

\* Suspend: the server sleeps and has no listener any more.
LEMMA SuspendKeepsVirtual ==
  ASSUME VirtualInv, NEW c \in scenario, SuspendServer(c)
  PROVE  VirtualInv'
<1> DEFINE h == c.on
           n == c.on[1]
           g == c.on[2]
           bin == <<Port(c.on[1], "bin"), c.on[2]>>
<1>1. /\ h \in DOMAIN servers
      /\ scenario' = (scenario \ {c}) \cup (IF c.op = "restart" THEN {[c EXCEPT !.op = "start"]} ELSE {})
      /\ UNCHANGED <<config, ccuUp, starts, todo, refs, tails, foreign, failed, lateBin>>
  BY DEF SuspendServer, Done
<1>2. /\ Plan' = Plan /\ Interfaces' = Interfaces /\ OfInterfaces' = OfInterfaces
      /\ Hosts' = Hosts /\ Ports' = Ports
  BY <1>1, SameConfig
<1>3. Made' = Made /\ TodoInv' /\ Live' = Live
  BY <1>1, SameMade
<1>4. /\ h = <<n, g>> /\ n \in Hosts /\ g \in 0 .. starts /\ g \in Nat /\ starts \in Nat
      /\ [c EXCEPT !.op = "start"] \in [op : {"stop", "start", "restart"}, on : Hosts \X (0 .. starts)]
      /\ [c EXCEPT !.op = "start"].on = c.on
      /\ Live /\ g = starts => todo = <<>>
  BY CallFacts
<1>5. VirtualType
  BY DEF VirtualInv
<1>6. \A k \in DOMAIN servers : servers[k] \in [asleep : BOOLEAN, tls : BOOLEAN, bin : BOOLEAN]
  BY <1>5 DEF VirtualType
\* What is different afterwards.
<1>7. /\ DOMAIN servers' = DOMAIN servers /\ bound' \subseteq bound
      /\ \A k \in DOMAIN servers : /\ servers'[k] \in [asleep : BOOLEAN, tls : BOOLEAN, bin : BOOLEAN]
                                   /\ servers'[k].tls = servers[k].tls
                                   /\ servers[k].asleep => servers'[k].asleep
                                   /\ k # h => servers'[k] = servers[k]
      /\ servers'[h].asleep
      /\ servers'[h].bin => servers[h].bin \/ bin \in bound
      /\ \A b \in bound \ bound' : b[1][1] = n /\ b[2] = g
  <2>1. CASE servers[h].asleep
    <3>1. servers' = servers /\ bound' = bound
      BY <2>1 DEF SuspendServer
    <3> QED
      BY <1>6, <2>1, <3>1
  <2>2. CASE ~servers[h].asleep
    <3>1. /\ servers' = [servers EXCEPT ![h].asleep = TRUE, ![h].bin = @ \/ bin \in bound]
          /\ bound' = {b \in bound : b[1][1] # n \/ b[2] # g}
      BY <2>2 DEF SuspendServer
    <3>2. /\ DOMAIN servers' = DOMAIN servers
          /\ \A k \in DOMAIN servers : k # h => servers'[k] = servers[k]
      BY <3>1
    <3>3. servers'[h] = [servers[h] EXCEPT !.asleep = TRUE, !.bin = servers[h].bin \/ bin \in bound]
      BY <1>1, <1>6, <3>1
    <3>4. /\ servers'[h] \in [asleep : BOOLEAN, tls : BOOLEAN, bin : BOOLEAN]
          /\ servers'[h].asleep /\ servers'[h].tls = servers[h].tls
          /\ servers'[h].bin => servers[h].bin \/ bin \in bound
      BY <1>1, <1>6, <3>3
    <3>5. bound' \subseteq bound /\ \A b \in bound \ bound' : b[1][1] = n /\ b[2] = g
      BY <3>1
    <3> QED
      BY <1>6, <3>2, <3>4, <3>5, Zenon
  <2> QED
    BY <2>1, <2>2
<1>8. VirtualType'
  <2>1. scenario' \subseteq [op : {"stop", "start", "restart"}, on : Hosts \X (0 .. starts)]
    BY <1>1, <1>4, <1>5 DEF VirtualType
  <2>2. bound' \subseteq Ports \X Nat
    BY <1>5, <1>7 DEF VirtualType
  <2> QED
    BY <1>1, <1>2, <1>5, <1>7, <2>1, <2>2 DEF VirtualType
<1>9. OwnInv'
  <2> SUFFICES ASSUME Live PROVE OwnServers' /\ OwnPorts' /\ OwnRefs'
    BY <1>3 DEF OwnInv
  <2>1. OwnServers /\ OwnPorts /\ OwnRefs
    BY DEF VirtualInv, OwnInv
  <2>2. OwnServers'
    <3>1. ASSUME NEW m \in Hosts, <<m, starts>> \in DOMAIN servers
          PROVE  /\ servers'[<<m, starts>>].bin => Port(m, "bin") \in Made
                 /\ servers'[<<m, starts>>].asleep => todo = <<>>
      <4>1. CASE <<m, starts>> # h
        <5>1. servers'[<<m, starts>>] = servers[<<m, starts>>]
          BY <1>7, <3>1, <4>1
        <5> QED
          BY <2>1, <3>1, <5>1 DEF OwnServers
      <4>2. CASE <<m, starts>> = h
        <5>1. m = n /\ g = starts /\ todo = <<>>
          BY <1>4, <4>2
        <5>2. Port(m, "bin") \in Ports
          BY DEF Port, Ports
        <5>3. servers[h].bin => Port(m, "bin") \in Made
          BY <2>1, <3>1, <4>2 DEF OwnServers
        <5>4. bin \in bound => Port(m, "bin") \in Made
          BY <2>1, <5>1, <5>2 DEF OwnPorts
        <5> QED
          BY <1>7, <4>2, <5>1, <5>3, <5>4
      <4> QED
        BY <4>1, <4>2
    <3> QED
      BY <1>1, <1>2, <1>3, <1>7, <2>1, <3>1 DEF OwnServers
  <2>3. OwnPorts'
    <3>1. \A x \in Ports : <<x, starts>> \in bound' => x \in Made
      BY <1>7, <2>1 DEF OwnPorts
    <3>2. ASSUME NEW x \in Made, x[2] \in {"plain", "tls"}
          PROVE  \/ <<x, starts>> \in bound'
                 \/ x[1] \in Interfaces \cup {"main"} /\ servers'[<<x[1], starts>>].asleep
      <4>1. CASE x[1] = n /\ g = starts
        <5>1. n \in Interfaces \cup {"main"}
          BY <1>1, <1>4, <2>1, <4>1 DEF OwnServers
        <5> QED
          BY <1>4, <1>7, <4>1, <5>1
      <4>2. CASE ~(x[1] = n /\ g = starts)
        <5>1. <<x, starts>> \in bound => <<x, starts>> \in bound'
          BY <1>7, <4>2
        <5>2. CASE <<x, starts>> \in bound
          BY <5>1, <5>2
        <5>3. CASE x[1] \in Interfaces \cup {"main"} /\ servers[<<x[1], starts>>].asleep
          <6>1. <<x[1], starts>> \in DOMAIN servers
            BY <2>1, <5>3 DEF OwnServers
          <6> QED
            BY <1>7, <5>3, <6>1
        <5> QED
          BY <2>1, <3>2, <5>2, <5>3 DEF OwnPorts
      <4> QED
        BY <4>1, <4>2
    <3> QED
      BY <1>1, <1>2, <1>3, <3>1, <3>2 DEF OwnPorts
  <2>4. OwnRefs'
    <3>1. todo # <<>> => \A d \in scenario' : d.on[2] < starts
      BY <1>1, <1>4, <2>1 DEF OwnRefs
    <3> QED
      BY <1>1, <1>3, <2>1, <3>1 DEF OwnRefs
  <2> QED
    BY <2>2, <2>3, <2>4
<1>10. OldInv'
  BY <1>1, <1>2, <1>3, <1>7 DEF VirtualInv, OldInv, Kept, Owed
<1> QED
  BY <1>3, <1>8, <1>9, <1>10 DEF VirtualInv

\* Resume: the server has its listeners back, or keeps waiting for them.
LEMMA ResumeKeepsVirtual ==
  ASSUME VirtualInv, NEW c \in scenario, ResumeServer(c)
  PROVE  VirtualInv'
<1> DEFINE h == c.on
           n == c.on[1]
           g == c.on[2]
           known == servers[h]
           tls == known.tls => Free(Port(n, "tls"))
           bin == tls /\ known.bin /\ Free(Port(n, "bin"))
           again == {Port(n, "plain")} \cup (IF tls /\ known.tls THEN {Port(n, "tls")} ELSE {})
                    \cup (IF bin THEN {Port(n, "bin")} ELSE {})
           quiet == ~known.asleep \/ ~Free(Port(n, "plain"))
<1>1. /\ h \in DOMAIN servers /\ scenario' = scenario \ {c}
      /\ UNCHANGED <<config, ccuUp, starts, todo, refs, tails, foreign, failed>>
  BY DEF ResumeServer, Done
<1>2. /\ Plan' = Plan /\ Interfaces' = Interfaces /\ OfInterfaces' = OfInterfaces
      /\ Hosts' = Hosts /\ Ports' = Ports
  BY <1>1, SameConfig
<1>3. Made' = Made /\ TodoInv' /\ Live' = Live
  BY <1>1, SameMade
<1>4. /\ h = <<n, g>> /\ n \in Hosts /\ g \in 0 .. starts /\ g \in Nat /\ starts \in Nat
      /\ Kept(n, g)
  BY <1>1, CallFacts
<1>5. VirtualType
  BY DEF VirtualInv
<1>6. \A k \in DOMAIN servers : servers[k] \in [asleep : BOOLEAN, tls : BOOLEAN, bin : BOOLEAN]
  BY <1>5 DEF VirtualType
<1>7. Port(n, "plain") \in Ports /\ Port(n, "tls") \in Ports /\ Port(n, "bin") \in Ports
  BY <1>4 DEF Port, Ports
<1>8. again \subseteq Ports /\ \A x \in again : x[1] = n /\ x \in {Port(n, "plain"), Port(n, "tls"), Port(n, "bin")}
  BY <1>7 DEF Port
<1>9. CASE quiet
  <2>1. servers' = servers /\ bound' = bound /\ lateBin' = lateBin
    BY <1>9 DEF ResumeServer
  <2>2. VirtualType'
    BY <1>1, <1>2, <2>1 DEF VirtualInv, VirtualType
  <2>3. OwnServers' = OwnServers /\ OwnPorts' = OwnPorts
    BY <1>1, <1>2, <1>3, <2>1 DEF OwnServers, OwnPorts
  <2>4. OwnRefs => OwnRefs'
    BY <1>1, <1>3 DEF OwnRefs
  <2>5. OldInv'
    BY <1>1, <1>2, <1>3, <2>1 DEF VirtualInv, OldInv, Kept, Owed
  <2> QED
    BY <1>3, <2>2, <2>3, <2>4, <2>5 DEF VirtualInv, OwnInv
<1>10. CASE ~quiet
  <2>1. /\ bound' = bound \cup (again \X {g})
        /\ servers' = IF tls THEN [servers EXCEPT ![h].asleep = FALSE, ![h].bin = FALSE] ELSE servers
        /\ lateBin' = IF bin /\ refs.main # g
                         /\ ~\E t \in tails : t.of = g /\ Port("main", "bin") \in Range(t.rest)
                      THEN lateBin \cup {g} ELSE lateBin
    BY <1>10 DEF ResumeServer
  <2> HIDE DEF again
  <2>2. /\ DOMAIN servers' = DOMAIN servers
        /\ \A k \in DOMAIN servers : /\ servers'[k] \in [asleep : BOOLEAN, tls : BOOLEAN, bin : BOOLEAN]
                                     /\ servers'[k].tls = servers[k].tls
                                     /\ servers'[k].bin => servers[k].bin
                                     /\ servers'[k].asleep => servers[k].asleep
                                     /\ k # h => servers'[k] = servers[k]
        /\ tls \/ servers'[h].asleep
    <3>1. CASE tls
      <4>1. servers' = [servers EXCEPT ![h].asleep = FALSE, ![h].bin = FALSE]
        BY <2>1, <3>1
      <4>2. /\ DOMAIN servers' = DOMAIN servers
            /\ \A k \in DOMAIN servers : k # h => servers'[k] = servers[k]
            /\ servers'[h] = [servers[h] EXCEPT !.asleep = FALSE, !.bin = FALSE]
        BY <1>1, <4>1
      <4>3. /\ servers'[h] \in [asleep : BOOLEAN, tls : BOOLEAN, bin : BOOLEAN]
            /\ servers'[h].tls = servers[h].tls /\ ~servers'[h].bin /\ ~servers'[h].asleep
        BY <1>1, <1>6, <4>2
      <4> QED
        BY <1>6, <3>1, <4>2, <4>3, Zenon
    <3>2. CASE ~tls
      <4>1. servers' = servers /\ servers[h].asleep
        BY <1>10, <2>1, <3>2
      <4> QED
        BY <1>1, <1>6, <4>1
    <3> QED
      BY <3>1, <3>2
  <2>3. /\ Port(n, "plain") \in again
        /\ tls /\ known.tls => Port(n, "tls") \in again
        /\ Port(n, "tls") \in again => known.tls
        /\ Port(n, "bin") \in again => known.bin /\ bin
    BY DEF again, Port
  <2>4. lateBin \subseteq lateBin' /\ lateBin' \subseteq lateBin \cup {g}
    BY <2>1
  <2>5. VirtualType'
    <3>1. bound' \subseteq Ports \X Nat
      BY <1>4, <1>5, <1>8, <2>1 DEF VirtualType
    <3>2. lateBin' \subseteq 0 .. starts
      BY <1>4, <1>5, <2>4 DEF VirtualType
    <3> QED
      BY <1>1, <1>2, <1>5, <2>2, <3>1, <3>2 DEF VirtualType
  <2>6. OwnInv'
    <3> SUFFICES ASSUME Live PROVE OwnServers' /\ OwnPorts' /\ OwnRefs'
      BY <1>3 DEF OwnInv
    <3>1. OwnServers /\ OwnPorts /\ OwnRefs
      BY DEF VirtualInv, OwnInv
    <3>2. OwnServers'
      BY <1>1, <1>2, <1>3, <2>2, <3>1 DEF OwnServers
    <3>3. ASSUME g = starts
          PROVE  /\ Port(n, "plain") \in Made
                 /\ known.tls <=> Port(n, "tls") \in Made
                 /\ known.bin => Port(n, "bin") \in Made
      <4>1. <<n, starts>> \in DOMAIN servers /\ <<n, starts>> = h
        BY <1>1, <1>4, <3>3
      <4>2. /\ Port(n, "plain") \in Made
            /\ servers[<<n, starts>>].tls <=> Port(n, "tls") \in Made
            /\ servers[<<n, starts>>].bin => Port(n, "bin") \in Made
        BY <1>4, <3>1, <4>1 DEF OwnServers
      <4> QED
        BY <4>1, <4>2
    <3>4. OwnPorts'
      <4>1. ASSUME NEW x \in Ports, <<x, starts>> \in bound'
            PROVE  x \in Made
        <5>1. CASE <<x, starts>> \in bound
          BY <3>1, <5>1 DEF OwnPorts
        <5>2. CASE x \in again /\ g = starts
          <6>1. CASE x = Port(n, "plain")
            BY <3>3, <5>2, <6>1
          <6>2. CASE x = Port(n, "tls")
            BY <2>3, <3>3, <5>2, <6>2
          <6>3. CASE x = Port(n, "bin")
            BY <2>3, <3>3, <5>2, <6>3
          <6> QED
            BY <1>8, <5>2, <6>1, <6>2, <6>3
        <5> QED
          BY <2>1, <4>1, <5>1, <5>2
      <4>2. ASSUME NEW x \in Made, x[2] \in {"plain", "tls"}
            PROVE  \/ <<x, starts>> \in bound'
                   \/ x[1] \in Interfaces \cup {"main"} /\ servers'[<<x[1], starts>>].asleep
        <5>1. CASE <<x, starts>> \in bound
          BY <2>1, <5>1
        <5>2. CASE x[1] \in Interfaces \cup {"main"} /\ servers[<<x[1], starts>>].asleep
          <6>1. <<x[1], starts>> \in DOMAIN servers
            BY <3>1, <5>2 DEF OwnServers
          <6>2. CASE <<x[1], starts>> # h
            BY <2>2, <5>2, <6>1, <6>2
          <6>3. CASE <<x[1], starts>> = h
            <7>1. x[1] = n /\ g = starts
              BY <1>4, <6>3
            <7>2. x \in Ports /\ x = <<x[1], x[2]>>
              BY MadeFacts DEF Ports
            <7>3. x = Port(n, "plain") \/ x = Port(n, "tls")
              BY <4>2, <7>1, <7>2 DEF Port
            <7>4. CASE tls
              <8>1. x \in again
                BY <2>3, <3>3, <7>1, <7>3, <7>4
              <8> QED
                BY <2>1, <7>1, <8>1
            <7>5. CASE ~tls
              BY <2>2, <5>2, <6>3, <7>5
            <7> QED
              BY <7>4, <7>5
          <6> QED
            BY <6>2, <6>3
        <5> QED
          BY <3>1, <4>2, <5>1, <5>2 DEF OwnPorts
      <4> QED
        BY <1>1, <1>2, <1>3, <4>1, <4>2 DEF OwnPorts
    <3>5. OwnRefs'
      BY <1>1, <1>3, <3>1 DEF OwnRefs
    <3> QED
      BY <3>2, <3>4, <3>5
  <2>7. OldInv'
    <3>1. ASSUME NEW m \in Hosts, NEW k \in Nat, <<m, k>> \in DOMAIN servers'
          PROVE  Kept(m, k)'
      <4>1. <<m, k>> \in DOMAIN servers /\ servers'[<<m, k>>].tls = servers[<<m, k>>].tls
        BY <2>2, <3>1
      <4>2. Kept(m, k)
        BY <4>1 DEF VirtualInv, OldInv
      <4> QED
        BY <1>1, <1>3, <4>1, <4>2 DEF Kept
    <3>2. ASSUME NEW x \in Ports, NEW k \in Nat, <<x, k>> \in bound'
          PROVE  Owed(x, k)'
      <4>1. CASE <<x, k>> \in bound
        <5>1. Owed(x, k)
          BY <4>1 DEF VirtualInv, OldInv
        <5> QED
          BY <1>1, <1>3, <2>4, <5>1 DEF Owed
      <4>2. CASE x \in again /\ k = g
        <5>1. CASE Live /\ g = starts
          BY <1>1, <1>3, <4>2, <5>1 DEF Owed
        <5>2. CASE g \in failed /\ n \notin {"main", "json"}
          <6>1. x \notin {Port("json", "plain"), Port("json", "tls"), Port("main", "plain"), Port("main", "bin")}
            BY <1>8, <4>2, <5>2 DEF Port
          <6> QED
            BY <1>1, <4>2, <5>2, <6>1 DEF Owed
        <5>3. ASSUME NEW t \in tails, n = "main", t.of = g, Port("main", "plain") \in Range(t.rest),
                     known.tls => Port("main", "tls") \in Range(t.rest)
              PROVE  Owed(x, k)'
          <6>1. CASE x \in Range(t.rest)
            BY <1>1, <4>2, <5>3, <6>1 DEF Owed
          <6>2. CASE x \notin Range(t.rest)
            <7>1. x = Port("main", "bin") /\ bin
              BY <1>8, <2>3, <4>2, <5>3, <6>2
            <7>2. refs.main # g
              BY <1>5, <5>3 DEF VirtualType
            <7>3. CASE \E u \in tails : u.of = g /\ Port("main", "bin") \in Range(u.rest)
              BY <1>1, <4>2, <7>1, <7>3 DEF Owed
            <7>4. CASE ~\E u \in tails : u.of = g /\ Port("main", "bin") \in Range(u.rest)
              <8>1. g \in lateBin'
                BY <2>1, <7>1, <7>2, <7>4
              <8> QED
                BY <4>2, <7>1, <8>1 DEF Owed
            <7> QED
              BY <7>3, <7>4
          <6> QED
            BY <6>1, <6>2
        <5>4. servers[<<n, g>>] = known
          BY <1>4
        <5> QED
          BY <1>4, <5>1, <5>2, <5>3, <5>4 DEF Kept
      <4> QED
        BY <2>1, <3>2, <4>1, <4>2
    <3> QED
      BY <1>2, <3>1, <3>2 DEF OldInv
  <2> QED
    BY <1>3, <2>5, <2>6, <2>7 DEF VirtualInv
<1> QED
  BY <1>9, <1>10

-----------------------------------------------------------------------------
(* Every step                                                              *)

LEMMA RestKeepsVirtual ==
  ASSUME VirtualInv, UNCHANGED virtualVars
  PROVE  VirtualInv'
<1>1. UNCHANGED <<config, ccuUp, starts, todo, refs, servers, bound, tails, scenario, failed, lateBin>>
  BY DEF virtualVars
<1>2. /\ Plan' = Plan /\ Interfaces' = Interfaces /\ OfInterfaces' = OfInterfaces
      /\ Hosts' = Hosts /\ Ports' = Ports
  BY <1>1, SameConfig
<1>3. Made' = Made /\ TodoInv' /\ Live' = Live
  BY <1>1, SameMade
<1>4. VirtualType'
  BY <1>1, <1>2 DEF VirtualInv, VirtualType
<1>5. OwnServers' = OwnServers /\ OwnPorts' = OwnPorts /\ OwnRefs' = OwnRefs
  BY <1>1, <1>2, <1>3 DEF OwnServers, OwnPorts, OwnRefs
<1>6. OldInv'
  BY <1>1, <1>2, <1>3 DEF VirtualInv, OldInv, Kept, Owed
<1> QED
  BY <1>3, <1>4, <1>5, <1>6 DEF VirtualInv, OwnInv

LEMMA EveryStepOfVirtual ==
  ASSUME VirtualInv, [Next]_ccuVars
  PROVE  VirtualInv'
<1>1. ASSUME VirtualCall PROVE VirtualInv'
  BY <1>1, StartKeepsVirtual, StopKeepsVirtual, LookUpKeepsVirtual, SquatKeepsVirtual DEF VirtualCall
<1>2. ASSUME VirtualRun PROVE VirtualInv'
  BY <1>2, BindKeepsVirtual, NoDiscoveryKeepsVirtual, StartFailsKeepsVirtual, StopNextKeepsVirtual,
     CallFailsKeepsVirtual, SuspendKeepsVirtual, ResumeKeepsVirtual DEF VirtualRun
<1>3. ASSUME Next, ~VirtualCall, ~VirtualRun PROVE UNCHANGED virtualVars
  <2>1. CASE StoreCall \/ LinkCall \/ StoreRun
    BY <2>1 DEF StoreCall, LinkCall, StoreRun
  <2>2. CASE CatalogueCall \/ CatalogueRun \/ FaultCall \/ FaultRun
    BY <2>2 DEF CatalogueCall, CatalogueRun, FaultCall, FaultRun
  <2>3. CASE LifeCall \/ LifeRun
    BY <2>3 DEF LifeCall, LifeRun
  <2>4. CASE WebCall \/ Admission \/ WebRun
    BY <2>4 DEF WebCall, Admission, WebRun
  <2>5. CASE StateCall \/ StateRun
    BY <2>5 DEF StateCall, StateRun
  <2> QED
    BY <1>3, <2>1, <2>2, <2>3, <2>4, <2>5 DEF Next
<1>4. ASSUME UNCHANGED ccuVars PROVE UNCHANGED virtualVars
  BY <1>4 DEF ccuVars
<1> QED
  BY <1>1, <1>2, <1>3, <1>4, RestKeepsVirtual

\* In every behaviour of the simulator a run serves what it was configured
\* with, and no port stays bound but those of the two leaks (Start, Stop,
\* stopInterfaces, RestartInterface).
THEOREM VirtualStaysSound == Spec => []VirtualSound
<1>1. Init => VirtualInv
  BY VirtualStarts DEF Init
<1>2. VirtualInv /\ [Next]_ccuVars => VirtualInv'
  BY EveryStepOfVirtual
<1>3. VirtualInv => VirtualSound
  BY VirtualInvImplies
<1> QED
  BY <1>1, <1>2, <1>3, PTL DEF Spec
=============================================================================
