------------------------------ MODULE Sessions ------------------------------
(***************************************************************************)
(* The sessions of the simulated CCU (internal/session) and how the web    *)
(* API lets a request in (authorize, backupAuthorized and the sid checks   *)
(* of internal/jsonrpc).  A request reads whether authentication is on,    *)
(* reads it again in Validate, and only then looks its session up: three   *)
(* critical sections, with other requests and the test's toggles between.  *)
(* A batch is taken call by call.  Ids are random and never minted twice.  *)
(***************************************************************************)
EXTENDS Integers, Sequences, FiniteSets, SequencesExt, Functions

CONSTANTS
  Slots,     \* requests the server works on at a time
  Ids,       \* session ids that can be minted
  NoId,
  NoRequest,
  Level,     \* JSON-RPC method -> the level that methodLevels has for it
  Public,    \* PublicMethods
  Endpoints, \* the CGI paths
  Unguarded, \* those of them that ask for no session, as handleBackupLogin
  BackupAPI, \* those of them that backupAuthorized guards
  Timeout,   \* a session is expired when it is older
  MaxClock   \* bound: ticks of the clock

ASSUME ClockAssumption == Timeout \in Nat /\ MaxClock \in Nat
ASSUME EndpointAssumption == Unguarded \cup BackupAPI \subseteq Endpoints

VARIABLES
  clock,
  sessions,      \* Manager.sessions: id -> LastAccess
  enabled,       \* Manager.enabled
  ccuErrorModel, \* Server.ccuErrorModel
  webReady,      \* Server.ready
  request,       \* slot -> the request in it
  minted,        \* ids handed out by now
  over,          \* history: ids that were logged out, renewed or invalidated
  used           \* history: id -> when it was minted or let in last

sessVars == <<clock, sessions, enabled, ccuErrorModel, webReady, request, minted, over, used>>
tableVars == <<sessions, minted, over, used>>

-----------------------------------------------------------------------------
(* The session table                                                       *)

\* Mutation: a session expires when it is as old as the timeout allows.
IsExpiredEarly(id) == clock - sessions[id] >= Timeout

\* Session.IsExpired.
IsExpired(id) == clock - sessions[id] > Timeout

\* A table with an id that is used now.
Stamped(table, id) == [i \in DOMAIN table \cup {id} |-> IF i = id THEN clock ELSE table[i]]

\* A new session, in a table that may have lost one.
Mint(id, table, ended) ==
  /\ id \in Ids \ minted
  /\ minted' = minted \cup {id}
  /\ sessions' = Stamped(table, id)
  /\ used' = Stamped(used, id)
  /\ over' = over \cup ended

\* Login with the right credentials; any other changes nothing.
Login(id) == Mint(id, sessions, {})

\* Logout.
LogoutOf(id) ==
  /\ sessions' = Restrict(sessions, DOMAIN sessions \ {id})
  /\ over' = over \cup ({id} \cap DOMAIN sessions)
  /\ UNCHANGED <<minted, used>>

\* Mutation: the session that is renewed stays.
AfterRenewalKept(id) == sessions

AfterRenewal(id) == Restrict(sessions, DOMAIN sessions \ {id})

\* Renew.  The handler answers true, so nobody learns the new id.
Renew(id, new) ==
  \/ id \notin DOMAIN sessions /\ UNCHANGED tableVars
  \/ /\ id \in DOMAIN sessions
     /\ IsExpired(id)
     /\ sessions' = Restrict(sessions, DOMAIN sessions \ {id})
     /\ UNCHANGED <<minted, over, used>>
  \/ /\ id \in DOMAIN sessions
     /\ ~IsExpired(id)
     /\ Mint(new, AfterRenewal(id), {id})

\* CleanupExpired, and InvalidateAll.
CleanupExpired ==
  /\ sessions' = Restrict(sessions, {id \in DOMAIN sessions : ~IsExpired(id)})
  /\ UNCHANGED <<clock, enabled, ccuErrorModel, webReady, request, minted, over, used>>
InvalidateAll ==
  /\ sessions' = <<>>
  /\ over' = over \cup DOMAIN sessions
  /\ UNCHANGED <<clock, enabled, ccuErrorModel, webReady, request, minted, used>>

-----------------------------------------------------------------------------
(* Requests.  A call names a method or an endpoint and the ids to try, in  *)
(* order: the one next to the method before the one in the parameters, or  *)
(* the sid of the query before the bearer token.                           *)

\* Where a call begins: a handler that asks for no session tests nothing.
FirstStage(method) == IF method \in Unguarded THEN "admitted" ELSE "enabled"

\* The first call of a batch; off: authentication has been off since the call
\* came, idle: how long its session was not used, dead: it had ended.
At(body, off) ==
  [stage |-> FirstStage(Head(body).method), call |-> Head(body), rest |-> Tail(body), off |-> off, tried |-> NoId,
   idle |-> 0, dead |-> FALSE]

\* A request comes in; the JSON-RPC API answers 503 while it boots.
Arrive(s, body) ==
  /\ request[s] = NoRequest
  /\ webReady \/ Head(body).method \in Endpoints
  /\ request' = [request EXCEPT ![s] = At(body, ~enabled)]
  /\ UNCHANGED <<clock, enabled, ccuErrorModel, webReady, tableVars>>

\* The next call of a batch, or the end of the request.
Answered(s) ==
  IF request[s].rest = <<>> THEN NoRequest
  ELSE At(request[s].rest, ~enabled)

\* The id that is tried: extractSessionID for JSON-RPC.
Tried(call) == IF call.sid # NoId THEN call.sid ELSE call.second

\* Who is let in, with a valid session or without.
Allowed(method, valid) ==
  \/ valid
  \/ method \in Unguarded
  \/ method \notin Endpoints /\ IF ccuErrorModel THEN Level[method] = "NONE" ELSE method \in Public

Verdict(s, valid) ==
  [request EXCEPT ![s].stage = IF Allowed(request[s].call.method, valid) THEN "admitted"
                               ELSE "refused"]

\* AuthEnabled.
CheckEnabled(s) ==
  /\ request[s].stage = "enabled"
  /\ request' = [request EXCEPT ![s].stage = IF enabled THEN "validate" ELSE "admitted",
                                ![s].tried = Tried(request[s].call)]
  /\ UNCHANGED <<clock, enabled, ccuErrorModel, webReady, tableVars>>

\* Validate up to the lookup.  backupAuthorized does not ask it without an id.
ValidateEnabled(s) ==
  LET r == request[s] IN
  /\ r.stage = "validate"
  /\ request' = IF enabled /\ r.tried # NoId THEN [request EXCEPT ![s].stage = "lookup"]
                ELSE Verdict(s, ~enabled /\ (r.tried # NoId \/ r.call.method \notin BackupAPI))
  /\ UNCHANGED <<clock, enabled, ccuErrorModel, webReady, tableVars>>

\* backupAuthorized tries the bearer token when the sid is not valid.
Retry(s) ==
  LET r == request[s] IN
  IF r.call.method \in BackupAPI /\ r.tried = r.call.sid /\ r.call.second \notin {NoId, r.tried}
  THEN [request EXCEPT ![s].stage = "validate", ![s].tried = r.call.second]
  ELSE Verdict(s, FALSE)

\* The session of an id is there and not expired.
Found(id) == id \in DOMAIN sessions /\ ~IsExpired(id)

\* What the histories say of a lookup, for the property.
Seen(s, next) ==
  LET id == request[s].tried IN
  [next EXCEPT ![s].idle = IF id \in minted THEN clock - used[id] ELSE 0,
               ![s].dead = id \in over \/ id \notin minted]

\* Validate from the lookup on.
ValidateLookup(s) ==
  LET id == request[s].tried IN
  /\ request[s].stage = "lookup"
  /\ IF Found(id)
     THEN /\ sessions' = [sessions EXCEPT ![id] = clock]
          /\ used' = [used EXCEPT ![id] = clock]
          /\ request' = Seen(s, Verdict(s, TRUE))
     ELSE /\ sessions' = Restrict(sessions, DOMAIN sessions \ {id})
          /\ request' = Seen(s, Retry(s))
          /\ UNCHANGED used
  /\ UNCHANGED <<clock, enabled, ccuErrorModel, webReady, minted, over>>

\* A call that was not let in is answered.
Refuse(s) ==
  /\ request[s].stage = "refused"
  /\ request' = [request EXCEPT ![s] = Answered(s)]
  /\ UNCHANGED <<clock, enabled, ccuErrorModel, webReady, tableVars>>

AdmissionStep(s) ==
  /\ request[s] # NoRequest
  /\ \/ CheckEnabled(s)
     \/ ValidateEnabled(s)
     \/ ValidateLookup(s)
     \/ Refuse(s)

-----------------------------------------------------------------------------
(* Toggles and time                                                        *)

\* SetAuthEnabled; a request that is waiting has seen it off.
SetAuthEnabled(on) ==
  /\ enabled' = on
  /\ request' = [s \in Slots |-> IF request[s] = NoRequest THEN NoRequest
                                 ELSE [request[s] EXCEPT !.off = @ \/ ~on]]
  /\ UNCHANGED <<clock, ccuErrorModel, webReady, tableVars>>

\* SetReady of the web API.
SetWebReady(on) ==
  /\ webReady' = on
  /\ UNCHANGED <<clock, enabled, ccuErrorModel, request, tableVars>>

\* Time, while there is a session to grow old.
SessionTick ==
  /\ clock < MaxClock
  /\ sessions # <<>>
  /\ clock' = clock + 1
  /\ UNCHANGED <<enabled, ccuErrorModel, webReady, request, tableVars>>

SessInit ==
  /\ clock = 0
  /\ sessions = <<>>
  /\ enabled \in BOOLEAN
  /\ ccuErrorModel \in BOOLEAN
  /\ webReady = TRUE
  /\ request = [s \in Slots |-> NoRequest]
  /\ minted = {}
  /\ over = {}
  /\ used = <<>>

-----------------------------------------------------------------------------
(* Properties                                                              *)

\* Reasons to be let in, and to be turned away.
Open(r) == r.off \/ Allowed(r.call.method, FALSE)
Alive(r) == r.tried # NoId /\ ~r.dead /\ r.idle <= Timeout

\* However logins, renewals, logouts, clean-ups, toggles and time interleave
\* with a request on its way in: it is let in only if its session was neither
\* ended nor idle for longer than the timeout when it was looked up, if
\* authentication was off at some moment since it came, or if anybody may call
\* the method; a session that is alive is never turned away; and a session
\* that has ended stays out of the table (Validate, Renew, Logout, authorize).
SessionSound ==
  /\ DOMAIN sessions \cap over = {}
  /\ \A s \in Slots : request[s] # NoRequest =>
       /\ request[s].stage = "admitted" => Open(request[s]) \/ Alive(request[s])
       /\ request[s].stage = "refused" => ~Alive(request[s])
=============================================================================
