------------------------------ MODULE Pairing ------------------------------
(***************************************************************************)
(* Who may do what on the fake box of pkg/litefake (auth.go): API tokens   *)
(* and account sessions with their scopes; and how an app gets a token of  *)
(* its own (pairing.go): it asks, polls, perhaps for a long time, and is   *)
(* handed the token once an administrator has approved it.                 *)
(*                                                                         *)
(* What happens under the pairing lock is one step.  A long poll waits     *)
(* without the lock, so it is two.  Time is a clock that advances between  *)
(* steps; the poll interval is shorter than its unit, so whether a poll    *)
(* comes too soon is not decided here: such a poll changes nothing.  An    *)
(* app is an address and an app name together; only the app that asked     *)
(* has the poll secret, any other poll is refused.                         *)
(***************************************************************************)
EXTENDS Integers, Sequences, FiniteSets, SequencesExt, Functions

CONSTANTS
  PairIds,      \* ids of requests, also the secrets of the tokens they lead to
  Apps,         \* pairs of an address and an app name
  AddressOf,    \* AddressOf[a]: the address of app a
  SlugOf,       \* SlugOf[a]: what slugify makes of its name and instance, its words
  Words,        \* what slugs are made of, numbers among them
  Accesses,     \* access levels an app may ask for
  Pollers,      \* concurrent polls
  SeedTokens,   \* Options.Tokens: secret |-> [name, scopes]
  TokenTables,  \* tables SetTokens may bring
  Users,        \* account names
  AccountScopes,\* the scopes of an account
  Sids,         \* session ids
  NoUser,
  NoRequest,
  Lifetime,     \* pairingState.lifetime
  Keep,         \* pairingState.keep
  Mute,         \* pairingMute
  Window,       \* the hour of pairingPerHour
  PendingTotal, \* pairingPendingTotal
  PerWindow,    \* pairingPerHour
  MaxClock      \* bound: clock

\* The levels of PairingScopes.
PairingAccess == [devices : {"none", "read", "operate", "configure", "administer"},
                  names   : {"none", "read", "configure"},
                  system  : {"none", "read", "configure"}]

\* Names of seeded tokens are cut from their secrets (tokenName) and may be
\* equal.
ASSUME PairingAssumption ==
  /\ Lifetime \in Nat /\ Window \in Nat /\ PendingTotal \in Nat /\ PerWindow \in Nat
  /\ DOMAIN AddressOf = Apps
  /\ Accesses \subseteq PairingAccess
  /\ \A table \in TokenTables \cup {SeedTokens} : IsFiniteSet(DOMAIN table)
  /\ \A app \in Apps : SlugOf[app] \in Seq(Words)

VARIABLES
  tokens,       \* Fake.tokens
  accounts,     \* Fake.accounts
  sessions,     \* Fake.sessions
  login,        \* logins that have read their account and not yet stored it
  pairingOff,   \* pairingState.disabled
  requests,     \* pairingState.requests
  askedAt,      \* pairingState.history: address -> request -> when it came
  muted,        \* pairingState.muted
  poll,         \* the request a long poll waits for
  clock,
  made,         \* history: every request ever made, with app and time
  handed,       \* history: how often the token of a request was handed out
  paired        \* history: requests whose token is in the table since it was paired

accessVars  == <<tokens, accounts, sessions, login, paired>>
requestVars == <<pairingOff, requests, askedAt, muted, poll, made, handed>>
pairVars    == <<accessVars, requestVars, clock>>

\* A table with one more entry, or a new one for its key.
Extended(table, key, entry) ==
  [k \in DOMAIN table \cup {key} |-> IF k = key THEN entry ELSE table[k]]

-----------------------------------------------------------------------------
(* Scopes                                                                  *)

\* Mutation: administering does not include operating.
ImpliedShort(scope) ==
  CASE scope = "rpc:admin" -> {"rpc:configure", "rpc:read"}
    [] scope = "rpc:configure" -> {"rpc:operate", "rpc:read"}
    [] OTHER -> {}

\* implied.
Implied(scope) ==
  CASE scope = "meta:write"    -> {"meta:read"}
    [] scope = "system:write"  -> {"system:read", "led"}
    [] scope = "addons:write"  -> {"system:read"}
    [] scope = "auth:admin"    -> {"self"}
    [] scope = "rpc:operate"   -> {"rpc:read"}
    [] scope = "rpc:configure" -> {"rpc:operate", "rpc:read"}
    [] scope = "rpc:admin"     -> {"rpc:configure", "rpc:operate", "rpc:read"}
    [] OTHER                   -> {}

HasScope(stored, want) ==
  \E s \in stored : s = "*" \/ s = want \/ want \in Implied(s)

\* resolve: the scopes of whom a secret names, a token before a session.
ScopesOf(secret) ==
  IF secret \in DOMAIN tokens THEN tokens[secret].scopes
  ELSE IF secret \in DOMAIN sessions THEN AccountScopes[sessions[secret]]
  ELSE {}

\* authorize.
Authorized(secret, scope) == HasScope(ScopesOf(secret), scope)

\* PairingScopes.
PairingScopes(access) ==
  (CASE access.devices = "none"       -> {}
     [] access.devices = "read"       -> {"rpc:read"}
     [] access.devices = "operate"    -> {"rpc:read", "rpc:operate"}
     [] access.devices = "configure"  -> {"rpc:read", "rpc:operate", "rpc:configure"}
     [] access.devices = "administer" ->
          {"rpc:read", "rpc:operate", "rpc:configure", "rpc:admin"})
  \cup
  (CASE access.names = "none"      -> {}
     [] access.names = "read"      -> {"meta:read"}
     [] access.names = "configure" -> {"meta:read", "meta:write"})
  \cup
  (CASE access.system = "none"      -> {}
     [] access.system = "read"      -> {"system:read", "logs:read"}
     [] access.system = "configure" -> {"system:read", "logs:read", "system:write"})

-----------------------------------------------------------------------------
(* Tokens, accounts and sessions                                           *)

\* A test may bring the secret of a paired token, with scopes of its own.
SetTokens(table) ==
  /\ tokens' = table
  /\ paired' = {}
  /\ UNCHANGED <<accounts, sessions, login, requestVars, clock>>

\* Existing sessions stay.
SetAccounts(users) ==
  /\ accounts' = users
  /\ UNCHANGED <<tokens, sessions, login, paired, requestVars, clock>>

\* handleLogin reads the account and compares the password ...
LoginCheck(sid, user) ==
  /\ user \in accounts
  /\ sid \notin DOMAIN sessions
  /\ login[sid] = NoUser
  /\ login' = [login EXCEPT ![sid] = user]
  /\ UNCHANGED <<tokens, accounts, sessions, paired, requestVars, clock>>

\* ... and stores the session under the lock it has taken again.
LoginStore(sid) ==
  /\ login[sid] # NoUser
  /\ sessions' = Extended(sessions, sid, login[sid])
  /\ login' = [login EXCEPT ![sid] = NoUser]
  /\ UNCHANGED <<tokens, accounts, paired, requestVars, clock>>

\* handleLogout: the session itself must be the credential.
Logout(sid) ==
  /\ sid \in DOMAIN sessions
  /\ sessions' = Restrict(sessions, DOMAIN sessions \ {sid})
  /\ UNCHANGED <<tokens, accounts, login, paired, requestVars, clock>>

-----------------------------------------------------------------------------
(* Pairing                                                                 *)

\* Mutation: what has passed its lifetime stays pending.
ExpireNever(reqs) ==
  Restrict(reqs, {id \in DOMAIN reqs : clock <= reqs[id].created + Lifetime + Keep})

\* expireLocked.
Expire(reqs) ==
  [id \in {i \in DOMAIN reqs : clock <= reqs[i].created + Lifetime + Keep} |->
     IF reqs[id].state = "pending" /\ clock > reqs[id].created + Lifetime
     THEN [reqs[id] EXCEPT !.state = "expired"] ELSE reqs[id]]

Pending(reqs) == {id \in DOMAIN reqs : reqs[id].state = "pending"}

Recent(addr) == {id \in DOMAIN askedAt[addr] : clock - askedAt[addr][id] < Window}

NewRequest(app, access) ==
  [app |-> app, access |-> access, created |-> clock, state |-> "pending",
   revealed |-> FALSE, handedOut |-> FALSE, approvedAt |-> 0]

\* Mutation: the address is not charged for the request.
ChargedNot(addr, id) == askedAt

\* The history of an address with one more request; what is past goes.
Charged(addr, id) ==
  [askedAt EXCEPT ![addr] = Extended(Restrict(askedAt[addr], Recent(addr)), id, clock)]

\* handlePairingRequest with a valid body.  A call that is refused after the
\* requests were expired only expires them, here and below: see ListPairings.
Ask(id, app, access) ==
  LET held == Expire(requests) IN
  /\ id \notin DOMAIN made
  /\ PairingScopes(access) # {}
  /\ ~pairingOff
  /\ \A r \in Pending(held) : held[r].app # app
  /\ Cardinality(Pending(held)) < PendingTotal
  /\ clock >= muted[app]
  /\ Cardinality(Recent(AddressOf[app])) < PerWindow
  /\ askedAt' = Charged(AddressOf[app], id)
  /\ requests' = Extended(held, id, NewRequest(app, access))
  /\ made' = Extended(made, id, [app |-> app, at |-> clock])
  /\ UNCHANGED <<accessVars, pairingOff, muted, poll, handed, clock>>

\* Mutation: every poll of an approved request is handed the token.
AnswerAgain(reqs, id) ==
  IF id \in DOMAIN reqs /\ reqs[id].state = "approved"
  THEN /\ requests' = [reqs EXCEPT ![id].handedOut = TRUE]
       /\ handed' = [handed EXCEPT ![id] = @ + 1]
  ELSE requests' = reqs /\ UNCHANGED handed

\* The answer of a poll: the token of an approved request is handed out unless
\* it was before; every other answer only tells the state.
Answer(reqs, id) ==
  IF id \in DOMAIN reqs /\ reqs[id].state = "approved" /\ ~reqs[id].handedOut
  THEN /\ requests' = [reqs EXCEPT ![id].handedOut = TRUE]
       /\ handed' = [handed EXCEPT ![id] = @ + 1]
  ELSE requests' = reqs /\ UNCHANGED handed

\* pairingAuth, and the nonce: the first poll must reveal the one committed to.
Polled(id, nonce) ==
  LET held == Expire(requests) IN
  IF id \in DOMAIN held /\ nonce THEN [held EXCEPT ![id].revealed = TRUE] ELSE held

\* A poll that does not wait, or finds the request no longer pending.
PollNow(id, nonce) ==
  LET held == Polled(id, nonce) IN
  /\ id \in DOMAIN made
  /\ id \in DOMAIN held => held[id].revealed
  /\ Answer(held, id)
  /\ UNCHANGED <<accessVars, pairingOff, askedAt, muted, poll, made, clock>>

\* A poll that waits for a change, without the lock.
PollWait(p, id, nonce) ==
  LET held == Polled(id, nonce) IN
  /\ poll[p] = NoRequest
  /\ id \in Pending(held)
  /\ held[id].revealed
  /\ requests' = held
  /\ poll' = [poll EXCEPT ![p] = id]
  /\ UNCHANGED <<accessVars, pairingOff, askedAt, muted, made, handed, clock>>

\* A change, the timer, the client or Close ends the wait; the request may have
\* been deleted or answered to another poll meanwhile.
PollWake(p) ==
  /\ poll[p] # NoRequest
  /\ poll' = [poll EXCEPT ![p] = NoRequest]
  /\ Answer(Expire(requests), poll[p])
  /\ UNCHANGED <<accessVars, pairingOff, askedAt, muted, made, clock>>

\* handlePairingDelete, by the app itself.
Withdraw(id) ==
  LET held == Expire(requests) IN
  /\ id \in DOMAIN held
  /\ requests' = Restrict(held, DOMAIN held \ {id})
  /\ UNCHANGED <<accessVars, pairingOff, askedAt, muted, poll, made, handed, clock>>

\* Mutation: a paired token takes its slug whether or not the name is taken.
FreeNameTaken(slug) == slug

\* A slug is a name, and so is a slug with a number: "lamp-2" is the second
\* name of "lamp" and the first of "lamp-2".
Numbered(slug, n) == IF n = 1 THEN slug ELSE Append(slug, n)

\* addPairedToken's name: the slug, with a number when the name is taken.
FreeName(slug) ==
  LET taken == {tokens[t].name : t \in DOMAIN tokens}
      n     == CHOOSE i \in 1 .. Cardinality(taken) + 1 :
                 /\ Numbered(slug, i) \notin taken
                 /\ \A j \in 1 .. i - 1 : Numbered(slug, j) \in taken
  IN Numbered(slug, n)

\* ApprovePairing, by the test or by an administrator's POST: the right code
\* makes the token, a wrong one rejects the request and mutes the app.
Approve(id, match) ==
  LET held == Expire(requests)
      app  == held[id].app
  IN
  /\ id \in Pending(held)
  /\ held[id].revealed
  /\ IF match
     THEN /\ tokens' = Extended(tokens, id, [name |-> FreeName(SlugOf[app]),
                                             scopes |-> PairingScopes(held[id].access)])
          /\ requests' = [held EXCEPT ![id].state = "approved",
                                      ![id].approvedAt = clock]
          /\ paired' = paired \cup {id}
          /\ UNCHANGED muted
     ELSE /\ requests' = [held EXCEPT ![id].state = "rejected"]
          /\ muted' = [muted EXCEPT ![app] = clock + Mute]
          /\ UNCHANGED <<tokens, paired>>
  /\ UNCHANGED <<accounts, sessions, login, pairingOff, askedAt, poll, made,
                 handed, clock>>

\* RejectPairing, which does not expire anything first.
Reject(id) ==
  /\ id \in Pending(requests)
  /\ requests' = [requests EXCEPT ![id].state = "rejected"]
  /\ muted' = [muted EXCEPT ![requests[id].app] = clock + Mute]
  /\ UNCHANGED <<accessVars, pairingOff, askedAt, poll, made, handed, clock>>

\* Pairings, which lists the requests after expiring them.
ListPairings ==
  /\ requests' = Expire(requests)
  /\ requests' # requests
  /\ UNCHANGED <<accessVars, pairingOff, askedAt, muted, poll, made, handed, clock>>

SetPairingEnabled(enabled) ==
  /\ pairingOff' = ~enabled
  /\ UNCHANGED <<accessVars, requests, askedAt, muted, poll, made, handed, clock>>

Tick ==
  /\ clock < MaxClock
  /\ clock' = clock + 1
  /\ UNCHANGED <<accessVars, requestVars>>

-----------------------------------------------------------------------------
PairInit ==
  /\ tokens = SeedTokens
  /\ accounts = Users
  /\ sessions = <<>>
  /\ login = [s \in Sids |-> NoUser]
  /\ pairingOff = FALSE
  /\ requests = <<>>
  /\ askedAt = [a \in Range(AddressOf) |-> <<>>]
  /\ muted = [a \in Apps |-> 0]
  /\ poll = [p \in Pollers |-> NoRequest]
  /\ clock = 1
  /\ made = <<>>
  /\ handed = [id \in PairIds |-> 0]
  /\ paired = {}

-----------------------------------------------------------------------------
(* Properties                                                              *)

Granted == {id \in DOMAIN requests : requests[id].approvedAt > 0}

\* A pairing keeps its bounds while requests come, expire, are withdrawn and
\* rejected: never more requests pending than allowed and never two of one app
\* (expireLocked, handlePairingRequest), never more in any window from one
\* address, and a request is approved only within its lifetime and after its
\* nonce was revealed (ApprovePairing).
PairingLimits ==
  /\ Cardinality(Pending(requests)) <= PendingTotal
  /\ \A r, q \in Pending(requests) : requests[r].app = requests[q].app => r = q
  /\ \A id \in DOMAIN made :
       Cardinality({q \in DOMAIN made :
                      /\ AddressOf[made[q].app] = AddressOf[made[id].app]
                      /\ made[q].at \in made[id].at - Window + 1 .. made[id].at}) <= PerWindow
  /\ \A id \in Granted :
       /\ requests[id].revealed
       /\ requests[id].approvedAt <= requests[id].created + Lifetime

\* No pairing may grant these (the comment on PairingScopes).
NeverGranted == {"*", "auth:admin", "radio:keys", "power", "backup"}

\* A paired token has a name of its own, whatever the seeded and the paired ones
\* before it are called (addPairedToken), and never allows what pairing may not
\* grant, until a test replaces the table; and implications chain, although
\* they are looked up one deep: a token allows what is implied by what its
\* scopes imply (implied, hasScope).
PairedTokens ==
  /\ \A id \in paired : \A t \in DOMAIN tokens \ {id} : tokens[t].name # tokens[id].name
  /\ \A id \in paired : \A scope \in NeverGranted : ~Authorized(id, scope)
  /\ \A id \in DOMAIN tokens :
       \A s \in tokens[id].scopes : \A t \in Implied(s) : \A u \in Implied(t) : Authorized(id, u)

PairingPhase == [id \in PairIds |->
  IF id \notin DOMAIN made THEN "new"
  ELSE IF id \notin DOMAIN requests THEN "gone"
  ELSE IF requests[id].handedOut THEN "given" ELSE requests[id].state]

Contract == INSTANCE PairingContract
              WITH Requests <- PairIds, phase <- PairingPhase, handed <- handed

\* The box's pairing keeps its contract (PairingContract): in particular a
\* token reaches one poll only, although several polls may wait for it.
PairingImplements == Contract!Spec
=============================================================================
