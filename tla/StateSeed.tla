----------------------------- MODULE StateSeed -----------------------------
(***************************************************************************)
(* The subscriber side of the fake box of pkg/litefake (subscriber.go):    *)
(* events of the interface processes become messages of the ring and, for  *)
(* datapoints of the kept set, values of /api/rpc/v1/state (rpc.go).  A    *)
(* client seeds itself from /state and then follows the event stream from  *)
(* the position /state reported.  Restarts of the box and of interface     *)
(* processes (knobs.go) go through their steps.                            *)
(*                                                                         *)
(* The ring's lock, the value store's lock and the fake's own lock are     *)
(* different ones, so the steps between them interleave.  An interface     *)
(* process sends one event at a time.  Which messages the ring still holds *)
(* is modelled by EventRing; here it holds all of the current boot, and a  *)
(* value is told apart by the number of the event that brought it.         *)
(***************************************************************************)
EXTENDS Integers, Sequences, FiniteSets

CONSTANTS
  Ifaces,       \* interface processes
  Datapoints,   \* datapoints, by interface, address and key together
  Kept,         \* those whose key is in valueStore.keep
  IfaceOf,      \* IfaceOf[d]: the interface of datapoint d
  Seeders,      \* clients
  Nobody        \* no value, no publish under way

ASSUME SeedAssumption ==
  /\ IfaceOf \in [Datapoints -> Ifaces]
  /\ Kept \subseteq Datapoints
  /\ Nobody \notin Datapoints \cup [dp : Datapoints, no : Nat] \cup [no : Nat, confirmed : BOOLEAN]

VARIABLES
  bootNo,       \* ring.bootID, counted
  ringLog,      \* messages of this boot, as the datapoint each is of
  published,    \* history: number of events ever published
  newest,       \* history: number of the newest event of each datapoint
  values,       \* valueStore.entries: value and confirmed
  publish,      \* what the callback of an interface process has still to store
  iface,        \* Fake.ifaces: down, registered
  restarting,   \* how far RestartBoot has got
  seed          \* what a client has read of /state

seedVars == <<bootNo, ringLog, published, newest, values, publish, iface,
              restarting, seed>>

\* The position of the ring: the seq of its newest message.
Position == [boot |-> bootNo, seq |-> Len(ringLog)]

\* A publish that has put its message on the ring and not yet stored its value.
InFlight == {i \in Ifaces : publish[i] # Nobody}

\* publishEvent, its first half: the message gets its seq under the ring's lock.
PublishEvent(d) ==
  LET i == IfaceOf[d] IN
  /\ publish[i] = Nobody
  /\ iface[i].registered
  /\ ringLog' = Append(ringLog, [dp |-> d, no |-> published + 1])
  /\ published' = published + 1
  /\ newest' = [newest EXCEPT ![d] = published + 1]
  /\ publish' = [publish EXCEPT ![i] =
                   IF d \in Kept THEN [dp |-> d, no |-> published + 1] ELSE Nobody]
  /\ UNCHANGED <<bootNo, values, iface, restarting, seed>>

\* Its second half: put.
StoreValue(i) ==
  /\ publish[i] # Nobody
  /\ values' = [values EXCEPT ![publish[i].dp] =
                  [no |-> publish[i].no, confirmed |-> TRUE]]
  /\ publish' = [publish EXCEPT ![i] = Nobody]
  /\ UNCHANGED <<bootNo, ringLog, published, newest, iface, restarting, seed>>

Announce(i) == ringLog' = Append(ringLog, [dp |-> Nobody, no |-> 0])

\* SetInterfaceDown, and the message it publishes if that is a change.
SetInterfaceDown(i, down) ==
  /\ iface[i].down # down
  /\ iface' = [iface EXCEPT ![i].down = down]
  /\ Announce(i)
  /\ UNCHANGED <<bootNo, published, newest, values, publish, restarting, seed>>

\* subscribe: the init call to the interface process succeeds.
Subscribe(i) == iface' = [iface EXCEPT ![i].registered = TRUE]

\* RestartInterface: subscribe again, then the message.
RestartInterface(i) ==
  /\ Subscribe(i)
  /\ Announce(i)
  /\ UNCHANGED <<bootNo, published, newest, values, publish, restarting, seed>>

\* RestartBoot, the ring first: a new boot id and no messages.
RestartRing ==
  /\ restarting = "no"
  /\ restarting' = "values"
  /\ bootNo' = bootNo + 1
  /\ ringLog' = <<>>
  /\ UNCHANGED <<published, newest, values, publish, iface, seed>>

\* Then markRestored.
RestartValues ==
  /\ restarting = "values"
  /\ restarting' = "meta"
  /\ values' = [d \in Kept |->
       IF values[d] = Nobody THEN Nobody ELSE [values[d] EXCEPT !.confirmed = FALSE]]
  /\ UNCHANGED <<bootNo, ringLog, published, newest, publish, iface, seed>>

\* Last, after the metadata store, every interface is subscribed to again.
RestartSubscribe ==
  /\ restarting = "meta"
  /\ restarting' = "no"
  /\ iface' = [i \in Ifaces |-> [iface[i] EXCEPT !.registered = TRUE]]
  /\ UNCHANGED <<bootNo, ringLog, published, newest, values, publish, seed>>

-----------------------------------------------------------------------------
(* A client's seed                                                         *)

NoSeed == [pc |-> "none", at |-> [boot |-> 0, seq |-> 0], entries |-> <<>>,
           overlap |-> FALSE]

\* handleState reads the ring's position, the event_id of its answer ...
ReadPosition(c) ==
  /\ seed[c].pc = "none"
  /\ seed' = [seed EXCEPT ![c] = [NoSeed EXCEPT
               !.pc = "position", !.at = Position, !.overlap = InFlight # {}]]
  /\ UNCHANGED <<bootNo, ringLog, published, newest, values, publish, iface, restarting>>

\* Mutation: the position is read when the values are.
ReadValuesThenPosition(c) ==
  /\ seed[c].pc = "position"
  /\ seed' = [seed EXCEPT ![c].pc = "seeded", ![c].entries = values,
                        ![c].at = Position]
  /\ UNCHANGED <<bootNo, ringLog, published, newest, values, publish, iface, restarting>>

\* ... and then the values.
ReadValues(c) ==
  /\ seed[c].pc = "position"
  /\ seed' = [seed EXCEPT ![c].pc = "seeded", ![c].entries = values]
  /\ UNCHANGED <<bootNo, ringLog, published, newest, values, publish, iface, restarting>>

\* What a seeded client holds of datapoint d once it has followed the stream
\* from its event_id to the newest message: what the stream brought, else what
\* the seed held.
Holds(c, d) ==
  LET after == {n \in seed[c].at.seq + 1 .. Len(ringLog) : ringLog[n].dp = d} IN
  IF after = {} THEN IF seed[c].entries[d] = Nobody THEN 0 ELSE seed[c].entries[d].no
  ELSE ringLog[CHOOSE n \in after : \A m \in after : m <= n].no

-----------------------------------------------------------------------------
SeedInit ==
  /\ bootNo = 1
  /\ ringLog = <<>>
  /\ published = 0
  /\ newest = [d \in Datapoints |-> 0]
  /\ values = [d \in Kept |-> Nobody]
  /\ publish = [i \in Ifaces |-> Nobody]
  /\ iface = [i \in Ifaces |-> [down |-> FALSE, registered |-> TRUE]]
  /\ restarting = "no"
  /\ seed = [c \in Seeders |-> NoSeed]

\* The steps that need no caller.
SeedStep ==
  \/ \E i \in Ifaces : StoreValue(i)
  \/ RestartValues
  \/ \E c \in Seeders : ReadValues(c)

-----------------------------------------------------------------------------
(* Properties                                                              *)

\* Clients whose position is one of the current boot; the stream tells the
\* others to resync.
SeededNow == {c \in Seeders : seed[c].pc = "seeded" /\ seed[c].at.boot = bootNo}

\* A client that read the position while no publish was half done holds the
\* newest value of every kept datapoint once it has followed the stream from
\* its event_id, whatever is published, restarted or taken down between its two
\* reads: handleState reads the position before the values.
SeedComplete ==
  \A c \in SeededNow : \A d \in Kept : ~seed[c].overlap => Holds(c, d) = newest[d]

\* "event_id is read before the values, so a client that resumes the stream
\* from it misses nothing that happened after its seed" (handleState), with no
\* condition on what the callbacks do meanwhile.
SeedMissesNothing ==
  \A c \in SeededNow : \A d \in Kept : Holds(c, d) >= newest[d]
=============================================================================
