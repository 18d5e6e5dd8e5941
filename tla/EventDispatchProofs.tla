------------------------ MODULE EventDispatchProofs ------------------------
(***************************************************************************)
(* Proofs about EventDispatch for every set of URLs, interface ids and     *)
(* producers, every queue size and every bound.                            *)
(***************************************************************************)
EXTENDS EventDispatch, TLAPS

\* A producer in the middle of an event has one.
FiringSomething ==
  \A p \in Producers : ppc[p] = "enqueue" \/ todo[p] # {} => pev[p] # 0

\* The inductive strengthening of TypeOK.
TypeInv == TypeOK /\ FiringSomething

-----------------------------------------------------------------------------
(* Type correctness                                                        *)

\* The initial state is well typed.
LEMMA InitType == Init => TypeInv
  BY DispatchAssumption
  DEF Init, TypeInv, TypeOK, FiringSomething, Key, Dispatchers, Clients, Events

\* Stopping the dispatcher of a key keeps table and done well typed.
LEMMA DropType ==
  ASSUME TypeOK, NEW k, DropDispatcher(k)
  PROVE  table' \in [Key -> 0 .. born] /\ done' \in [Dispatchers -> BOOLEAN]
<1>1. table' \in [Key -> 0 .. born]
  <2>1. table \in [Key -> 0 .. born] /\ 0 \in 0 .. born
    BY DEF TypeOK
  <2>2. table' = [table EXCEPT ![k] = 0]
    BY DEF DropDispatcher
  <2> QED BY <2>1, <2>2, Zenon
<1>2. done' \in [Dispatchers -> BOOLEAN]
  BY Zenon DEF DropDispatcher, TypeOK
<1> QED
  BY <1>1, <1>2

\* A client was registered under a key.
LEMMA KeyOfType ==
  ASSUME TypeOK, NEW c \in 1 .. Len(clients)
  PROVE  KeyOf(c) \in Key
<1> DEFINE Record == [url : Urls, iface : Interfaces]
<1>1. clients \in Seq(Record)
  BY DEF TypeOK
<1>2. clients[c] \in Record
  <2> HIDE DEF Record
  <2> QED BY <1>1
<1>3. clients[c].url \in Urls /\ clients[c].iface \in Interfaces
  BY <1>2
<1> QED
  BY <1>3, Zenon DEF KeyOf, Key

\* Registration.
LEMMA RegisterType ==
  ASSUME TypeInv, NEW url \in Urls, NEW iface \in Interfaces, Register(url, iface)
  PROVE  TypeInv'
<1> DEFINE k == IF initSemantics THEN url ELSE iface
           Record == [url : Urls, iface : Interfaces]
<1>1. /\ clients \in Seq(Record) /\ Len(clients) \in Nat
      /\ clients' = Append(clients, [url |-> url, iface |-> iface])
      /\ Len(clients) < MaxClients
  BY DEF Register, TypeInv, TypeOK
<1>2. clients' \in Seq(Record) /\ Len(clients') = Len(clients) + 1
  <2>1. [url |-> url, iface |-> iface] \in Record
    OBVIOUS
  <2> HIDE DEF Record
  <2> QED BY <1>1, <2>1
<1>3. Len(clients') <= MaxClients
  BY <1>1, <1>2, DispatchAssumption
<1>4. remotes' \in [Key -> 0 .. Len(clients')] /\ excused' \subseteq 0 .. Len(clients')
  <2>1. remotes' = [remotes EXCEPT ![k] = Len(clients) + 1]
        /\ excused' = excused \cup {remotes[k]} /\ k \in Key
    BY DEF Register, Key
  <2> HIDE DEF k
  <2>2. remotes \in [Key -> 0 .. Len(clients)] /\ excused \subseteq 0 .. Len(clients)
    BY DEF TypeInv, TypeOK
  <2>3. /\ remotes \in [Key -> 0 .. Len(clients')] /\ excused \subseteq 0 .. Len(clients')
        /\ Len(clients) + 1 \in 0 .. Len(clients')
    BY <1>1, <1>2, <2>2
  <2> QED BY <2>1, <2>3
<1>5. table' \in [Key -> 0 .. born] /\ done' \in [Dispatchers -> BOOLEAN]
  BY DropType DEF Register, TypeInv
<1>6. UNCHANGED <<initSemantics, batchEvents, born, dClient, queue, dpc, batch,
                  stopping, ppc, pev, todo, held, events, sent>>
  BY DEF Register, config, prods
<1>7. /\ dClient' \in [Dispatchers -> 0 .. Len(clients')]
      /\ todo' \in [Producers -> SUBSET (1 .. Len(clients'))]
  BY <1>1, <1>2, <1>6 DEF TypeInv, TypeOK
<1> QED
  BY <1>2, <1>3, <1>4, <1>5, <1>6, <1>7 DEF TypeInv, TypeOK, FiringSomething

\* Deregistration, the swap of the dispatcher table and the stops that follow.
LEMMA DeregisterType ==
  ASSUME TypeInv, NEW url \in Urls, Deregister(url)
  PROVE  TypeInv'
<1>1. PICK k \in Key :
        /\ remotes' = [remotes EXCEPT ![k] = 0]
        /\ DropDispatcher(k)
        /\ excused' = excused \cup {remotes[k]}
        /\ UNCHANGED <<config, clients, born, dClient, queue, dpc, batch, stopping,
                       prods, events, sent>>
  BY DEF Deregister
<1>2. table' \in [Key -> 0 .. born] /\ done' \in [Dispatchers -> BOOLEAN]
  BY <1>1, DropType DEF TypeInv
<1>3. remotes' \in [Key -> 0 .. Len(clients)] /\ excused' \subseteq 0 .. Len(clients)
  <2>1. /\ remotes \in [Key -> 0 .. Len(clients)] /\ excused \subseteq 0 .. Len(clients)
        /\ 0 \in 0 .. Len(clients)
    BY DEF TypeInv, TypeOK
  <2> QED BY <1>1, <2>1
<1> QED
  BY <1>1, <1>2, <1>3 DEF TypeInv, TypeOK, FiringSomething, config, prods

LEMMA SwapType ==
  ASSUME TypeOK, SwapTable
  PROVE  table' \in [Key -> 0 .. born] /\ stopping' \subseteq 1 .. born
<1>1. /\ table \in [Key -> 0 .. born] /\ stopping \subseteq 1 .. born /\ born \in Nat
  BY DispatchAssumption DEF TypeOK
<1>2. \A k \in Key : table[k] # 0 => table[k] \in 1 .. born
  BY <1>1
<1>3. stopping' \subseteq 1 .. born
  BY <1>1, <1>2, Zenon DEF SwapTable
<1>4. table' \in [Key -> 0 .. born]
  BY <1>1 DEF SwapTable
<1> QED
  BY <1>3, <1>4

LEMMA ForgetType ==
  ASSUME TypeInv, ForgetClients \/ StopDispatchers \/ \E d \in Dispatchers : CloseDone(d)
  PROVE  TypeInv'
<1>1. CASE ForgetClients
  <2>1. remotes' \in [Key -> 0 .. Len(clients)] /\ excused' \subseteq 0 .. Len(clients)
    <3>1. /\ remotes \in [Key -> 0 .. Len(clients)] /\ excused \subseteq 0 .. Len(clients)
          /\ 0 \in 0 .. Len(clients)
      BY DEF TypeInv, TypeOK
    <3>2. Registered \subseteq 0 .. Len(clients)
      BY <3>1 DEF Registered
    <3> QED BY <1>1, <3>1, <3>2 DEF ForgetClients
  <2>2. table' \in [Key -> 0 .. born] /\ stopping' \subseteq 1 .. born
    BY <1>1, SwapType DEF ForgetClients, TypeInv
  <2> QED BY <1>1, <2>1, <2>2
          DEF ForgetClients, TypeInv, TypeOK, FiringSomething, config, prods
<1>2. CASE StopDispatchers
  BY <1>2, SwapType
  DEF StopDispatchers, TypeInv, TypeOK, FiringSomething, config, regs, prods
<1>3. ASSUME NEW d \in Dispatchers, CloseDone(d) PROVE TypeInv'
  <2>1. done' \in [Dispatchers -> BOOLEAN]
    BY <1>3, Zenon DEF CloseDone, TypeInv, TypeOK
  <2> QED BY <1>3, <2>1
          DEF CloseDone, TypeInv, TypeOK, FiringSomething, config, regs, prods
<1> QED
  BY <1>1, <1>2, <1>3

\* The steps of a producer.
LEMMA FireType ==
  ASSUME TypeInv, NEW p \in Producers, NEW target, FireEvent(p, target)
  PROVE  TypeInv'
<1> DEFINE Record == [by : Producers, to : SUBSET Clients]
<1>1. /\ events \in Seq(Record) /\ Len(events) \in Nat /\ Len(events) < MaxEvents
      /\ pev \in [Producers -> 0 .. MaxEvents]
      /\ Len(clients) \in Nat /\ Len(clients) <= MaxClients
      /\ remotes \in [Key -> 0 .. Len(clients)]
      /\ todo \in [Producers -> SUBSET (1 .. Len(clients))]
  BY DEF FireEvent, TypeInv, TypeOK
<1>2. Snapshot(target) \subseteq 1 .. Len(clients)
  BY <1>1 DEF Snapshot, Registered
<1>3. Snapshot(target) \subseteq Clients
  BY <1>1, <1>2, DispatchAssumption DEF Clients
<1>4. [by |-> p, to |-> Snapshot(target)] \in Record
  BY <1>3
<1>5. events' \in Seq(Record) /\ Len(events') = Len(events) + 1
  <2> HIDE DEF Record
  <2> QED BY <1>1, <1>4 DEF FireEvent
<1>6. Len(events') <= MaxEvents /\ Len(events) + 1 \in 1 .. MaxEvents
  BY <1>1, <1>5, DispatchAssumption
<1>7. pev' \in [Producers -> 0 .. MaxEvents] /\ pev'[p] # 0
      /\ todo' \in [Producers -> SUBSET (1 .. Len(clients))]
  BY <1>1, <1>2, <1>6 DEF FireEvent
<1>8. \A q \in Producers : q # p => pev'[q] = pev[q] /\ todo'[q] = todo[q]
  BY <1>1 DEF FireEvent
<1>9. FiringSomething'
  BY <1>7, <1>8 DEF FireEvent, TypeInv, FiringSomething
<1> QED
  BY <1>5, <1>6, <1>7, <1>9 DEF FireEvent, TypeInv, TypeOK, config, regs, disps

\* What a producer hands over is an event.
LEMMA HandsOverAnEvent ==
  ASSUME TypeInv, NEW p \in Producers, ppc[p] = "enqueue" \/ todo[p] # {}
  PROVE  pev[p] \in Events
<1>1. pev[p] \in 0 .. MaxEvents /\ pev[p] # 0
  BY DEF TypeInv, TypeOK, FiringSomething
<1> QED
  BY <1>1, DispatchAssumption DEF Events

LEMMA DispatcherForType ==
  ASSUME TypeInv, NEW p \in Producers, NEW c \in todo[p], DispatcherFor(p, c)
  PROVE  TypeInv'
<1> DEFINE k == DispatcherKey(c)
<1>1. /\ todo' = [todo EXCEPT ![p] = @ \ {c}] /\ ppc' = [ppc EXCEPT ![p] = "enqueue"]
      /\ UNCHANGED <<config, regs, pev, events, sent, excused>>
  BY DEF DispatcherFor
<1>2. /\ todo' \in [Producers -> SUBSET (1 .. Len(clients))]
      /\ ppc' \in [Producers -> {"loop", "enqueue", "failed"}]
      /\ \A q \in Producers : q # p => ppc'[q] = ppc[q] /\ todo'[q] = todo[q]
      /\ c \in 1 .. Len(clients) /\ todo[p] # {}
  BY <1>1 DEF TypeInv, TypeOK
<1>3. FiringSomething'
  BY <1>1, <1>2 DEF TypeInv, FiringSomething
<1>4. CASE table[k] # 0 /\ held' = [held EXCEPT ![p] = table[k]] /\ UNCHANGED disps
  <2>1. held' \in [Producers -> Nat]
    <3>1. CASE k \in Key
      <4>1. held \in [Producers -> Nat] /\ table[k] \in Nat
        BY <3>1 DEF TypeInv, TypeOK
      <4> QED BY <1>4, <4>1
    <3>2. k \in Key
      BY <1>2, KeyOfType DEF DispatcherKey, TypeInv
    <3> QED BY <3>1, <3>2
  <2> QED BY <1>1, <1>2, <1>3, <1>4, <2>1 DEF TypeInv, TypeOK, config, regs, disps
<1>5. CASE /\ table[k] = 0
           /\ born < MaxDispatchers
           /\ born' = born + 1
           /\ table' = [table EXCEPT ![k] = born + 1]
           /\ dClient' = [dClient EXCEPT ![born + 1] = c]
           /\ dpc' = [dpc EXCEPT ![born + 1] = "select"]
           /\ held' = [held EXCEPT ![p] = born + 1]
           /\ UNCHANGED <<queue, done, batch, stopping>>
  <2>1. born \in Nat /\ born + 1 \in 0 .. MaxDispatchers
    BY <1>5, DispatchAssumption DEF TypeInv, TypeOK
  <2>2. table' \in [Key -> 0 .. born']
    <3>1. table \in [Key -> 0 .. born]
      BY DEF TypeInv, TypeOK
    <3>2. table \in [Key -> 0 .. born'] /\ born + 1 \in 0 .. born'
      BY <1>5, <2>1, <3>1
    <3> QED BY <1>5, <3>2
  <2>3. /\ held' \in [Producers -> Nat] /\ stopping' \subseteq 1 .. born'
        /\ dClient' \in [Dispatchers -> 0 .. Len(clients)]
        /\ dpc' \in [Dispatchers -> {"unborn", "select", "collect", "deliver",
                                     "gone", "ended"}]
    <3>1. held \in [Producers -> Nat] /\ stopping \subseteq 1 .. born
          /\ dClient \in [Dispatchers -> 0 .. Len(clients)]
          /\ dpc \in [Dispatchers -> {"unborn", "select", "collect", "deliver",
                                      "gone", "ended"}]
      BY DEF TypeInv, TypeOK
    <3>2. c \in 0 .. Len(clients) /\ born + 1 \in Nat
      BY <1>2, <2>1
    <3>3. stopping' \subseteq 1 .. born'
      BY <1>5, <2>1, <3>1
    <3> QED BY <1>5, <3>1, <3>2, <3>3
  <2> QED BY <1>1, <1>2, <1>3, <1>5, <2>1, <2>2, <2>3 DEF TypeInv, TypeOK, config, regs
<1> QED
  BY <1>4, <1>5 DEF DispatcherFor

\* The other steps of a producer.
LEMMA EnqueueType ==
  ASSUME TypeInv, NEW p \in Producers, Enqueue(p)
  PROVE  TypeInv'
<1> DEFINE d == held[p]
<1>1. /\ ppc[p] = "enqueue" /\ ppc' = [ppc EXCEPT ![p] = "loop"]
      /\ held' = [held EXCEPT ![p] = 0]
      /\ UNCHANGED <<config, regs, table, born, dClient, done, dpc, batch,
                     stopping, pev, todo, events, sent, excused>>
  BY DEF Enqueue
<1>2. /\ ppc' \in [Producers -> {"loop", "enqueue", "failed"}]
      /\ held' \in [Producers -> Nat]
      /\ \A q \in Producers : ppc'[q] = "enqueue" => ppc[q] = "enqueue"
  BY <1>1 DEF TypeInv, TypeOK
<1>3. FiringSomething'
  BY <1>1, <1>2 DEF TypeInv, FiringSomething
<1>4. /\ queue' \in [Dispatchers -> Seq(Events)]
      /\ \A e \in Dispatchers : Len(queue'[e]) <= BufferSize
  <2>1. /\ queue \in [Dispatchers -> Seq(Events)]
        /\ \A e \in Dispatchers : Len(queue[e]) <= BufferSize
    BY DEF TypeInv, TypeOK
  <2>2. pev[p] \in Events
    BY <1>1, HandsOverAnEvent
  <2>3. CASE UNCHANGED queue
    BY <2>1, <2>3
  <2>4. CASE /\ Len(queue[d]) < BufferSize
             /\ queue' = [queue EXCEPT ![d] = Append(@, pev[p])]
    <3>1. CASE d \in Dispatchers
      <4>1. /\ Append(queue[d], pev[p]) \in Seq(Events)
            /\ Len(Append(queue[d], pev[p])) = Len(queue[d]) + 1
            /\ Len(queue[d]) \in Nat
        BY <2>1, <2>2, <3>1
      <4>2. Len(queue[d]) + 1 <= BufferSize
        BY <2>4, <4>1, DispatchAssumption
      <4> QED BY <2>1, <2>4, <3>1, <4>1, <4>2
    <3>2. CASE d \notin Dispatchers
      BY <2>1, <2>4, <3>2
    <3> QED BY <3>1, <3>2
  <2> QED BY <2>3, <2>4 DEF Enqueue
<1> QED
  BY <1>1, <1>2, <1>3, <1>4 DEF TypeInv, TypeOK, config, regs

LEMMA CallType ==
  ASSUME TypeInv, NEW p \in Producers, NEW c \in todo[p], CallEvent(p, c)
  PROVE  TypeInv'
<1> DEFINE taken == [sent EXCEPT ![c] = Append(@, pev[p])]
<1>1. /\ todo' = [todo EXCEPT ![p] = @ \ {c}]
      /\ UNCHANGED <<config, regs, disps, pev, events>>
      /\ sent' \in {sent, taken}
      /\ ppc' \in {ppc, [ppc EXCEPT ![p] = "failed"]}
      /\ held' \in {held, [held EXCEPT ![p] = c]}
      /\ excused' \in {excused, excused \cup {c}}
  BY DEF CallEvent
<1>2. c \in 1 .. Len(clients) /\ Len(clients) \in Nat /\ todo[p] # {}
  BY DEF TypeInv, TypeOK
<1>3. /\ todo' \in [Producers -> SUBSET (1 .. Len(clients))]
      /\ \A q \in Producers : todo'[q] \subseteq todo[q]
  BY <1>1 DEF TypeInv, TypeOK
<1>4. /\ ppc' \in [Producers -> {"loop", "enqueue", "failed"}]
      /\ \A q \in Producers : ppc'[q] = "enqueue" => ppc[q] = "enqueue"
  BY <1>1 DEF TypeInv, TypeOK
<1>5. held' \in [Producers -> Nat] /\ excused' \subseteq 0 .. Len(clients)
  <2>1. held \in [Producers -> Nat] /\ excused \subseteq 0 .. Len(clients)
    BY DEF TypeInv, TypeOK
  <2>2. c \in Nat /\ c \in 0 .. Len(clients)
    BY <1>2
  <2> QED BY <1>1, <2>1, <2>2
<1>6. sent' \in [Clients -> Seq(Events)]
  <2>1. sent \in [Clients -> Seq(Events)]
    BY DEF TypeInv, TypeOK
  <2>2. pev[p] \in Events
    BY <1>2, HandsOverAnEvent
  <2>3. taken \in [Clients -> Seq(Events)]
    <3>1. c \in Clients => Append(sent[c], pev[p]) \in Seq(Events)
      BY <2>1, <2>2
    <3> QED BY <2>1, <3>1
  <2> QED BY <1>1, <2>1, <2>3
<1>7. FiringSomething'
  BY <1>1, <1>3, <1>4 DEF TypeInv, FiringSomething
<1> QED
  BY <1>1, <1>3, <1>4, <1>5, <1>6, <1>7 DEF TypeInv, TypeOK, config, regs, disps

\* Removing a client leaves the registrations well typed.
LEMMA WithoutType ==
  ASSUME TypeOK, NEW c
  PROVE  WithoutClient(c) \in [Key -> 0 .. Len(clients)]
<1>1. remotes \in [Key -> 0 .. Len(clients)] /\ 0 \in 0 .. Len(clients)
  BY DEF TypeOK
<1> QED
  BY <1>1, Zenon DEF WithoutClient

LEMMA RemoveType ==
  ASSUME TypeInv, NEW p \in Producers, RemoveFailed(p)
  PROVE  TypeInv'
<1>1. /\ ppc' \in [Producers -> {"loop", "enqueue", "failed"}]
      /\ held' \in [Producers -> Nat]
      /\ \A q \in Producers : ppc'[q] = "enqueue" => ppc[q] = "enqueue"
  BY DEF RemoveFailed, TypeInv, TypeOK
<1>2. remotes' \in [Key -> 0 .. Len(clients)]
  BY WithoutType DEF RemoveFailed, TypeInv
<1>3. FiringSomething'
  BY <1>1 DEF RemoveFailed, TypeInv, FiringSomething
<1> QED
  BY <1>1, <1>2, <1>3 DEF RemoveFailed, TypeInv, TypeOK, config, disps

\* The steps of a delivery goroutine.
LEMMA GoroutineType ==
  ASSUME TypeInv, NEW d \in Dispatchers, DispatcherStep(d)
  PROVE  TypeInv'
<1> DEFINE Pcs == {"unborn", "select", "collect", "deliver", "gone", "ended"}
<1>1. /\ queue \in [Dispatchers -> Seq(Events)] /\ batch \in [Dispatchers -> Seq(Events)]
      /\ \A e \in Dispatchers : Len(queue[e]) <= BufferSize
      /\ dpc \in [Dispatchers -> Pcs] /\ queue[d] \in Seq(Events)
      /\ batch[d] \in Seq(Events) /\ sent \in [Clients -> Seq(Events)]
  BY DEF TypeInv, TypeOK
<1>2. queue[d] # <<>> =>
        /\ Head(queue[d]) \in Events /\ Tail(queue[d]) \in Seq(Events)
        /\ Len(Tail(queue[d])) <= BufferSize
        /\ <<Head(queue[d])>> \in Seq(Events)
        /\ Append(batch[d], Head(queue[d])) \in Seq(Events)
  BY <1>1, DispatchAssumption
<1>3. ASSUME Take(d) \/ Collect(d) PROVE TypeInv'
  <2>1. /\ queue[d] # <<>> /\ queue' = [queue EXCEPT ![d] = Tail(@)]
        /\ batch' \in {[batch EXCEPT ![d] = <<Head(queue[d])>>],
                       [batch EXCEPT ![d] = Append(@, Head(queue[d]))]}
        /\ dpc' \in {[dpc EXCEPT ![d] = "collect"], [dpc EXCEPT ![d] = "deliver"]}
        /\ UNCHANGED <<config, regs, table, born, dClient, done, stopping, prods,
                       events, sent, excused>>
    BY <1>3 DEF Take, Collect
  <2>2. /\ queue' \in [Dispatchers -> Seq(Events)]
        /\ \A e \in Dispatchers : Len(queue'[e]) <= BufferSize
    BY <1>1, <1>2, <2>1
  <2>3. batch' \in [Dispatchers -> Seq(Events)] /\ dpc' \in [Dispatchers -> Pcs]
    BY <1>1, <1>2, <2>1
  <2> QED BY <2>1, <2>2, <2>3
          DEF TypeInv, TypeOK, FiringSomething, config, regs, prods
<1>4. ASSUME Return(d) \/ EndCollect(d) PROVE TypeInv'
  <2>1. dpc' \in [Dispatchers -> Pcs]
    BY <1>1, <1>4 DEF Return, EndCollect
  <2> QED BY <1>4, <2>1 DEF Return, EndCollect, TypeInv, TypeOK, FiringSomething,
                            config, regs, prods
<1>5. ASSUME Deliver(d) PROVE TypeInv'
  <2> DEFINE c == dClient[d]
             taken == [sent EXCEPT ![c] = @ \o batch[d]]
  <2>1. /\ batch' = [batch EXCEPT ![d] = <<>>] /\ sent' \in {sent, taken}
        /\ dpc' \in {[dpc EXCEPT ![d] = "select"], [dpc EXCEPT ![d] = "gone"]}
        /\ excused' \in {excused, excused \cup {c}}
        /\ UNCHANGED <<config, regs, table, born, dClient, queue, done, stopping,
                       prods, events>>
    BY <1>5 DEF Deliver
  <2>2. batch' \in [Dispatchers -> Seq(Events)] /\ dpc' \in [Dispatchers -> Pcs]
    <3>1. <<>> \in Seq(Events)
      OBVIOUS
    <3>2. batch' \in [Dispatchers -> Seq(Events)]
      BY <1>1, <2>1, <3>1, Zenon
    <3>3. dpc' \in [Dispatchers -> Pcs]
      BY <1>1, <2>1
    <3> QED BY <3>2, <3>3
  <2>3. sent' \in [Clients -> Seq(Events)]
    <3>1. c \in Clients => sent[c] \o batch[d] \in Seq(Events)
      BY <1>1
    <3>2. taken \in [Clients -> Seq(Events)]
      BY <1>1, <3>1
    <3> QED BY <1>1, <2>1, <3>2
  <2>4. excused' \subseteq 0 .. Len(clients)
    <3>1. excused \subseteq 0 .. Len(clients) /\ c \in 0 .. Len(clients)
      BY DEF TypeInv, TypeOK
    <3> QED BY <2>1, <3>1
  <2> QED BY <2>1, <2>2, <2>3, <2>4
          DEF TypeInv, TypeOK, FiringSomething, config, regs, prods
<1>6. ASSUME OnGone(d) PROVE TypeInv'
  <2>1. dpc' \in [Dispatchers -> Pcs]
    BY <1>1, <1>6 DEF OnGone
  <2>2. remotes' \in [Key -> 0 .. Len(clients)]
    BY <1>6, WithoutType DEF OnGone, TypeInv
  <2>3. table' \in [Key -> 0 .. born] /\ done' \in [Dispatchers -> BOOLEAN]
    <3>1. CASE UNCHANGED <<table, done>>
      BY <3>1 DEF TypeInv, TypeOK
    <3>2. CASE DropDispatcher(KeyOf(dClient[d]))
      BY <3>2, DropType DEF TypeInv
    <3> QED BY <1>6, <3>1, <3>2 DEF OnGone
  <2> QED BY <1>6, <2>1, <2>2, <2>3
          DEF OnGone, TypeInv, TypeOK, FiringSomething, config, prods
<1> QED
  BY <1>3, <1>4, <1>5, <1>6 DEF DispatcherStep

\* Every step keeps the state well typed.
LEMMA NextType == TypeInv /\ [Next]_vars => TypeInv'
<1> SUFFICES ASSUME TypeInv, [Next]_vars PROVE TypeInv'
  OBVIOUS
<1>1. CASE UNCHANGED vars
  BY <1>1 DEF vars, TypeInv, TypeOK, FiringSomething, config, regs, disps, prods
<1>2. ASSUME NEW p \in Producers, ProducerStep(p) PROVE TypeInv'
  BY <1>2, DispatcherForType, CallType, EnqueueType, RemoveType DEF ProducerStep
<1> QED
  BY <1>1, <1>2, RegisterType, DeregisterType, ForgetType, GoroutineType, FireType
  DEF Next

\* The state is well typed; in particular no queue of events outgrows
\* dispatchBufferSize and no table names a client or dispatcher never made.
THEOREM TypeCorrect == Spec => []TypeOK
<1>1. TypeInv => TypeOK
  BY DEF TypeInv
<1> QED
  BY <1>1, InitType, NextType, PTL DEF Spec

-----------------------------------------------------------------------------
(* A registration leaves for cause                                         *)

\* Who is about to be removed as unreachable is on record as unreachable.
FailuresExcused ==
  /\ \A p \in Producers : ppc[p] = "failed" => held[p] \in excused
  /\ \A d \in Dispatchers : dpc[d] = "gone" => dClient[d] \in excused

\* The inductive invariant behind LeavesForCause.
CauseInv == TypeInv /\ FailuresExcused /\ LeavesForCause

\* The key of a client does not change when another one registers.
LEMMA KeyOfSame ==
  ASSUME TypeOK, NEW c \in 1 .. Len(clients), NEW x, initSemantics' = initSemantics,
         clients' = Append(clients, x)
  PROVE  KeyOf(c)' = KeyOf(c)
<1>1. clients'[c] = clients[c]
  BY DEF TypeOK
<1> QED
  BY <1>1, Zenon DEF KeyOf

\* The key of a new client is the one it registers under.
LEMMA KeyOfNew ==
  ASSUME TypeOK, NEW url, NEW iface, initSemantics' = initSemantics,
         clients' = Append(clients, [url |-> url, iface |-> iface]),
         NEW n, n = Len(clients) + 1
  PROVE  KeyOf(n)' = IF initSemantics THEN url ELSE iface
<1>1. clients'[n] = [url |-> url, iface |-> iface]
  BY DEF TypeOK
<1>2. clients'[n].url = url /\ clients'[n].iface = iface
  BY <1>1
<1> QED
  BY <1>2, Zenon DEF KeyOf

\* Removing a client on record as unreachable is a cause.
LEMMA WithoutCause ==
  ASSUME CauseInv, NEW c \in excused, remotes' = WithoutClient(c),
         UNCHANGED <<initSemantics, clients, excused>>
  PROVE  LeavesForCause'
<1> SUFFICES ASSUME NEW b \in 1 .. Len(clients)
             PROVE  remotes'[KeyOf(b)] = b \/ b \in excused
  BY Zenon DEF LeavesForCause, KeyOf
<1>1. remotes[KeyOf(b)] = b \/ b \in excused
  BY DEF CauseInv, LeavesForCause
<1>2. remotes \in [Key -> 0 .. Len(clients)]
  BY DEF CauseInv, TypeInv, TypeOK
<1>3. CASE b # c /\ remotes[KeyOf(b)] = b
  <2>1. remotes[KeyOf(c)] = c => KeyOf(b) # KeyOf(c)
    BY <1>3
  <2>2. remotes'[KeyOf(b)] = remotes[KeyOf(b)]
    <3>1. KeyOf(b) \in Key
      BY KeyOfType DEF CauseInv, TypeInv
    <3> QED BY <1>2, <2>1, <3>1, Zenon DEF WithoutClient
  <2> QED BY <1>3, <2>2
<1> QED
  BY <1>1, <1>3

\* Steps that touch neither registrations nor the record of causes.
LEMMA CauseSame ==
  ASSUME CauseInv, UNCHANGED <<initSemantics, clients, remotes>>, excused \subseteq excused'
  PROVE  LeavesForCause'
  BY Zenon DEF CauseInv, LeavesForCause, KeyOf

\* Every step keeps the causes on record.
LEMMA NextCause == CauseInv /\ [Next]_vars => LeavesForCause'
<1> SUFFICES ASSUME CauseInv, [Next]_vars PROVE LeavesForCause'
  OBVIOUS
<1>0. TypeOK /\ LeavesForCause /\ remotes \in [Key -> 0 .. Len(clients)]
      /\ Len(clients) \in Nat
  BY DEF CauseInv, TypeInv, TypeOK
<1>1. CASE UNCHANGED vars
  BY <1>1, CauseSame DEF vars, config, regs
<1>2. ASSUME NEW url \in Urls, NEW iface \in Interfaces, Register(url, iface)
      PROVE  LeavesForCause'
  <2> DEFINE k == IF initSemantics THEN url ELSE iface
             n == Len(clients) + 1
  <2>1. /\ initSemantics' = initSemantics
        /\ clients' = Append(clients, [url |-> url, iface |-> iface])
        /\ remotes' = [remotes EXCEPT ![k] = n]
        /\ excused' = excused \cup {remotes[k]}
        /\ k \in Key
    BY <1>2 DEF Register, config, Key
  <2> HIDE DEF k
  <2>2. Len(clients') = n
    BY <1>0, <2>1 DEF TypeOK
  <2>3. ASSUME NEW b \in 1 .. n PROVE remotes'[KeyOf(b)'] = b \/ b \in excused'
    <3>1. CASE b = n
      <4>1. KeyOf(b)' = k
        BY <1>0, <2>1, <3>1, KeyOfNew DEF k
      <4>2. remotes'[k] = n
        BY <1>0, <2>1
      <4> QED BY <3>1, <4>1, <4>2
    <3>2. CASE b \in 1 .. Len(clients)
      <4>1. KeyOf(b)' = KeyOf(b) /\ KeyOf(b) \in Key
        BY <1>0, <2>1, <3>2, KeyOfSame, KeyOfType
      <4>2. remotes[KeyOf(b)] = b \/ b \in excused
        BY <1>0, <3>2 DEF LeavesForCause
      <4>3. CASE KeyOf(b) = k
        BY <2>1, <4>2, <4>3
      <4>4. CASE KeyOf(b) # k
        BY <1>0, <2>1, <4>1, <4>2, <4>4
      <4> QED BY <4>3, <4>4
    <3> QED BY <1>0, <3>1, <3>2
  <2> QED BY <2>2, <2>3 DEF LeavesForCause
<1>3. ASSUME NEW url \in Urls, Deregister(url) PROVE LeavesForCause'
  <2>1. PICK k \in Key : /\ remotes' = [remotes EXCEPT ![k] = 0]
                         /\ excused' = excused \cup {remotes[k]}
                         /\ UNCHANGED <<config, clients>>
    BY <1>3 DEF Deregister
  <2>2. ASSUME NEW b \in 1 .. Len(clients)
        PROVE  remotes'[KeyOf(b)] = b \/ b \in excused'
    <3>1. remotes[KeyOf(b)] = b \/ b \in excused
      BY <1>0 DEF LeavesForCause
    <3>2. KeyOf(b) # k => remotes'[KeyOf(b)] = remotes[KeyOf(b)]
      BY <1>0, <2>1, KeyOfType
    <3> QED BY <2>1, <3>1, <3>2
  <2> QED BY <2>1, <2>2, Zenon DEF LeavesForCause, KeyOf, config
<1>4. CASE ForgetClients
  <2>1. excused' = excused \cup Registered /\ UNCHANGED <<config, clients>>
    BY <1>4 DEF ForgetClients
  <2>2. ASSUME NEW b \in 1 .. Len(clients) PROVE b \in excused'
    <3>1. remotes[KeyOf(b)] = b \/ b \in excused
      BY <1>0 DEF LeavesForCause
    <3>2. remotes[KeyOf(b)] = b => b \in Registered
      <4>1. KeyOf(b) \in Key /\ b # 0
        BY <1>0, KeyOfType
      <4> QED BY <4>1, Zenon DEF Registered
    <3> QED BY <2>1, <3>1, <3>2
  <2> QED BY <2>1, <2>2 DEF LeavesForCause
<1>5. StopDispatchers \/ (\E d \in Dispatchers : CloseDone(d))
        \/ (\E p \in Producers, target \in Interfaces \cup {AnyTarget} : FireEvent(p, target))
        => LeavesForCause'
  BY CauseSame DEF StopDispatchers, CloseDone, FireEvent, config, regs
<1>6. ASSUME NEW p \in Producers, ProducerStep(p) PROVE LeavesForCause'
  <2>1. CASE RemoveFailed(p)
    BY <2>1, WithoutCause DEF RemoveFailed, CauseInv, FailuresExcused, config
  <2>2. ASSUME NEW c \in todo[p], DispatcherFor(p, c) \/ CallEvent(p, c)
        PROVE  LeavesForCause'
    <3>1. UNCHANGED <<config, regs>> /\ excused \subseteq excused'
      BY <2>2 DEF DispatcherFor, CallEvent
    <3> QED BY <3>1, CauseSame DEF config, regs
  <2>3. CASE Enqueue(p)
    BY <2>3, CauseSame DEF Enqueue, config, regs
  <2> QED BY <1>6, <2>1, <2>2, <2>3 DEF ProducerStep
<1>7. ASSUME NEW d \in Dispatchers, DispatcherStep(d) PROVE LeavesForCause'
  <2>1. CASE OnGone(d)
    <3>1. /\ dClient[d] \in excused /\ remotes' = WithoutClient(dClient[d])
          /\ UNCHANGED <<config, clients, excused>>
      BY <2>1 DEF OnGone, CauseInv, FailuresExcused
    <3> QED BY <3>1, WithoutCause DEF config
  <2>2. CASE Take(d) \/ Return(d) \/ Collect(d) \/ EndCollect(d)
    BY <2>2, CauseSame DEF Take, Return, Collect, EndCollect, config, regs
  <2>3. CASE Deliver(d)
    <3>1. UNCHANGED <<config, regs>> /\ excused \subseteq excused'
      BY <2>3 DEF Deliver
    <3> QED BY <3>1, CauseSame DEF config, regs
  <2> QED BY <1>7, <2>1, <2>2, <2>3 DEF DispatcherStep
<1> QED
  BY <1>1, <1>2, <1>3, <1>4, <1>5, <1>6, <1>7 DEF Next

\* Every step keeps the failures on record.
LEMMA NextExcused == CauseInv /\ [Next]_vars => FailuresExcused'
<1> SUFFICES ASSUME CauseInv, [Next]_vars PROVE FailuresExcused'
  OBVIOUS
<1>0. /\ FailuresExcused
      /\ ppc \in [Producers -> {"loop", "enqueue", "failed"}]
      /\ held \in [Producers -> Nat]
      /\ dpc \in [Dispatchers -> {"unborn", "select", "collect", "deliver",
                                  "gone", "ended"}]
      /\ dClient \in [Dispatchers -> 0 .. Len(clients)]
      /\ born \in Nat
  BY DispatchAssumption DEF CauseInv, TypeInv, TypeOK
<1>1. CASE UNCHANGED <<ppc, held, dpc, dClient>> /\ excused \subseteq excused'
  BY <1>0, <1>1 DEF FailuresExcused
<1>2. UNCHANGED vars \/ ForgetClients \/ StopDispatchers
        \/ (\E d \in Dispatchers : CloseDone(d))
        \/ (\E url \in Urls, iface \in Interfaces : Register(url, iface))
        \/ (\E url \in Urls : Deregister(url))
        \/ (\E p \in Producers, target \in Interfaces \cup {AnyTarget} : FireEvent(p, target))
        => UNCHANGED <<ppc, held, dpc, dClient>> /\ excused \subseteq excused'
  BY DEF vars, ForgetClients, StopDispatchers, CloseDone, Register, Deregister,
         FireEvent, prods, disps
<1>3. ASSUME NEW p \in Producers, ProducerStep(p) PROVE FailuresExcused'
  <2>1. ASSUME NEW c \in todo[p], DispatcherFor(p, c) PROVE FailuresExcused'
    <3>1. /\ excused' = excused /\ ppc' = [ppc EXCEPT ![p] = "enqueue"]
          /\ \A q \in Producers : q # p => held'[q] = held[q]
          /\ \/ UNCHANGED <<dpc, dClient>>
             \/ /\ dClient' = [dClient EXCEPT ![born + 1] = c]
                /\ dpc' = [dpc EXCEPT ![born + 1] = "select"]
      BY <1>0, <2>1 DEF DispatcherFor, disps
    <3>2. \A q \in Producers : ppc'[q] = "failed" => held'[q] \in excused'
      BY <1>0, <3>1 DEF FailuresExcused
    <3>3. \A d \in Dispatchers : dpc'[d] = "gone" => dpc[d] = "gone" /\ dClient'[d] = dClient[d]
      BY <1>0, <3>1
    <3> QED BY <1>0, <3>1, <3>2, <3>3 DEF FailuresExcused
  <2>2. ASSUME NEW c \in todo[p], CallEvent(p, c) PROVE FailuresExcused'
    <3>1. /\ UNCHANGED disps
          /\ \/ UNCHANGED <<ppc, held, excused>>
             \/ /\ ppc' = [ppc EXCEPT ![p] = "failed"] /\ held' = [held EXCEPT ![p] = c]
                /\ excused' = excused \cup {c}
      BY <2>2 DEF CallEvent
    <3>2. \A q \in Producers : ppc'[q] = "failed" => held'[q] \in excused'
      BY <1>0, <3>1 DEF FailuresExcused
    <3> QED BY <1>0, <3>1, <3>2 DEF FailuresExcused, disps
  <2>3. CASE Enqueue(p) \/ RemoveFailed(p)
    <3>1. /\ UNCHANGED <<dpc, dClient, excused>>
          /\ ppc' = [ppc EXCEPT ![p] = "loop"] /\ held' = [held EXCEPT ![p] = 0]
      BY <2>3 DEF Enqueue, RemoveFailed, disps
    <3> QED BY <1>0, <3>1 DEF FailuresExcused
  <2> QED BY <1>3, <2>1, <2>2, <2>3 DEF ProducerStep
<1>4. ASSUME NEW d \in Dispatchers, DispatcherStep(d) PROVE FailuresExcused'
  <2>1. CASE Deliver(d)
    <3>1. /\ UNCHANGED <<ppc, held, dClient>> /\ excused \subseteq excused'
          /\ \/ dpc' = [dpc EXCEPT ![d] = "select"]
             \/ /\ dpc' = [dpc EXCEPT ![d] = "gone"]
                /\ excused' = excused \cup {dClient[d]}
      BY <2>1 DEF Deliver, prods
    <3> QED BY <1>0, <3>1 DEF FailuresExcused
  <2>2. CASE Take(d) \/ Return(d) \/ Collect(d) \/ EndCollect(d) \/ OnGone(d)
    <3>1. /\ UNCHANGED <<ppc, held, dClient, excused>>
          /\ \E x \in {"collect", "deliver", "ended"} : dpc' = [dpc EXCEPT ![d] = x]
      BY <2>2 DEF Take, Return, Collect, EndCollect, OnGone, prods
    <3> QED BY <1>0, <3>1 DEF FailuresExcused
  <2> QED BY <1>4, <2>1, <2>2 DEF DispatcherStep
<1> QED
  BY <1>1, <1>2, <1>3, <1>4 DEF Next

\* For every number of URLs, interface ids, producers and re-registrations, a
\* registration disappears only because its own client was replaced, removed or
\* unreachable.
THEOREM RegistrationsLeaveForCause == Spec => []LeavesForCause
<1>1. Init => CauseInv
  BY InitType DEF Init, CauseInv, FailuresExcused, LeavesForCause
<1>2. CauseInv /\ [Next]_vars => CauseInv'
  BY NextType, NextCause, NextExcused DEF CauseInv
<1>3. CauseInv => LeavesForCause
  BY DEF CauseInv
<1> QED
  BY <1>1, <1>2, <1>3, PTL DEF Spec

-----------------------------------------------------------------------------
(* No delivery goroutine is out of reach                                   *)

\* A delivery goroutine that was started has a client.
StartedHaveClient == \A d \in Dispatchers : dpc[d] # "unborn" => dClient[d] # 0

\* The inductive invariant behind NoLeakedDispatcher.
LeakInv == TypeInv /\ StartedHaveClient /\ NoLeakedDispatcher

Running(d) == dpc[d] \notin {"unborn", "ended"}

\* What the invariant says of one running goroutine that was not told to stop.
LEMMA InReach ==
  ASSUME LeakInv, NEW d \in Dispatchers, Running(d), ~done[d]
  PROVE  /\ dClient[d] \in 1 .. Len(clients) /\ KeyOf(dClient[d]) \in Key
         /\ d \in stopping \/ table[KeyOf(dClient[d])] = d
<1>1. dClient[d] # 0 /\ dClient[d] \in 0 .. Len(clients) /\ Len(clients) \in Nat
  BY DEF LeakInv, StartedHaveClient, Running, TypeInv, TypeOK
<1>2. dClient[d] \in 1 .. Len(clients)
  BY <1>1
<1>3. KeyOf(dClient[d]) \in Key
  BY <1>2, KeyOfType DEF LeakInv, TypeInv
<1>4. d \in stopping \/ table[KeyOf(dClient[d])] = d
  BY DEF LeakInv, NoLeakedDispatcher, Running
<1> QED
  BY <1>2, <1>3, <1>4

\* A goroutine stays in reach when the entry of a key is dropped: it is told to
\* stop, or its entry is another one.
LEMMA DropReach ==
  ASSUME LeakInv, NEW k, DropDispatcher(k), stopping' = stopping,
         NEW d \in Dispatchers, Running(d), ~done'[d]
  PROVE  ~done[d] /\ (d \in stopping' \/ table'[KeyOf(dClient[d])] = d)
<1>1. ~done[d] /\ d # table[k]
  BY Zenon DEF DropDispatcher
<1>2. KeyOf(dClient[d]) \in Key /\ (d \in stopping \/ table[KeyOf(dClient[d])] = d)
  BY <1>1, InReach
<1>3. KeyOf(dClient[d]) # k => table'[KeyOf(dClient[d])] = table[KeyOf(dClient[d])]
  BY <1>2, Zenon DEF DropDispatcher, LeakInv, TypeInv, TypeOK
<1> QED
  BY <1>1, <1>2, <1>3

\* Steps that touch no table, no client and none of the stop marks.
LEMMA ReachSame ==
  ASSUME LeakInv, UNCHANGED <<initSemantics, clients, table, dClient, done, stopping>>,
         \A d \in Dispatchers : Running(d)' => Running(d)
  PROVE  NoLeakedDispatcher'
<1> SUFFICES ASSUME NEW d \in Dispatchers, Running(d)', ~done'[d]
             PROVE  d \in stopping' \/ table'[KeyOf(dClient[d])'] = d
  BY DEF NoLeakedDispatcher, Running
<1>1. Running(d) /\ ~done[d]
  OBVIOUS
<1>2. d \in stopping \/ table[KeyOf(dClient[d])] = d
  BY <1>1, InReach
<1>3. KeyOf(dClient[d])' = KeyOf(dClient[d])
  BY Zenon DEF KeyOf
<1> QED
  BY <1>2, <1>3

\* Every step keeps the delivery goroutines in reach.
LEMMA NextLeak == LeakInv /\ [Next]_vars => NoLeakedDispatcher'
<1> SUFFICES ASSUME LeakInv, [Next]_vars PROVE NoLeakedDispatcher'
  OBVIOUS
<1>0. /\ TypeOK /\ table \in [Key -> 0 .. born] /\ born \in Nat
      /\ dpc \in [Dispatchers -> {"unborn", "select", "collect", "deliver",
                                  "gone", "ended"}]
      /\ dClient \in [Dispatchers -> 0 .. Len(clients)]
      /\ done \in [Dispatchers -> BOOLEAN] /\ stopping \subseteq 1 .. born
  BY DispatchAssumption DEF LeakInv, TypeInv, TypeOK
<1>1. CASE UNCHANGED vars
  BY <1>1, ReachSame DEF vars, config, regs, disps, Running
<1>2. ASSUME NEW url \in Urls, NEW iface \in Interfaces, Register(url, iface)
      PROVE  NoLeakedDispatcher'
  <2> DEFINE k == IF initSemantics THEN url ELSE iface
  <2>1. /\ initSemantics' = initSemantics
        /\ clients' = Append(clients, [url |-> url, iface |-> iface])
        /\ DropDispatcher(k) /\ UNCHANGED <<dClient, dpc, stopping>>
    BY <1>2 DEF Register, config
  <2> HIDE DEF k
  <2> SUFFICES ASSUME NEW d \in Dispatchers, Running(d), ~done'[d]
               PROVE  d \in stopping' \/ table'[KeyOf(dClient[d])'] = d
    BY <2>1 DEF NoLeakedDispatcher, Running
  <2>2. ~done[d] /\ (d \in stopping' \/ table'[KeyOf(dClient[d])] = d)
    BY <2>1, DropReach
  <2>3. dClient[d] \in 1 .. Len(clients)
    BY <2>2, InReach
  <2>4. KeyOf(dClient[d])' = KeyOf(dClient[d])
    <3>1. clients'[dClient[d]] = clients[dClient[d]]
      BY <1>0, <2>1, <2>3 DEF TypeOK
    <3> QED BY <2>1, <3>1, Zenon DEF KeyOf
  <2> QED BY <2>2, <2>4
<1>3. ASSUME NEW url \in Urls, Deregister(url) PROVE NoLeakedDispatcher'
  <2>1. PICK k \in Key : DropDispatcher(k)
                         /\ UNCHANGED <<config, clients, dClient, dpc, stopping>>
    BY <1>3 DEF Deregister
  <2> SUFFICES ASSUME NEW d \in Dispatchers, Running(d), ~done'[d]
               PROVE  d \in stopping' \/ table'[KeyOf(dClient[d])'] = d
    BY <2>1 DEF NoLeakedDispatcher, Running
  <2>2. d \in stopping' \/ table'[KeyOf(dClient[d])] = d
    BY <2>1, DropReach
  <2>3. KeyOf(dClient[d])' = KeyOf(dClient[d])
    BY <2>1, Zenon DEF KeyOf, config
  <2> QED BY <2>2, <2>3
<1>4. CASE ForgetClients \/ StopDispatchers
  <2>1. SwapTable /\ UNCHANGED <<dClient, dpc, done>>
    BY <1>4 DEF ForgetClients, StopDispatchers
  <2> SUFFICES ASSUME NEW d \in Dispatchers, Running(d), ~done[d] PROVE d \in stopping'
    BY <2>1 DEF NoLeakedDispatcher, Running
  <2>2. KeyOf(dClient[d]) \in Key /\ (d \in stopping \/ table[KeyOf(dClient[d])] = d)
    BY InReach
  <2>3. d # 0
    BY DispatchAssumption DEF Dispatchers
  <2> QED BY <2>1, <2>2, <2>3, Zenon DEF SwapTable
<1>5. ASSUME NEW e \in Dispatchers, CloseDone(e) PROVE NoLeakedDispatcher'
  <2>1. /\ stopping' = stopping \ {e} /\ done' = [done EXCEPT ![e] = TRUE]
        /\ UNCHANGED <<config, clients, table, dClient, dpc>>
    BY <1>5 DEF CloseDone, regs
  <2> SUFFICES ASSUME NEW d \in Dispatchers, Running(d), ~done'[d]
               PROVE  d \in stopping' \/ table'[KeyOf(dClient[d])'] = d
    BY <2>1 DEF NoLeakedDispatcher, Running
  <2>2. d # e /\ ~done[d]
    BY <1>0, <2>1, Zenon
  <2>3. d \in stopping \/ table[KeyOf(dClient[d])] = d
    BY <2>2, InReach
  <2>4. KeyOf(dClient[d])' = KeyOf(dClient[d])
    BY <2>1, Zenon DEF KeyOf, config
  <2> QED BY <2>1, <2>2, <2>3, <2>4
<1>6. ASSUME NEW p \in Producers,
             \/ \E target \in Interfaces \cup {AnyTarget} : FireEvent(p, target)
             \/ \E c \in todo[p] : CallEvent(p, c)
             \/ Enqueue(p) \/ RemoveFailed(p)
      PROVE  NoLeakedDispatcher'
  BY <1>6, ReachSame DEF FireEvent, CallEvent, Enqueue, RemoveFailed, config, regs,
                         disps, Running
<1>7. ASSUME NEW p \in Producers, NEW c \in todo[p], DispatcherFor(p, c)
      PROVE  NoLeakedDispatcher'
  <2> DEFINE k == DispatcherKey(c)
             n == born + 1
  <2>1. CASE UNCHANGED disps
    BY <1>7, <2>1, ReachSame DEF DispatcherFor, config, regs, disps, Running
  <2>2. CASE /\ table[k] = 0
             /\ table' = [table EXCEPT ![k] = n]
             /\ dClient' = [dClient EXCEPT ![n] = c]
             /\ dpc' = [dpc EXCEPT ![n] = "select"]
             /\ UNCHANGED <<done, stopping>>
    <3>1. c \in 1 .. Len(clients) /\ k = KeyOf(c) /\ k \in Key
          /\ UNCHANGED <<initSemantics, clients>>
      <4>1. c \in 1 .. Len(clients)
        BY DEF LeakInv, TypeInv, TypeOK
      <4> QED BY <1>0, <1>7, <4>1, KeyOfType
              DEF DispatcherKey, DispatcherFor, config, regs
    <3> HIDE DEF k, n
    <3> SUFFICES ASSUME NEW d \in Dispatchers, Running(d)', ~done[d]
                 PROVE  d \in stopping' \/ table'[KeyOf(dClient[d])'] = d
      BY <2>2 DEF NoLeakedDispatcher, Running
    <3>2. CASE d = n
      <4>1. dClient'[d] = c
        BY <1>0, <2>2, <3>2
      <4>2. KeyOf(dClient[d])' = KeyOf(c)
        BY <3>1, <4>1, Zenon DEF KeyOf
      <4>3. table'[k] = n
        BY <1>0, <2>2, <3>1
      <4> QED BY <3>1, <3>2, <4>2, <4>3
    <3>3. CASE d # n
      <4>1. dClient'[d] = dClient[d] /\ dpc'[d] = dpc[d]
        BY <1>0, <2>2, <3>3
      <4>2. KeyOf(dClient[d])' = KeyOf(dClient[d])
        BY <3>1, <4>1, Zenon DEF KeyOf
      <4>3. KeyOf(dClient[d]) \in Key /\ (d \in stopping \/ table[KeyOf(dClient[d])] = d)
        BY <4>1, InReach DEF Running
      <4>4. d # 0
        BY DispatchAssumption DEF Dispatchers
      <4>5. table[KeyOf(dClient[d])] = d => table'[KeyOf(dClient[d])] = d
        BY <1>0, <2>2, <4>3, <4>4, Zenon
      <4> QED BY <2>2, <4>2, <4>3, <4>5
    <3> QED BY <3>2, <3>3
  <2> QED BY <1>7, <2>1, <2>2 DEF DispatcherFor
<1>8. ASSUME NEW e \in Dispatchers, DispatcherStep(e) PROVE NoLeakedDispatcher'
  <2>1. ASSUME Take(e) \/ Return(e) \/ Collect(e) \/ EndCollect(e) \/ Deliver(e)
        PROVE  NoLeakedDispatcher'
    <3>1. /\ UNCHANGED <<config, regs, table, dClient, done, stopping>>
          /\ dpc[e] \notin {"unborn", "ended"}
          /\ \E x \in {"select", "collect", "deliver", "gone", "ended"} :
               dpc' = [dpc EXCEPT ![e] = x]
      BY <2>1 DEF Take, Return, Collect, EndCollect, Deliver
    <3>2. \A d \in Dispatchers : Running(d)' => Running(d)
      BY <1>0, <3>1 DEF Running
    <3> QED BY <3>1, <3>2, ReachSame DEF config, regs
  <2>2. ASSUME OnGone(e) PROVE NoLeakedDispatcher'
    <3>1. /\ UNCHANGED <<config, clients, dClient, stopping>>
          /\ dpc' = [dpc EXCEPT ![e] = "ended"]
          /\ \/ DropDispatcher(KeyOf(dClient[e])) \/ UNCHANGED <<table, done>>
      BY <2>2 DEF OnGone
    <3>2. \A d \in Dispatchers : Running(d)' => Running(d)
      BY <1>0, <3>1 DEF Running
    <3>3. CASE UNCHANGED <<table, done>>
      BY <3>1, <3>2, <3>3, ReachSame DEF config
    <3>4. CASE DropDispatcher(KeyOf(dClient[e]))
      <4> SUFFICES ASSUME NEW d \in Dispatchers, Running(d), ~done'[d]
                   PROVE  d \in stopping' \/ table'[KeyOf(dClient[d])'] = d
        BY <3>2 DEF NoLeakedDispatcher, Running
      <4>1. d \in stopping' \/ table'[KeyOf(dClient[d])] = d
        BY <3>1, <3>4, DropReach
      <4>2. KeyOf(dClient[d])' = KeyOf(dClient[d])
        BY <3>1, Zenon DEF KeyOf, config
      <4> QED BY <4>1, <4>2
    <3> QED BY <3>1, <3>3, <3>4
  <2> QED BY <1>8, <2>1, <2>2 DEF DispatcherStep
<1> QED
  BY <1>1, <1>2, <1>3, <1>4, <1>5, <1>6, <1>7, <1>8 DEF Next, ProducerStep

\* Every started goroutine keeps its client.
LEMMA NextStarted == LeakInv /\ [Next]_vars => StartedHaveClient'
<1> SUFFICES ASSUME LeakInv, [Next]_vars PROVE StartedHaveClient'
  OBVIOUS
<1>0. /\ StartedHaveClient
      /\ dpc \in [Dispatchers -> {"unborn", "select", "collect", "deliver",
                                  "gone", "ended"}]
      /\ dClient \in [Dispatchers -> 0 .. Len(clients)]
      /\ todo \in [Producers -> SUBSET (1 .. Len(clients))]
  BY DEF LeakInv, TypeInv, TypeOK
<1>1. CASE UNCHANGED <<dpc, dClient>>
  BY <1>0, <1>1 DEF StartedHaveClient
<1>2. ASSUME NEW p \in Producers, NEW c \in todo[p], DispatcherFor(p, c)
      PROVE  StartedHaveClient'
  <2>1. c # 0
    BY <1>0
  <2>2. CASE /\ dClient' = [dClient EXCEPT ![born + 1] = c]
             /\ dpc' = [dpc EXCEPT ![born + 1] = "select"]
    BY <1>0, <2>1, <2>2 DEF StartedHaveClient
  <2> QED BY <1>1, <1>2, <2>2 DEF DispatcherFor, disps
<1>3. ASSUME NEW d \in Dispatchers, DispatcherStep(d) PROVE StartedHaveClient'
  <2>1. /\ dClient' = dClient /\ dpc[d] # "unborn"
        /\ \E x \in {"select", "collect", "deliver", "gone", "ended"} :
             dpc' = [dpc EXCEPT ![d] = x]
    BY <1>3 DEF DispatcherStep, Take, Return, Collect, EndCollect, Deliver, OnGone
  <2> QED BY <1>0, <2>1 DEF StartedHaveClient
<1>4. UNCHANGED vars \/ ForgetClients \/ StopDispatchers
        \/ (\E d \in Dispatchers : CloseDone(d))
        \/ (\E url \in Urls, iface \in Interfaces : Register(url, iface))
        \/ (\E url \in Urls : Deregister(url))
        \/ (\E p \in Producers, target \in Interfaces \cup {AnyTarget} : FireEvent(p, target))
        \/ (\E p \in Producers : Enqueue(p) \/ RemoveFailed(p)
              \/ \E c \in todo[p] : CallEvent(p, c))
        => UNCHANGED <<dpc, dClient>>
  BY DEF vars, ForgetClients, StopDispatchers, CloseDone, Register, Deregister,
         FireEvent, Enqueue, RemoveFailed, CallEvent, disps
<1> QED
  BY <1>1, <1>2, <1>3, <1>4 DEF Next, ProducerStep

\* However registrations, failures and shutdowns interleave, a delivery goroutine
\* that runs can still be told to stop: none is leaked.
THEOREM NoDispatcherLeaks == Spec => []NoLeakedDispatcher
<1>1. Init => LeakInv
  BY InitType DEF Init, LeakInv, StartedHaveClient, NoLeakedDispatcher
<1>2. LeakInv /\ [Next]_vars => LeakInv'
  BY NextType, NextLeak, NextStarted DEF LeakInv
<1>3. LeakInv => NoLeakedDispatcher
  BY DEF LeakInv
<1> QED
  BY <1>1, <1>2, <1>3, PTL DEF Spec

-----------------------------------------------------------------------------
(* Elements of sequences                                                   *)

\* What enqueue and collect add.
LEMMA ElementsAppend ==
  ASSUME NEW S, NEW s \in Seq(S), NEW x \in S
  PROVE  Elements(Append(s, x)) = Elements(s) \cup {x}
<1>1. /\ Len(s) \in Nat /\ DOMAIN s = 1 .. Len(s)
      /\ DOMAIN Append(s, x) = 1 .. Len(s) + 1
      /\ \A i \in 1 .. Len(s) : Append(s, x)[i] = s[i]
      /\ Append(s, x)[Len(s) + 1] = x
  OBVIOUS
<1>2. \A e : e \in Elements(Append(s, x)) => e \in Elements(s) \cup {x}
  BY <1>1 DEF Elements
<1>3. \A e : e \in Elements(s) \cup {x} => e \in Elements(Append(s, x))
  BY <1>1 DEF Elements
<1> QED
  BY <1>2, <1>3

\* A queue gives its head to the batch and keeps the rest.
LEMMA ElementsHeadTail ==
  ASSUME NEW S, NEW s \in Seq(S), s # <<>>
  PROVE  Head(s) \in Elements(s) /\ Elements(Tail(s)) \subseteq Elements(s)
<1>1. /\ Len(s) \in Nat \ {0} /\ DOMAIN s = 1 .. Len(s)
      /\ Head(s) = s[1]
      /\ DOMAIN Tail(s) = 1 .. Len(s) - 1
      /\ \A i \in 1 .. Len(s) - 1 : Tail(s)[i] = s[i + 1]
  OBVIOUS
<1> QED
  BY <1>1 DEF Elements

\* What deliver adds to what a client was sent.
LEMMA ElementsConcat ==
  ASSUME NEW S, NEW s \in Seq(S), NEW t \in Seq(S)
  PROVE  Elements(s \o t) = Elements(s) \cup Elements(t)
<1>1. /\ Len(s) \in Nat /\ Len(t) \in Nat /\ DOMAIN s = 1 .. Len(s) /\ DOMAIN t = 1 .. Len(t)
      /\ DOMAIN (s \o t) = 1 .. Len(s) + Len(t)
      /\ \A i \in 1 .. Len(s) + Len(t) :
           (s \o t)[i] = IF i <= Len(s) THEN s[i] ELSE t[i - Len(s)]
  OBVIOUS
<1>2. \A e : e \in Elements(s \o t) => e \in Elements(s) \cup Elements(t)
  BY <1>1 DEF Elements
<1>3. ASSUME NEW e \in Elements(t) PROVE e \in Elements(s \o t)
  <2>1. PICK i \in 1 .. Len(t) : e = t[i]
    BY <1>1, <1>3 DEF Elements
  <2>2. i + Len(s) \in 1 .. Len(s) + Len(t) /\ (s \o t)[i + Len(s)] = e
    BY <1>1, <2>1
  <2> QED
    BY <1>1, <2>2 DEF Elements
<1>4. ASSUME NEW e \in Elements(s) PROVE e \in Elements(s \o t)
  BY <1>1, <1>4 DEF Elements
<1> QED
  BY <1>2, <1>3, <1>4

-----------------------------------------------------------------------------
(* Events stay with the keys they were fired for                           *)

\* Events and clients of a key that the event was fired for.
Right == {x \in (1 .. Len(events)) \X (1 .. Len(clients)) :
            \E o \in events[x[1]].to : KeyOf(o) = KeyOf(x[2])}

\* Snapshots name clients that were made.
SnapshotsMade == \A e \in 1 .. Len(events) : events[e].to \subseteq 1 .. Len(clients)

\* A goroutine that is not born has no client, one in the table has one of its key.
TableKeys ==
  /\ \A d \in Dispatchers : d > born => dClient[d] = 0
  /\ \A k \in Key : table[k] # 0 => dClient[table[k]] # 0 /\ KeyOf(dClient[table[k]]) = k

\* A producer serves clients of its snapshot, and hands its event to a
\* goroutine of the same key.
TodoRight ==
  \A p \in Producers : \A c \in todo[p] :
    pev[p] \in 1 .. Len(events) /\ c \in events[pev[p]].to
HeldRight ==
  \A p \in Producers : ppc[p] = "enqueue" =>
    held[p] \in 1 .. born /\ <<pev[p], dClient[held[p]]>> \in Right

\* Where events wait and where they went.
QueueRight == \A d \in Dispatchers : \A e \in Elements(queue[d]) : <<e, dClient[d]>> \in Right
BatchRight == \A d \in Dispatchers : \A e \in Elements(batch[d]) : <<e, dClient[d]>> \in Right
SentRight  == \A c \in Clients : \A e \in Elements(sent[c]) : <<e, c>> \in Right

KeysInv == /\ TypeInv /\ SnapshotsMade /\ TableKeys /\ TodoRight
           /\ HeldRight /\ QueueRight /\ BatchRight /\ SentRight

\* Nothing was fired yet.
LEMMA InitKeys == Init => KeysInv
<1> SUFFICES ASSUME Init PROVE KeysInv
  OBVIOUS
<1>1. TypeInv
  BY InitType
<1>2. events = <<>> /\ Len(events) = 0 /\ Elements(<<>>) = {}
  BY DEF Init, Elements
<1>3. /\ \A d \in Dispatchers : queue[d] = <<>> /\ batch[d] = <<>> /\ dClient[d] = 0
      /\ \A c \in Clients : sent[c] = <<>>
      /\ \A k \in Key : table[k] = 0
      /\ \A p \in Producers : todo[p] = {} /\ ppc[p] = "loop"
  BY DEF Init
<1> QED
  BY <1>1, <1>2, <1>3
  DEF KeysInv, SnapshotsMade, TableKeys, TodoRight, HeldRight, QueueRight, BatchRight, SentRight

\* What is right stays right when clients or events are added.
LEMMA RightOnRegister ==
  ASSUME TypeOK, SnapshotsMade, NEW x, initSemantics' = initSemantics, events' = events,
         clients' = Append(clients, x)
  PROVE  Right \subseteq Right' /\ SnapshotsMade'
<1>1. Len(clients) \in Nat /\ Len(clients') = Len(clients) + 1
  BY DEF TypeOK
<1>2. \A c \in 1 .. Len(clients) : c \in 1 .. Len(clients') /\ KeyOf(c)' = KeyOf(c)
  BY <1>1, KeyOfSame
<1>3. SnapshotsMade'
  BY <1>2 DEF SnapshotsMade
<1>4. ASSUME NEW y \in Right PROVE y \in Right'
  <2>1. /\ y \in (1 .. Len(events)) \X (1 .. Len(clients))
        /\ y[1] \in 1 .. Len(events) /\ y[2] \in 1 .. Len(clients)
    BY <1>4 DEF Right
  <2>2. PICK o \in events[y[1]].to : KeyOf(o) = KeyOf(y[2])
    BY <1>4 DEF Right
  <2>3. o \in 1 .. Len(clients)
    BY <2>1, <2>2 DEF SnapshotsMade
  <2>4. KeyOf(o)' = KeyOf(y[2])'
    BY <1>2, <2>1, <2>2, <2>3
  <2>5. y \in (1 .. Len(events')) \X (1 .. Len(clients'))
    BY <1>2, <2>1
  <2> QED
    BY <2>2, <2>4, <2>5 DEF Right
<1> QED
  BY <1>3, <1>4

\* A new event leaves the older ones and their snapshots alone.
LEMMA RightOnFire ==
  ASSUME TypeOK, SnapshotsMade, NEW q \in Producers, NEW to \in SUBSET (1 .. Len(clients)),
         UNCHANGED <<initSemantics, clients>>,
         events' = Append(events, [by |-> q, to |-> to])
  PROVE  /\ Right \subseteq Right' /\ SnapshotsMade'
         /\ \A e \in 1 .. Len(events) : e \in 1 .. Len(events') /\ events'[e] = events[e]
         /\ Len(events) + 1 \in 1 .. Len(events') /\ events'[Len(events) + 1].to = to
<1> DEFINE Record == [by : Producers, to : SUBSET Clients]
           new == [by |-> q, to |-> to]
<1>1. new \in Record
  <2>1. Len(clients) \in Nat /\ Len(clients) <= MaxClients /\ MaxClients \in Nat
    BY DispatchAssumption DEF TypeOK
  <2>2. to \in SUBSET Clients
    BY <2>1 DEF Clients
  <2> QED BY <2>2
<1>2. events \in Seq(Record) /\ events' = Append(events, new)
  BY DEF TypeOK
<1>3. /\ Len(events) \in Nat /\ Len(events') = Len(events) + 1
      /\ \A e \in 1 .. Len(events) : events'[e] = events[e]
      /\ events'[Len(events) + 1] = new
  <2> HIDE DEF Record, new
  <2> QED BY <1>1, <1>2
<1>4. /\ \A e \in 1 .. Len(events) : e \in 1 .. Len(events')
      /\ Len(events) + 1 \in 1 .. Len(events')
      /\ \A e \in 1 .. Len(events') : e \in 1 .. Len(events) \/ e = Len(events) + 1
  BY <1>3
<1>5. events'[Len(events) + 1].to = to
  BY <1>3
<1> HIDE DEF new, Record
<1>6. SnapshotsMade'
  BY <1>3, <1>4, <1>5, Zenon DEF SnapshotsMade
<1>7. ASSUME NEW y \in Right PROVE y \in Right'
  <2>1. /\ y \in (1 .. Len(events)) \X (1 .. Len(clients))
        /\ y[1] \in 1 .. Len(events) /\ y[2] \in 1 .. Len(clients)
    BY <1>7 DEF Right
  <2>2. PICK o \in events[y[1]].to : KeyOf(o) = KeyOf(y[2])
    BY <1>7 DEF Right
  <2>3. o \in events'[y[1]].to /\ KeyOf(o)' = KeyOf(y[2])'
    BY <1>3, <2>1, <2>2, Zenon DEF KeyOf
  <2>4. y \in (1 .. Len(events')) \X (1 .. Len(clients'))
    BY <1>4, <2>1
  <2> QED BY <2>3, <2>4 DEF Right
<1> QED
  BY <1>3, <1>4, <1>5, <1>6, <1>7

\* Neither does a step that touches neither clients nor events change them.
LEMMA RightSame ==
  ASSUME UNCHANGED <<initSemantics, clients, events>>
  PROVE  Right' = Right /\ (SnapshotsMade => SnapshotsMade') /\ \A c : KeyOf(c)' = KeyOf(c)
  BY DEF Right, SnapshotsMade, KeyOf

-----------------------------------------------------------------------------
(* The steps                                                               *)

\* A step that leaves clients and events alone may only take entries out of
\* the dispatcher table, finish producers' work, and move events to where
\* they are right.
LEMMA KeepsKeys ==
  ASSUME KeysInv, TypeInv',
         UNCHANGED <<initSemantics, clients, events, dClient, born, pev>>,
         \A k \in Key : table'[k] \in {0, table[k]},
         \A p \in Producers : /\ todo'[p] \subseteq todo[p]
                              /\ ppc'[p] = "enqueue" => ppc[p] = "enqueue" /\ held'[p] = held[p],
         \A d \in Dispatchers : \A e \in Elements(queue'[d]) : <<e, dClient[d]>> \in Right,
         \A d \in Dispatchers : \A e \in Elements(batch'[d]) : <<e, dClient[d]>> \in Right,
         \A c \in Clients : \A e \in Elements(sent'[c]) : <<e, c>> \in Right
  PROVE  KeysInv'
<1>1. Right' = Right /\ SnapshotsMade' /\ \A c : KeyOf(c)' = KeyOf(c)
  BY RightSame DEF KeysInv
<1>2. TableKeys'
  BY <1>1, Zenon DEF KeysInv, TableKeys
<1>3. TodoRight'
  BY Zenon DEF KeysInv, TodoRight
<1>4. HeldRight'
  BY <1>1, Zenon DEF KeysInv, HeldRight
<1>5. QueueRight' /\ BatchRight' /\ SentRight'
  BY <1>1, Zenon DEF QueueRight, BatchRight, SentRight
<1> QED
  BY <1>1, <1>2, <1>3, <1>4, <1>5 DEF KeysInv

\* Nothing is added to a queue, a batch or to what was sent.
LEMMA KeepsHistory ==
  ASSUME KeysInv, TypeInv',
         UNCHANGED <<initSemantics, clients, events, dClient, born, pev, queue, batch, sent>>,
         \A k \in Key : table'[k] \in {0, table[k]},
         \A p \in Producers : /\ todo'[p] \subseteq todo[p]
                              /\ ppc'[p] = "enqueue" => ppc[p] = "enqueue" /\ held'[p] = held[p]
  PROVE  KeysInv'
<1>1. /\ \A d \in Dispatchers : \A e \in Elements(queue'[d]) : <<e, dClient[d]>> \in Right
      /\ \A d \in Dispatchers : \A e \in Elements(batch'[d]) : <<e, dClient[d]>> \in Right
      /\ \A c \in Clients : \A e \in Elements(sent'[c]) : <<e, c>> \in Right
  BY DEF KeysInv, QueueRight, BatchRight, SentRight
<1> QED
  BY <1>1, KeepsKeys

\* Registration, deregistration and the ends of goroutines.
LEMMA RegisterKeys ==
  ASSUME KeysInv, TypeInv', NEW url \in Urls, NEW iface \in Interfaces, Register(url, iface)
  PROVE  KeysInv'
<1> DEFINE k == IF initSemantics THEN url ELSE iface
<1>1. /\ clients' = Append(clients, [url |-> url, iface |-> iface])
      /\ UNCHANGED <<initSemantics, events, born, dClient, queue, batch, todo, pev, ppc, held, sent>>
      /\ table' = [table EXCEPT ![k] = 0]
  BY DEF Register, DropDispatcher, config, prods
<1>2. Right \subseteq Right' /\ SnapshotsMade'
  BY <1>1, RightOnRegister DEF KeysInv, TypeInv
<1>3. TodoRight'
  BY <1>1, Zenon DEF KeysInv, TodoRight
<1>4. HeldRight'
  BY <1>1, <1>2, Zenon DEF KeysInv, HeldRight
<1>5. QueueRight' /\ BatchRight' /\ SentRight'
  BY <1>1, <1>2, Zenon DEF KeysInv, QueueRight, BatchRight, SentRight
<1>6. TableKeys'
  <2> HIDE DEF k
  <2>1. \A d \in Dispatchers : d > born' => dClient'[d] = 0
    BY <1>1 DEF KeysInv, TableKeys
  <2>2. \A c \in 1 .. Len(clients) : KeyOf(c)' = KeyOf(c)
    BY <1>1, KeyOfSame DEF KeysInv, TypeInv
  <2>3. ASSUME NEW j \in Key, table'[j] # 0
        PROVE  (dClient[table[j]] # 0 /\ KeyOf(dClient[table[j]]) = j)'
    <3>1. /\ table \in [Key -> 0 .. born] /\ born \in 0 .. MaxDispatchers /\ MaxDispatchers \in Nat
          /\ dClient \in [Dispatchers -> 0 .. Len(clients)] /\ Len(clients) \in Nat
      BY DispatchAssumption DEF KeysInv, TypeInv, TypeOK
    <3>2. table'[j] = table[j]
      BY <1>1, <2>3, <3>1
    <3>3. dClient[table[j]] # 0 /\ KeyOf(dClient[table[j]]) = j
      BY <2>3, <3>2 DEF KeysInv, TableKeys
    <3>4. table[j] \in Dispatchers
      BY <2>3, <3>1, <3>2 DEF Dispatchers
    <3>5. PICK c \in 1 .. Len(clients) : c = dClient[table[j]]
      BY <3>1, <3>3, <3>4
    <3>6. c = dClient[table[j]]' /\ KeyOf(c)' = j
      BY <1>1, <2>2, <3>2, <3>3, <3>5
    <3> QED
      BY <1>1, <3>2, <3>3, <3>5, <3>6, Zenon DEF KeyOf
  <2> QED
    BY <2>1, <2>3 DEF TableKeys
<1> QED
  BY <1>2, <1>3, <1>4, <1>5, <1>6 DEF KeysInv

\* Dropping dispatchers only takes entries out of the table.
LEMMA DropKeys ==
  ASSUME KeysInv, NEW k, DropDispatcher(k)
  PROVE  \A j \in Key : table'[j] \in {0, table[j]}
  BY DEF DropDispatcher, KeysInv, TypeInv, TypeOK

\* Deregistration, the swap of the table and the stops that follow.
LEMMA ForgetKeys ==
  ASSUME KeysInv, TypeInv',
         \/ \E url \in Urls : Deregister(url)
         \/ ForgetClients \/ StopDispatchers
         \/ \E d \in Dispatchers : CloseDone(d)
  PROVE  KeysInv'
<1>1. UNCHANGED <<initSemantics, clients, events, dClient, born, pev, queue, batch, sent,
                  todo, ppc, held>>
  BY DEF Deregister, ForgetClients, StopDispatchers, CloseDone, config, regs, prods
<1>2. \A k \in Key : table'[k] \in {0, table[k]}
  <2>1. CASE \E url \in Urls : Deregister(url)
    BY <2>1, DropKeys DEF Deregister
  <2>2. CASE ForgetClients \/ StopDispatchers
    BY <2>2 DEF ForgetClients, StopDispatchers, SwapTable
  <2>3. CASE \E d \in Dispatchers : CloseDone(d)
    BY <2>3 DEF CloseDone
  <2> QED
    BY <2>1, <2>2, <2>3
<1> QED
  BY <1>1, <1>2, KeepsHistory

\* The remote call of the delivery goroutine, its queue and its end.
LEMMA GoroutineKeys ==
  ASSUME KeysInv, TypeInv', NEW d \in Dispatchers, DispatcherStep(d)
  PROVE  KeysInv'
<1>0. /\ queue \in [Dispatchers -> Seq(Events)] /\ queue[d] \in Seq(Events)
      /\ batch \in [Dispatchers -> Seq(Events)] /\ batch[d] \in Seq(Events)
      /\ sent \in [Clients -> Seq(Events)]
  BY DEF KeysInv, TypeInv, TypeOK
<1>1. /\ \A f \in Dispatchers : \A e \in Elements(queue[f]) : <<e, dClient[f]>> \in Right
      /\ \A f \in Dispatchers : \A e \in Elements(batch[f]) : <<e, dClient[f]>> \in Right
      /\ \A c \in Clients : \A e \in Elements(sent[c]) : <<e, c>> \in Right
  BY DEF KeysInv, QueueRight, BatchRight, SentRight
<1>2. UNCHANGED <<initSemantics, clients, events, dClient, born, pev, todo, ppc, held>>
  BY DEF DispatcherStep, Take, Return, Collect, EndCollect, Deliver, OnGone, config, regs, prods
<1>3. \A k \in Key : table'[k] \in {0, table[k]}
  <2>1. CASE OnGone(d)
    BY <2>1, DropKeys DEF OnGone
  <2>2. CASE ~OnGone(d)
    BY <2>2 DEF DispatcherStep, Take, Return, Collect, EndCollect, Deliver
  <2> QED
    BY <2>1, <2>2
<1>4. CASE Return(d) \/ EndCollect(d) \/ OnGone(d)
  <2>1. UNCHANGED <<queue, batch, sent>>
    BY <1>4 DEF Return, EndCollect, OnGone
  <2> QED
    BY <1>2, <1>3, <2>1, KeepsHistory
<1>5. CASE Take(d) \/ Collect(d)
  <2>1. /\ queue[d] # <<>> /\ sent' = sent
        /\ queue' = [queue EXCEPT ![d] = Tail(@)]
        /\ \/ batch' = [batch EXCEPT ![d] = <<Head(queue[d])>>]
           \/ batch' = [batch EXCEPT ![d] = Append(@, Head(queue[d]))]
    BY <1>5 DEF Take, Collect
  <2>2. Head(queue[d]) \in Elements(queue[d]) /\ Elements(Tail(queue[d])) \subseteq Elements(queue[d])
    BY <1>0, <2>1, ElementsHeadTail
  <2>3. Head(queue[d]) \in Events
    BY <1>0, <2>1
  <2>4. Elements(<<Head(queue[d])>>) = {Head(queue[d])}
    BY DEF Elements
  <2>5. Elements(Append(batch[d], Head(queue[d]))) = Elements(batch[d]) \cup {Head(queue[d])}
    BY <1>0, <2>3, ElementsAppend
  <2>6. /\ \A f \in Dispatchers \ {d} : queue'[f] = queue[f] /\ batch'[f] = batch[f]
        /\ queue'[d] = Tail(queue[d])
        /\ batch'[d] \in {<<Head(queue[d])>>, Append(batch[d], Head(queue[d]))}
    BY <1>0, <2>1, Zenon
  <2>7. \A f \in Dispatchers : \A e \in Elements(queue'[f]) : <<e, dClient[f]>> \in Right
    <3>1. \A f \in Dispatchers : Elements(queue'[f]) \subseteq Elements(queue[f])
      BY <2>2, <2>6, Zenon
    <3> QED BY <1>1, <3>1, Zenon
  <2>8. \A f \in Dispatchers : \A e \in Elements(batch'[f]) : <<e, dClient[f]>> \in Right
    <3>1. Elements(batch'[d]) \subseteq Elements(batch[d]) \cup Elements(queue[d])
      BY <2>2, <2>4, <2>5, <2>6
    <3>2. \A e \in Elements(batch'[d]) : <<e, dClient[d]>> \in Right
      BY <1>1, <3>1
    <3> QED BY <1>1, <2>6, <3>2, Zenon
  <2>9. \A c \in Clients : \A e \in Elements(sent'[c]) : <<e, c>> \in Right
    BY <1>1, <2>1, Zenon
  <2> QED
    BY <1>2, <1>3, <2>7, <2>8, <2>9, KeepsKeys
<1>6. CASE Deliver(d)
  <2> DEFINE c == dClient[d]
  <2>1. /\ queue' = queue /\ batch' = [batch EXCEPT ![d] = <<>>]
        /\ sent' \in {sent, [sent EXCEPT ![c] = @ \o batch[d]]}
    BY <1>6 DEF Deliver
  <2>2. \A f \in Dispatchers : batch'[f] = batch[f] \/ batch'[f] = <<>>
    BY <1>0, <2>1, Zenon
  <2>3. Elements(<<>>) = {}
    BY DEF Elements
  <2>4. \A f \in Dispatchers : \A e \in Elements(batch'[f]) : <<e, dClient[f]>> \in Right
    BY <1>1, <2>2, <2>3, Zenon
  <2>5. ASSUME NEW b \in Clients, NEW e \in Elements(sent'[b]) PROVE <<e, b>> \in Right
    <3>1. CASE sent'[b] = sent[b]
      BY <1>1, <2>5, <3>1
    <3>2. CASE b = c /\ sent'[b] = sent[b] \o batch[d]
      <4>1. Elements(sent[b] \o batch[d]) = Elements(sent[b]) \cup Elements(batch[d])
        <5>1. sent[b] \in Seq(Events)
          BY <1>0
        <5> QED BY <1>0, <5>1, ElementsConcat
      <4>2. \A x \in Elements(batch[d]) : <<x, b>> \in Right
        BY <1>1, <3>2, Zenon
      <4>3. \A x \in Elements(sent[b]) : <<x, b>> \in Right
        BY <1>1, Zenon
      <4>4. e \in Elements(sent[b]) \cup Elements(batch[d])
        BY <2>5, <3>2, <4>1
      <4> QED
        BY <4>2, <4>3, <4>4
    <3>3. sent'[b] = sent[b] \/ (b = c /\ sent'[b] = sent[b] \o batch[d])
      <4> HIDE DEF c
      <4>1. sent \in [Clients -> Seq(Events)] /\ b \in Clients
        BY <1>0
      <4>2. CASE sent' = [sent EXCEPT ![c] = @ \o batch[d]]
        BY <4>1, <4>2, Zenon
      <4> QED BY <2>1, <4>2
    <3> QED
      BY <3>1, <3>2, <3>3
  <2>6. \A f \in Dispatchers : \A e \in Elements(queue'[f]) : <<e, dClient[f]>> \in Right
    BY <1>1, <2>1, Zenon
  <2> QED
    BY <1>2, <1>3, <2>4, <2>5, <2>6, KeepsKeys
<1> QED
  BY <1>4, <1>5, <1>6 DEF DispatcherStep
\* Without batching the producer calls the client itself.
LEMMA CallKeys ==
  ASSUME KeysInv, TypeInv', NEW p \in Producers, NEW c \in todo[p], CallEvent(p, c)
  PROVE  KeysInv'
<1>0. /\ pev[p] \in Events /\ todo \in [Producers -> SUBSET (1 .. Len(clients))]
      /\ ppc \in [Producers -> {"loop", "enqueue", "failed"}]
      /\ held \in [Producers -> Nat] /\ sent \in [Clients -> Seq(Events)]
      /\ Len(clients) \in Nat /\ Len(clients) <= MaxClients /\ MaxClients \in Nat
  <2>1. pev[p] \in Events
    BY HandsOverAnEvent DEF KeysInv
  <2> QED BY <2>1, DispatchAssumption DEF KeysInv, TypeInv, TypeOK
<1>1. /\ UNCHANGED <<initSemantics, clients, events, dClient, born, pev, table, queue, batch>>
      /\ ppc[p] = "loop" /\ todo' = [todo EXCEPT ![p] = @ \ {c}]
      /\ sent' \in {sent, [sent EXCEPT ![c] = Append(@, pev[p])]}
      /\ \/ UNCHANGED <<ppc, held>>
         \/ ppc' = [ppc EXCEPT ![p] = "failed"] /\ held' = [held EXCEPT ![p] = c]
  BY DEF CallEvent, config, regs, disps
<1>2. <<pev[p], c>> \in Right
  BY <1>0 DEF KeysInv, TodoRight, Right
<1>3. \A q \in Producers : /\ todo'[q] \subseteq todo[q]
                           /\ ppc'[q] = "enqueue" => ppc[q] = "enqueue" /\ held'[q] = held[q]
  BY <1>0, <1>1
<1>4. ASSUME NEW b \in Clients, NEW e \in Elements(sent'[b]) PROVE <<e, b>> \in Right
  <2>1. \A x \in Elements(sent[b]) : <<x, b>> \in Right
    BY DEF KeysInv, SentRight
  <2>2. CASE sent'[b] = sent[b]
    BY <1>4, <2>1, <2>2
  <2>3. CASE b = c /\ sent'[b] = Append(sent[b], pev[p])
    <3>1. sent[b] \in Seq(Events)
      BY <1>0
    <3>2. Elements(sent'[b]) = Elements(sent[b]) \cup {pev[p]}
      BY <1>0, <2>3, <3>1, ElementsAppend
    <3> QED
      BY <1>2, <1>4, <2>1, <2>3, <3>2
  <2>4. sent'[b] = sent[b] \/ (b = c /\ sent'[b] = Append(sent[b], pev[p]))
    BY <1>0, <1>1
  <2> QED
    BY <2>2, <2>3, <2>4
<1>5. /\ \A d \in Dispatchers : \A e \in Elements(queue'[d]) : <<e, dClient[d]>> \in Right
      /\ \A d \in Dispatchers : \A e \in Elements(batch'[d]) : <<e, dClient[d]>> \in Right
  BY <1>1 DEF KeysInv, QueueRight, BatchRight
<1> QED
  BY <1>1, <1>3, <1>4, <1>5, KeepsKeys

\* enqueue hands the event to the goroutine in hand, or loses it.
LEMMA EnqueueKeys ==
  ASSUME KeysInv, TypeInv', NEW p \in Producers, Enqueue(p)
  PROVE  KeysInv'
<1> DEFINE d == held[p]
<1>0. /\ pev[p] \in Events /\ ppc[p] = "enqueue"
      /\ queue \in [Dispatchers -> Seq(Events)]
      /\ ppc \in [Producers -> {"loop", "enqueue", "failed"}] /\ held \in [Producers -> Nat]
  BY HandsOverAnEvent DEF KeysInv, TypeInv, TypeOK, Enqueue
<1>1. /\ UNCHANGED <<initSemantics, clients, events, dClient, born, pev, table, batch, sent, todo>>
      /\ ppc' = [ppc EXCEPT ![p] = "loop"] /\ held' = [held EXCEPT ![p] = 0]
      /\ queue' = queue \/ queue' = [queue EXCEPT ![d] = Append(@, pev[p])]
  BY DEF Enqueue, config, regs
<1>2. <<pev[p], dClient[d]>> \in Right
  BY <1>0 DEF KeysInv, HeldRight
<1>3. \A q \in Producers : /\ todo'[q] \subseteq todo[q]
                           /\ ppc'[q] = "enqueue" => ppc[q] = "enqueue" /\ held'[q] = held[q]
  BY <1>0, <1>1
<1>4. ASSUME NEW f \in Dispatchers, NEW e \in Elements(queue'[f])
      PROVE  <<e, dClient[f]>> \in Right
  <2>1. \A x \in Elements(queue[f]) : <<x, dClient[f]>> \in Right
    BY DEF KeysInv, QueueRight
  <2>2. CASE queue'[f] = queue[f]
    BY <1>4, <2>1, <2>2
  <2>3. CASE f = d /\ queue'[f] = Append(queue[f], pev[p])
    <3>1. queue[f] \in Seq(Events)
      BY <1>0
    <3>2. Elements(queue'[f]) = Elements(queue[f]) \cup {pev[p]}
      BY <1>0, <2>3, <3>1, ElementsAppend
    <3> QED
      BY <1>2, <1>4, <2>1, <2>3, <3>2
  <2>4. queue'[f] = queue[f] \/ (f = d /\ queue'[f] = Append(queue[f], pev[p]))
    <3> HIDE DEF d
    <3> QED BY <1>0, <1>1
  <2> QED
    BY <2>2, <2>3, <2>4
<1>5. /\ \A f \in Dispatchers : \A e \in Elements(batch'[f]) : <<e, dClient[f]>> \in Right
      /\ \A c \in Clients : \A e \in Elements(sent'[c]) : <<e, c>> \in Right
  BY <1>1 DEF KeysInv, BatchRight, SentRight
<1> QED
  BY <1>1, <1>3, <1>4, <1>5, KeepsKeys

\* Removing an unreachable client touches neither events nor goroutines.
LEMMA RemoveKeys ==
  ASSUME KeysInv, TypeInv', NEW p \in Producers, RemoveFailed(p)
  PROVE  KeysInv'
<1>0. /\ ppc \in [Producers -> {"loop", "enqueue", "failed"}] /\ held \in [Producers -> Nat]
      /\ table \in [Key -> 0 .. born]
  BY DEF KeysInv, TypeInv, TypeOK
<1>1. /\ UNCHANGED <<initSemantics, clients, events, dClient, born, pev, queue, batch, sent,
                     table, todo>>
      /\ ppc' = [ppc EXCEPT ![p] = "loop"] /\ held' = [held EXCEPT ![p] = 0]
  BY DEF RemoveFailed, config, disps
<1>2. \A q \in Producers : ppc'[q] = "enqueue" => ppc[q] = "enqueue" /\ held'[q] = held[q]
  BY <1>0, <1>1
<1> QED
  BY <1>1, <1>2, KeepsHistory
\* The snapshot of a new event names registered clients only.
LEMMA FireKeys ==
  ASSUME KeysInv, TypeInv', NEW p \in Producers, NEW target, FireEvent(p, target)
  PROVE  KeysInv'
<1> DEFINE to == Snapshot(target)
<1>0. /\ ppc \in [Producers -> {"loop", "enqueue", "failed"}]
      /\ pev \in [Producers -> 0 .. MaxEvents]
      /\ todo \in [Producers -> SUBSET (1 .. Len(clients))]
      /\ remotes \in [Key -> 0 .. Len(clients)] /\ Len(clients) \in Nat
  BY DEF KeysInv, TypeInv, TypeOK
<1>1. /\ ppc[p] = "loop"
      /\ UNCHANGED <<initSemantics, clients, dClient, born, table, queue, batch, sent, ppc, held>>
      /\ events' = Append(events, [by |-> p, to |-> to])
      /\ pev' = [pev EXCEPT ![p] = Len(events) + 1]
      /\ todo' = [todo EXCEPT ![p] = to]
  BY DEF FireEvent, config, regs, disps
<1>2. to \in SUBSET (1 .. Len(clients))
  BY <1>0 DEF Snapshot, Registered
<1> HIDE DEF to
<1>3. /\ Right \subseteq Right' /\ SnapshotsMade'
      /\ \A e \in 1 .. Len(events) : e \in 1 .. Len(events') /\ events'[e] = events[e]
      /\ Len(events) + 1 \in 1 .. Len(events') /\ events'[Len(events) + 1].to = to
  BY <1>1, <1>2, RightOnFire DEF KeysInv, TypeInv
<1>4. /\ pev'[p] = Len(events) + 1 /\ todo'[p] = to
      /\ \A q \in Producers \ {p} : pev'[q] = pev[q] /\ todo'[q] = todo[q]
  BY <1>0, <1>1, Zenon
<1>5. TodoRight'
  BY <1>3, <1>4, SMTT(30) DEF KeysInv, TodoRight
<1>6. HeldRight'
  <2> SUFFICES ASSUME NEW q \in Producers, ppc'[q] = "enqueue"
               PROVE  held'[q] \in 1 .. born' /\ <<pev'[q], dClient'[held'[q]]>> \in Right'
    BY DEF HeldRight
  <2>1. q # p /\ ppc[q] = "enqueue"
    BY <1>1
  <2>2. held[q] \in 1 .. born /\ <<pev[q], dClient[held[q]]>> \in Right
    BY <2>1 DEF KeysInv, HeldRight
  <2>3. held'[q] = held[q] /\ pev'[q] = pev[q] /\ dClient' = dClient /\ born' = born
    BY <1>1, <1>4, <2>1
  <2> QED
    BY <1>3, <2>2, <2>3
<1>7. QueueRight' /\ BatchRight' /\ SentRight'
  BY <1>1, <1>3, Zenon DEF KeysInv, QueueRight, BatchRight, SentRight
<1>8. TableKeys'
  BY <1>1, Zenon DEF KeysInv, TableKeys, KeyOf
<1> QED
  BY <1>3, <1>5, <1>6, <1>7, <1>8 DEF KeysInv

\* dispatcherFor: the goroutine in the table holds a client of the same key,
\* a new one holds the client of the snapshot.
LEMMA DispatcherForKeys ==
  ASSUME KeysInv, TypeInv', NEW p \in Producers, NEW c \in todo[p], DispatcherFor(p, c)
  PROVE  KeysInv'
<1> DEFINE k == DispatcherKey(c)
<1>0. /\ ppc \in [Producers -> {"loop", "enqueue", "failed"}] /\ held \in [Producers -> Nat]
      /\ todo \in [Producers -> SUBSET (1 .. Len(clients))]
      /\ table \in [Key -> 0 .. born] /\ born \in 0 .. MaxDispatchers /\ MaxDispatchers \in Nat
      /\ dClient \in [Dispatchers -> 0 .. Len(clients)] /\ Len(clients) \in Nat
  BY DispatchAssumption DEF KeysInv, TypeInv, TypeOK
<1>1. /\ UNCHANGED <<initSemantics, clients, events, pev, queue, batch, sent>>
      /\ todo' = [todo EXCEPT ![p] = @ \ {c}]
      /\ ppc' = [ppc EXCEPT ![p] = "enqueue"]
  BY DEF DispatcherFor, config, regs, disps
<1>2. /\ c \in 1 .. Len(clients) /\ k = KeyOf(c) /\ k \in Key
      /\ pev[p] \in 1 .. Len(events) /\ c \in events[pev[p]].to
  <2>1. c \in 1 .. Len(clients)
    BY <1>0
  <2>2. KeyOf(c) \in Key
    BY <2>1, KeyOfType DEF KeysInv, TypeInv
  <2> QED
    BY <2>1, <2>2 DEF DispatcherKey, KeysInv, TodoRight
<1>3. Right' = Right /\ SnapshotsMade' /\ \A x : KeyOf(x)' = KeyOf(x)
  BY <1>1, RightSame DEF KeysInv
<1>4. \A x \in 1 .. Len(clients) : KeyOf(x) = k => <<pev[p], x>> \in Right
  BY <1>2 DEF Right
<1>5. TodoRight'
  <2>1. \A q \in Producers : todo'[q] \subseteq todo[q]
    BY <1>0, <1>1
  <2> QED BY <1>1, <2>1, Zenon DEF KeysInv, TodoRight
<1>6. CASE table[k] # 0 /\ held' = [held EXCEPT ![p] = table[k]] /\ UNCHANGED disps
  <2>1. UNCHANGED <<table, dClient, born>>
    BY <1>6 DEF disps
  <2>2. table[k] \in 1 .. born /\ dClient[table[k]] # 0 /\ KeyOf(dClient[table[k]]) = k
    <3> HIDE DEF k
    <3> QED BY <1>0, <1>2, <1>6 DEF KeysInv, TableKeys
  <2>3. table[k] \in Dispatchers
    <3> HIDE DEF k
    <3> QED BY <1>0, <2>2 DEF Dispatchers
  <2>4. dClient[table[k]] \in 1 .. Len(clients)
    BY <1>0, <2>2, <2>3
  <2>5. <<pev[p], dClient[table[k]]>> \in Right
    BY <1>4, <2>2, <2>4
  <2>6. HeldRight'
    <3> SUFFICES ASSUME NEW q \in Producers, ppc'[q] = "enqueue"
                 PROVE  held'[q] \in 1 .. born /\ <<pev[q], dClient[held'[q]]>> \in Right
      BY <1>1, <1>3, <2>1 DEF HeldRight
    <3>1. CASE q = p
      BY <1>0, <1>6, <2>2, <2>5, <3>1
    <3>2. CASE q # p
      BY <1>0, <1>1, <1>6, <3>2 DEF KeysInv, HeldRight
    <3> QED BY <3>1, <3>2
  <2>7. QueueRight' /\ BatchRight' /\ SentRight' /\ TableKeys'
    BY <1>1, <1>3, <2>1, Zenon
    DEF KeysInv, QueueRight, BatchRight, SentRight, TableKeys
  <2> QED
    BY <1>3, <1>5, <2>6, <2>7 DEF KeysInv
<1>7. CASE /\ table[k] = 0 /\ born < MaxDispatchers /\ born' = born + 1
           /\ table' = [table EXCEPT ![k] = born + 1]
           /\ dClient' = [dClient EXCEPT ![born + 1] = c]
           /\ held' = [held EXCEPT ![p] = born + 1]
  <2> DEFINE n == born + 1
  <2>1. n \in Dispatchers /\ n > born /\ dClient[n] = 0 /\ \A d \in 1 .. born : d # n /\ d \in Dispatchers
    BY <1>0, <1>7 DEF Dispatchers, KeysInv, TableKeys
  <2>2. /\ dClient'[n] = c /\ \A d \in Dispatchers \ {n} : dClient'[d] = dClient[d]
        /\ born' = n /\ n \in 1 .. n /\ \A d \in 1 .. born : d \in 1 .. n
    BY <1>0, <1>7, <2>1
  <2>3. ASSUME NEW e PROVE <<e, dClient[n]>> \notin Right
    BY <1>0, <2>1 DEF Right
  <2>4. QueueRight' /\ BatchRight' /\ SentRight'
    <3>1. Elements(queue[n]) = {} /\ Elements(batch[n]) = {}
      BY <2>1, <2>3 DEF KeysInv, QueueRight, BatchRight
    <3> HIDE DEF n
    <3> QED
      BY <1>1, <1>3, <2>2, <3>1, Zenon DEF KeysInv, QueueRight, BatchRight, SentRight
  <2>5. HeldRight'
    <3> SUFFICES ASSUME NEW q \in Producers, ppc'[q] = "enqueue"
                 PROVE  held'[q] \in 1 .. n /\ <<pev[q], dClient'[held'[q]]>> \in Right
      BY <1>1, <1>3, <2>2 DEF HeldRight
    <3>1. CASE q = p
      <4>1. held'[q] = n
        BY <1>0, <1>7, <3>1
      <4> HIDE DEF n, k
      <4> QED BY <1>2, <1>4, <2>2, <3>1, <4>1
    <3>2. CASE q # p
      <4>1. ppc[q] = "enqueue" /\ held'[q] = held[q]
        BY <1>0, <1>1, <1>7, <3>2
      <4>2. held[q] \in 1 .. born /\ <<pev[q], dClient[held[q]]>> \in Right
        BY <4>1 DEF KeysInv, HeldRight
      <4>3. dClient'[held[q]] = dClient[held[q]] /\ held[q] \in 1 .. n
        BY <2>1, <2>2, <4>2
      <4> QED BY <4>1, <4>2, <4>3
    <3> QED BY <3>1, <3>2
  <2>6. TableKeys'
    <3>1. \A d \in Dispatchers : d > born' => dClient'[d] = 0
      BY <1>0, <2>1, <2>2 DEF Dispatchers, KeysInv, TableKeys
    <3>2. ASSUME NEW j \in Key, table'[j] # 0
          PROVE  (dClient[table[j]] # 0 /\ KeyOf(dClient[table[j]]) = j)'
      <4>1. CASE j = k
        <5>1. table'[j] = n /\ dClient'[table'[j]] = c /\ c # 0
          BY <1>0, <1>2, <1>7, <2>2, <4>1
        <5> QED
          BY <1>1, <1>2, <4>1, <5>1, Zenon DEF KeyOf
      <4>2. CASE j # k
        <5>1. table'[j] = table[j] /\ table[j] \in 1 .. born
          <6> HIDE DEF k
          <6> QED BY <1>0, <1>7, <3>2, <4>2
        <5>2. dClient'[table'[j]] = dClient[table[j]]
          BY <2>1, <2>2, <5>1
        <5>3. dClient[table[j]] # 0 /\ KeyOf(dClient[table[j]]) = j
          BY <3>2, <5>1 DEF KeysInv, TableKeys
        <5> QED
          BY <1>1, <5>2, <5>3, Zenon DEF KeyOf
      <4> QED BY <4>1, <4>2
    <3> QED BY <3>1, <3>2 DEF TableKeys
  <2> QED
    BY <1>3, <1>5, <2>4, <2>5, <2>6 DEF KeysInv
<1> QED
  BY <1>6, <1>7 DEF DispatcherFor

\* Every step keeps events with the keys they were fired for.
LEMMA NextKeys == KeysInv /\ [Next]_vars => KeysInv'
<1> SUFFICES ASSUME KeysInv, [Next]_vars PROVE KeysInv'
  OBVIOUS
<1>0. TypeInv'
  BY NextType DEF KeysInv
<1>1. CASE UNCHANGED vars
  <2>1. UNCHANGED <<initSemantics, clients, events, dClient, born, pev, queue, batch, sent,
                    table, todo, ppc, held>>
    BY <1>1 DEF vars, config, regs, disps, prods
  <2> QED
    BY <1>0, <2>1, KeepsHistory
<1>2. ASSUME NEW p \in Producers, ProducerStep(p) PROVE KeysInv'
  BY <1>0, <1>2, DispatcherForKeys, CallKeys, EnqueueKeys, RemoveKeys DEF ProducerStep
<1>3. ASSUME NEW url \in Urls, NEW iface \in Interfaces, Register(url, iface) PROVE KeysInv'
  BY <1>0, <1>3, RegisterKeys
<1>4. ASSUME NEW p \in Producers, NEW target, FireEvent(p, target) PROVE KeysInv'
  BY <1>0, <1>4, FireKeys
<1>5. ASSUME NEW d \in Dispatchers, CloseDone(d) \/ DispatcherStep(d) PROVE KeysInv'
  BY <1>0, <1>5, ForgetKeys, GoroutineKeys
<1>6. CASE (\E url \in Urls : Deregister(url)) \/ ForgetClients \/ StopDispatchers
  BY <1>0, <1>6, ForgetKeys
<1> QED
  BY <1>1, <1>2, <1>3, <1>4, <1>5, <1>6 DEF Next

\* An event only reaches clients of a key it was fired for, however clients
\* and delivery goroutines are replaced meanwhile (dispatchEvent's snapshot,
\* dispatcherFor's key).
THEOREM EventsStayWithTheirKeys == Spec => []OnlySnapshotKeys
<1>1. KeysInv => OnlySnapshotKeys
  <2> SUFFICES ASSUME KeysInv, NEW c \in Clients, NEW i \in DOMAIN sent[c]
               PROVE  \E o \in events[sent[c][i]].to : KeyOf(o) = KeyOf(c)
    BY DEF OnlySnapshotKeys
  <2>1. sent[c][i] \in Elements(sent[c])
    BY DEF Elements
  <2>2. <<sent[c][i], c>> \in Right
    BY <2>1 DEF KeysInv, SentRight
  <2> QED
    BY <2>2 DEF Right
<1> QED
  BY <1>1, InitKeys, NextKeys, PTL DEF Spec

-----------------------------------------------------------------------------
(* An event reaches a client at most once                                  *)

\* The places an event waits in on its way to a client: due to a client of the
\* snapshot, in the hand of its producer, in a queue, in a batch, and sent.
Due(p, c)   == <<"todo", p, c>>
InHand(p)   == <<"hand", p, 0>>
Queued(d)   == <<"queue", d, 0>>
Batched(d)  == <<"batch", d, 0>>
Received(c) == <<"sent", 0, c>>
Slots == ({"todo"} \X Producers \X Clients) \cup ({"hand"} \X Producers \X {0})
           \cup ({"queue", "batch"} \X Dispatchers \X {0}) \cup ({"sent"} \X {0} \X Clients)

\* The events in a place.
At(s) ==
  CASE s[1] = "todo"  -> IF s[3] \in todo[s[2]] THEN {pev[s[2]]} ELSE {}
    [] s[1] = "hand"  -> IF ppc[s[2]] = "enqueue" THEN {pev[s[2]]} ELSE {}
    [] s[1] = "queue" -> Elements(queue[s[2]])
    [] s[1] = "batch" -> Elements(batch[s[2]])
    [] s[1] = "sent"  -> Elements(sent[s[3]])

\* The client a place leads to, and its key.
Bound(s) ==
  CASE s[1] \in {"todo", "sent"}   -> s[3]
    [] s[1] = "hand"               -> dClient[held[s[2]]]
    [] s[1] \in {"queue", "batch"} -> dClient[s[2]]
KeyAt(s) == KeyOf(Bound(s))

\* No event is in two places that lead to the same key.
OnePlace ==
  \A s, t \in Slots : At(s) \cap At(t) # {} /\ KeyAt(s) = KeyAt(t) => s = t

\* No place holds an event twice.
NoRepeat(s) == \A i, j \in DOMAIN s : s[i] = s[j] => i = j
NoRepeats ==
  /\ \A d \in Dispatchers : NoRepeat(queue[d]) /\ NoRepeat(batch[d])
  /\ \A c \in Clients : NoRepeat(sent[c])

\* The registration under a key is one of that key.
RemotesKeys == \A k \in Key : remotes[k] # 0 => KeyOf(remotes[k]) = k

OnceInv == KeysInv /\ RemotesKeys /\ OnePlace /\ NoRepeats

\* What the places of each kind are and hold.
LEMMA SlotKinds ==
  /\ \A p \in Producers, c \in Clients :
       /\ Due(p, c) \in Slots
       /\ At(Due(p, c)) = IF c \in todo[p] THEN {pev[p]} ELSE {}
       /\ Bound(Due(p, c)) = c
  /\ \A p \in Producers :
       /\ InHand(p) \in Slots
       /\ At(InHand(p)) = IF ppc[p] = "enqueue" THEN {pev[p]} ELSE {}
       /\ Bound(InHand(p)) = dClient[held[p]]
  /\ \A d \in Dispatchers :
       /\ Queued(d) \in Slots /\ Batched(d) \in Slots
       /\ At(Queued(d)) = Elements(queue[d]) /\ At(Batched(d)) = Elements(batch[d])
       /\ Bound(Queued(d)) = dClient[d] /\ Bound(Batched(d)) = dClient[d]
  /\ \A c \in Clients :
       /\ Received(c) \in Slots
       /\ At(Received(c)) = Elements(sent[c])
       /\ Bound(Received(c)) = c
<1>1. \A p \in Producers, c \in Clients :
       /\ Due(p, c) \in Slots
       /\ At(Due(p, c)) = IF c \in todo[p] THEN {pev[p]} ELSE {}
       /\ Bound(Due(p, c)) = c
  BY DEF Slots, At, Bound, Due, InHand, Queued, Batched, Received
<1>2. \A p \in Producers :
       /\ InHand(p) \in Slots
       /\ At(InHand(p)) = IF ppc[p] = "enqueue" THEN {pev[p]} ELSE {}
       /\ Bound(InHand(p)) = dClient[held[p]]
  BY DEF Slots, At, Bound, Due, InHand, Queued, Batched, Received
<1>3. \A d \in Dispatchers :
       /\ Queued(d) \in Slots /\ Batched(d) \in Slots
       /\ At(Queued(d)) = Elements(queue[d]) /\ At(Batched(d)) = Elements(batch[d])
       /\ Bound(Queued(d)) = dClient[d] /\ Bound(Batched(d)) = dClient[d]
  BY DEF Slots, At, Bound, Due, InHand, Queued, Batched, Received
<1>4. \A c \in Clients :
       /\ Received(c) \in Slots
       /\ At(Received(c)) = Elements(sent[c])
       /\ Bound(Received(c)) = c
  BY DEF Slots, At, Bound, Due, InHand, Queued, Batched, Received
<1> QED
  BY <1>1, <1>2, <1>3, <1>4

\* The same of the next state.
LEMMA SlotKindsNext ==
  /\ \A p \in Producers, c \in Clients :
       /\ Due(p, c) \in Slots
       /\ At(Due(p, c))' = IF c \in todo'[p] THEN {pev'[p]} ELSE {}
       /\ Bound(Due(p, c))' = c
  /\ \A p \in Producers :
       /\ InHand(p) \in Slots
       /\ At(InHand(p))' = IF ppc'[p] = "enqueue" THEN {pev'[p]} ELSE {}
       /\ Bound(InHand(p))' = dClient'[held'[p]]
  /\ \A d \in Dispatchers :
       /\ Queued(d) \in Slots /\ Batched(d) \in Slots
       /\ At(Queued(d))' = Elements(queue'[d]) /\ At(Batched(d))' = Elements(batch'[d])
       /\ Bound(Queued(d))' = dClient'[d] /\ Bound(Batched(d))' = dClient'[d]
  /\ \A c \in Clients :
       /\ Received(c) \in Slots
       /\ At(Received(c))' = Elements(sent'[c])
       /\ Bound(Received(c))' = c
<1>1. \A p \in Producers, c \in Clients :
       /\ Due(p, c) \in Slots
       /\ At(Due(p, c))' = IF c \in todo'[p] THEN {pev'[p]} ELSE {}
       /\ Bound(Due(p, c))' = c
  BY DEF Slots, At, Bound, Due, InHand, Queued, Batched, Received
<1>2. \A p \in Producers :
       /\ InHand(p) \in Slots
       /\ At(InHand(p))' = IF ppc'[p] = "enqueue" THEN {pev'[p]} ELSE {}
       /\ Bound(InHand(p))' = dClient'[held'[p]]
  BY DEF Slots, At, Bound, Due, InHand, Queued, Batched, Received
<1>3. \A d \in Dispatchers :
       /\ Queued(d) \in Slots /\ Batched(d) \in Slots
       /\ At(Queued(d))' = Elements(queue'[d]) /\ At(Batched(d))' = Elements(batch'[d])
       /\ Bound(Queued(d))' = dClient'[d] /\ Bound(Batched(d))' = dClient'[d]
  BY DEF Slots, At, Bound, Due, InHand, Queued, Batched, Received
<1>4. \A c \in Clients :
       /\ Received(c) \in Slots
       /\ At(Received(c))' = Elements(sent'[c])
       /\ Bound(Received(c))' = c
  BY DEF Slots, At, Bound, Due, InHand, Queued, Batched, Received
<1> QED
  BY <1>1, <1>2, <1>3, <1>4

LEMMA SlotCases ==
  ASSUME NEW s \in Slots
  PROVE  \/ \E p \in Producers, c \in Clients : s = Due(p, c)
         \/ \E p \in Producers : s = InHand(p)
         \/ \E d \in Dispatchers : s = Queued(d) \/ s = Batched(d)
         \/ \E c \in Clients : s = Received(c)
  BY DEF Slots, Due, InHand, Queued, Batched, Received

\* An event that waits somewhere was fired, for the key it waits for.
LEMMA WaitsRight ==
  ASSUME KeysInv, NEW s \in Slots, NEW e \in At(s)
  PROVE  <<e, Bound(s)>> \in Right /\ e \in 1 .. Len(events) /\ Bound(s) \in 1 .. Len(clients)
<1>0. todo \in [Producers -> SUBSET (1 .. Len(clients))]
  BY DEF KeysInv, TypeInv, TypeOK
<1>1. <<e, Bound(s)>> \in Right
  <2>1. ASSUME NEW p \in Producers, NEW c \in Clients, s = Due(p, c)
        PROVE  <<e, Bound(s)>> \in Right
    <3>1. c \in todo[p] /\ e = pev[p] /\ Bound(s) = c
      BY <2>1, SlotKinds
    <3> QED BY <1>0, <3>1 DEF KeysInv, TodoRight, Right
  <2>2. ASSUME NEW p \in Producers, s = InHand(p) PROVE <<e, Bound(s)>> \in Right
    BY <2>2, SlotKinds DEF KeysInv, HeldRight
  <2>3. ASSUME NEW d \in Dispatchers, s = Queued(d) \/ s = Batched(d)
        PROVE  <<e, Bound(s)>> \in Right
    BY <2>3, SlotKinds DEF KeysInv, QueueRight, BatchRight
  <2>4. ASSUME NEW c \in Clients, s = Received(c) PROVE <<e, Bound(s)>> \in Right
    BY <2>4, SlotKinds DEF KeysInv, SentRight
  <2> QED BY <2>1, <2>2, <2>3, <2>4, SlotCases
<1> QED
  BY <1>1 DEF Right

\* Places other than y lose events at most, and lead where they led, when
\* clients, goroutines and producers keep what they have.
LEMMA Elsewhere ==
  ASSUME KeysInv, NEW y,
         \A c \in 1 .. Len(clients) : KeyOf(c)' = KeyOf(c),
         \A d \in Dispatchers : dClient[d] # 0 => dClient'[d] = dClient[d],
         \A p \in Producers : \A c \in todo'[p] :
           Due(p, c) # y => c \in todo[p] /\ pev'[p] = pev[p],
         \A p \in Producers : InHand(p) # y /\ ppc'[p] = "enqueue" =>
           ppc[p] = "enqueue" /\ held'[p] = held[p] /\ pev'[p] = pev[p],
         \A d \in Dispatchers : Queued(d) # y =>
           Elements(queue'[d]) \subseteq Elements(queue[d]),
         \A d \in Dispatchers : Batched(d) # y =>
           Elements(batch'[d]) \subseteq Elements(batch[d]),
         \A c \in Clients : Received(c) # y =>
           Elements(sent'[c]) \subseteq Elements(sent[c])
  PROVE  \A s \in Slots : s # y => /\ At(s)' \subseteq At(s)
                                   /\ At(s)' # {} => KeyAt(s)' = KeyAt(s)
<1> SUFFICES ASSUME NEW s \in Slots, s # y, NEW e \in At(s)'
             PROVE  e \in At(s) /\ KeyAt(s)' = KeyAt(s)
  OBVIOUS
<1>1. e \in At(s) /\ (Bound(s) # 0 => Bound(s)' = Bound(s))
  <2>1. ASSUME NEW p \in Producers, NEW c \in Clients, s = Due(p, c)
        PROVE  e \in At(s) /\ Bound(s)' = Bound(s)
    <3>1. c \in todo'[p] /\ e = pev'[p] /\ Bound(s)' = c
      BY <2>1, SlotKindsNext
    <3>2. c \in todo[p] /\ e = pev[p]
      BY <2>1, <3>1
    <3> QED BY <2>1, <3>1, <3>2, SlotKinds
  <2>2. ASSUME NEW p \in Producers, s = InHand(p)
        PROVE  e \in At(s) /\ (Bound(s) # 0 => Bound(s)' = Bound(s))
    <3>1. ppc'[p] = "enqueue" /\ e = pev'[p] /\ Bound(s)' = dClient'[held'[p]]
      BY <2>2, SlotKindsNext
    <3>2. ppc[p] = "enqueue" /\ e = pev[p] /\ held'[p] = held[p]
      BY <2>2, <3>1
    <3>3. held[p] \in Dispatchers
      <4>1. held[p] \in 1 .. born
        BY <3>2 DEF KeysInv, HeldRight
      <4>2. born \in 0 .. MaxDispatchers /\ MaxDispatchers \in Nat
        BY DispatchAssumption DEF KeysInv, TypeInv, TypeOK
      <4> QED BY <4>1, <4>2 DEF Dispatchers
    <3> QED BY <2>2, <3>1, <3>2, <3>3, SlotKinds
  <2>3. ASSUME NEW d \in Dispatchers, s = Queued(d) \/ s = Batched(d)
        PROVE  e \in At(s) /\ (Bound(s) # 0 => Bound(s)' = Bound(s))
    <3>1. CASE s = Queued(d)
      BY <2>3, <3>1, SlotKinds, SlotKindsNext
    <3>2. CASE s = Batched(d)
      BY <2>3, <3>2, SlotKinds, SlotKindsNext
    <3> QED BY <2>3, <3>1, <3>2
  <2>4. ASSUME NEW c \in Clients, s = Received(c)
        PROVE  e \in At(s) /\ Bound(s)' = Bound(s)
    BY <2>4, SlotKinds, SlotKindsNext
  <2> QED BY <2>1, <2>2, <2>3, <2>4, SlotCases
<1>2. Bound(s) \in 1 .. Len(clients)
  BY <1>1, WaitsRight
<1>3. Bound(s)' = Bound(s)
  BY <1>1, <1>2
<1>4. PICK c \in 1 .. Len(clients) : c = Bound(s) /\ c = Bound(s)'
  BY <1>2, <1>3
<1>5. KeyOf(c)' = KeyOf(c)
  OBVIOUS
<1> QED
  BY <1>1, <1>4, <1>5, Zenon DEF KeyAt, KeyOf

\* Events of place x that move to place y, whose key is that of x, are still in one place.
LEMMA Moves ==
  ASSUME OnePlace, NEW x \in Slots, NEW y \in Slots, NEW E,
         E \subseteq At(x), At(x)' \cap E = {}, KeyAt(y)' = KeyAt(x),
         At(y)' \subseteq At(y) \cup E, At(y) # {} => KeyAt(y)' = KeyAt(y),
         \A s \in Slots : s # y => /\ At(s)' \subseteq At(s)
                                   /\ At(s)' # {} => KeyAt(s)' = KeyAt(s)
  PROVE  OnePlace'
<1>1. ASSUME NEW s \in Slots, NEW t \in Slots, NEW e, e \in At(s)', e \in At(t)',
             KeyAt(s)' = KeyAt(t)', s # t, t # y
      PROVE  FALSE
  <2>1. e \in At(t) /\ KeyAt(t)' = KeyAt(t)
    BY <1>1
  <2>2. s # y => e \in At(s) /\ KeyAt(s)' = KeyAt(s)
    BY <1>1
  <2>3. s = y /\ e \in At(y) => KeyAt(s) = KeyAt(t) /\ e \in At(s)
    BY <1>1, <2>1
  <2>4. s = y /\ e \in E => KeyAt(x) = KeyAt(t) /\ e \in At(x) /\ t # x
    BY <1>1, <2>1
  <2>5. s = y => e \in At(y) \/ e \in E
    BY <1>1
  <2> QED
    BY <1>1, <2>1, <2>2, <2>3, <2>4, <2>5 DEF OnePlace
<1>2. Slots' = Slots
  BY DEF Slots
<1>3. ASSUME NEW s \in Slots, NEW t \in Slots, At(s)' \cap At(t)' # {}, KeyAt(s)' = KeyAt(t)'
      PROVE  s = t
  <2>1. PICK e : e \in At(s)' /\ e \in At(t)'
    BY <1>3
  <2> QED BY <1>1, <1>3, <2>1
<1> QED
  BY <1>2, <1>3, Zenon DEF OnePlace

\* Nothing moves.
LEMMA Stays ==
  ASSUME OnePlace,
         \A s \in Slots : /\ At(s)' \subseteq At(s)
                          /\ At(s)' # {} => KeyAt(s)' = KeyAt(s)
  PROVE  OnePlace'
<1>1. ASSUME NEW s \in Slots, NEW t \in Slots, At(s)' \cap At(t)' # {}, KeyAt(s)' = KeyAt(t)'
      PROVE  s = t
  BY <1>1 DEF OnePlace
<1>2. Slots' = Slots
  BY DEF Slots
<1> QED
  BY <1>1, <1>2, Zenon DEF OnePlace

\* Sequences without repetition.
LEMMA NoRepeatAppend ==
  ASSUME NEW S, NEW s \in Seq(S), NEW x \in S, NoRepeat(s), x \notin Elements(s)
  PROVE  NoRepeat(Append(s, x))
<1>1. /\ Len(s) \in Nat /\ DOMAIN s = 1 .. Len(s)
      /\ DOMAIN Append(s, x) = 1 .. Len(s) + 1
      /\ \A i \in 1 .. Len(s) : Append(s, x)[i] = s[i]
      /\ Append(s, x)[Len(s) + 1] = x
  OBVIOUS
<1> QED
  BY <1>1 DEF NoRepeat, Elements

LEMMA NoRepeatHeadTail ==
  ASSUME NEW S, NEW s \in Seq(S), s # <<>>, NoRepeat(s)
  PROVE  NoRepeat(Tail(s)) /\ Head(s) \notin Elements(Tail(s))
<1>1. /\ Len(s) \in Nat \ {0} /\ DOMAIN s = 1 .. Len(s)
      /\ Head(s) = s[1]
      /\ DOMAIN Tail(s) = 1 .. Len(s) - 1
      /\ \A i \in 1 .. Len(s) - 1 : Tail(s)[i] = s[i + 1]
  OBVIOUS
<1>2. \A i \in 1 .. Len(s) - 1 : i + 1 \in 1 .. Len(s) /\ i + 1 # 1
  BY <1>1
<1>3. Head(s) \notin Elements(Tail(s))
  BY <1>1, <1>2 DEF NoRepeat, Elements
<1>4. ASSUME NEW i \in DOMAIN Tail(s), NEW j \in DOMAIN Tail(s), Tail(s)[i] = Tail(s)[j]
      PROVE  i = j
  <2>1. s[i + 1] = s[j + 1] /\ i + 1 \in DOMAIN s /\ j + 1 \in DOMAIN s
    BY <1>1, <1>2, <1>4
  <2>2. i + 1 = j + 1
    BY <2>1 DEF NoRepeat
  <2> QED BY <1>1, <2>2
<1> QED
  BY <1>3, <1>4 DEF NoRepeat

LEMMA NoRepeatConcat ==
  ASSUME NEW S, NEW s \in Seq(S), NEW t \in Seq(S), NoRepeat(s), NoRepeat(t),
         Elements(s) \cap Elements(t) = {}
  PROVE  NoRepeat(s \o t)
<1>1. /\ Len(s) \in Nat /\ Len(t) \in Nat /\ DOMAIN s = 1 .. Len(s) /\ DOMAIN t = 1 .. Len(t)
      /\ DOMAIN (s \o t) = 1 .. Len(s) + Len(t)
      /\ \A i \in 1 .. Len(s) + Len(t) :
           (s \o t)[i] = IF i <= Len(s) THEN s[i] ELSE t[i - Len(s)]
  OBVIOUS
<1>2. ASSUME NEW i \in DOMAIN (s \o t), NEW j \in DOMAIN (s \o t), (s \o t)[i] = (s \o t)[j]
      PROVE  i = j
  <2>1. CASE i <= Len(s) /\ j <= Len(s)
    <3>1. s[i] = s[j] /\ i \in DOMAIN s /\ j \in DOMAIN s
      BY <1>1, <1>2, <2>1
    <3> QED BY <3>1 DEF NoRepeat
  <2>2. CASE ~(i <= Len(s)) /\ ~(j <= Len(s))
    <3>1. /\ t[i - Len(s)] = t[j - Len(s)]
          /\ i - Len(s) \in DOMAIN t /\ j - Len(s) \in DOMAIN t
      BY <1>1, <1>2, <2>2
    <3>2. i - Len(s) = j - Len(s)
      BY <3>1 DEF NoRepeat
    <3> QED BY <1>1, <3>2
  <2>3. CASE i <= Len(s) /\ ~(j <= Len(s))
    <3>1. /\ i \in DOMAIN s /\ j - Len(s) \in DOMAIN t /\ s[i] = t[j - Len(s)]
      BY <1>1, <1>2, <2>3
    <3> QED BY <3>1 DEF Elements
  <2>4. CASE ~(i <= Len(s)) /\ j <= Len(s)
    <3>1. /\ j \in DOMAIN s /\ i - Len(s) \in DOMAIN t /\ s[j] = t[i - Len(s)]
      BY <1>1, <1>2, <2>4
    <3> QED BY <3>1 DEF Elements
  <2> QED BY <2>1, <2>2, <2>3, <2>4
<1> QED
  BY <1>2 DEF NoRepeat

\* The registration under a key stays one of that key.
LEMMA NextRemotes == OnceInv /\ [Next]_vars => RemotesKeys'
<1> SUFFICES ASSUME OnceInv, [Next]_vars PROVE RemotesKeys'
  OBVIOUS
<1>0. /\ TypeOK /\ RemotesKeys
      /\ remotes \in [Key -> 0 .. Len(clients)] /\ Len(clients) \in Nat
  BY DEF OnceInv, KeysInv, TypeInv, TypeOK
<1>1. ASSUME UNCHANGED <<initSemantics, clients>>, \A k \in Key : remotes'[k] \in {0, remotes[k]}
      PROVE  RemotesKeys'
  BY <1>0, <1>1, Zenon DEF RemotesKeys, KeyOf
<1>2. ASSUME NEW c, remotes' = WithoutClient(c), UNCHANGED <<initSemantics, clients>>
      PROVE  RemotesKeys'
  <2>1. \A k \in Key : remotes'[k] \in {0, remotes[k]}
    <3> DEFINE j == KeyOf(c)
    <3>1. remotes' = remotes \/ remotes' = [remotes EXCEPT ![j] = 0]
      BY <1>2 DEF WithoutClient
    <3> HIDE DEF j
    <3> QED BY <1>0, <3>1
  <2> QED BY <1>1, <1>2, <2>1
<1>3. ASSUME NEW url \in Urls, NEW iface \in Interfaces, Register(url, iface)
      PROVE  RemotesKeys'
  <2> DEFINE k == IF initSemantics THEN url ELSE iface
  <2>0. PICK n \in Nat : n = Len(clients) + 1
    BY <1>0
  <2>1. /\ initSemantics' = initSemantics /\ remotes' = [remotes EXCEPT ![k] = n]
        /\ clients' = Append(clients, [url |-> url, iface |-> iface])
    BY <1>3, <2>0 DEF Register, config
  <2>2. KeyOf(n)' = k
    BY <1>0, <2>0, <2>1, KeyOfNew
  <2> HIDE DEF k
  <2>3. ASSUME NEW j \in Key, remotes'[j] # 0 PROVE KeyOf(remotes[j])' = j
    <3>1. CASE j = k
      <4>1. remotes'[j] = n
        BY <1>0, <2>1, <3>1
      <4>2. KeyOf(remotes[j])' = KeyOf(n)'
        BY <4>1, Zenon DEF KeyOf
      <4> QED BY <2>2, <3>1, <4>2
    <3>2. CASE j # k
      <4>1. remotes'[j] = remotes[j] /\ remotes[j] \in 1 .. Len(clients)
        BY <1>0, <2>1, <2>3, <3>2
      <4>2. PICK c \in 1 .. Len(clients) : c = remotes[j]
        BY <4>1
      <4>3. KeyOf(c)' = KeyOf(c) /\ KeyOf(c) = j
        BY <1>0, <2>1, <2>3, <4>1, <4>2, KeyOfSame DEF RemotesKeys
      <4> QED BY <2>1, <4>1, <4>2, <4>3, Zenon DEF KeyOf
    <3> QED BY <3>1, <3>2
  <2> QED BY <2>3, Zenon DEF RemotesKeys
<1>4. ASSUME NEW url \in Urls, Deregister(url) PROVE RemotesKeys'
  <2>1. UNCHANGED <<initSemantics, clients>> /\ \E k \in Key : remotes' = [remotes EXCEPT ![k] = 0]
    BY <1>4 DEF Deregister, config
  <2> QED BY <1>0, <1>1, <2>1
<1>5. CASE ForgetClients
  BY <1>1, <1>5 DEF ForgetClients, config
<1>6. ASSUME NEW p \in Producers, RemoveFailed(p) PROVE RemotesKeys'
  BY <1>2, <1>6 DEF RemoveFailed, config
<1>7. ASSUME NEW d \in Dispatchers, OnGone(d) PROVE RemotesKeys'
  BY <1>2, <1>7 DEF OnGone, config
<1>8. CASE UNCHANGED <<initSemantics, clients, remotes>>
  BY <1>1, <1>8
<1>9. UNCHANGED vars \/ StopDispatchers
        \/ (\E d \in Dispatchers : CloseDone(d) \/ Take(d) \/ Return(d) \/ Collect(d)
              \/ EndCollect(d) \/ Deliver(d))
        \/ (\E p \in Producers, target \in Interfaces \cup {AnyTarget} : FireEvent(p, target))
        \/ (\E p \in Producers : Enqueue(p)
              \/ \E c \in todo[p] : DispatcherFor(p, c) \/ CallEvent(p, c))
        => UNCHANGED <<initSemantics, clients, remotes>>
  BY DEF vars, StopDispatchers, CloseDone, Take, Return, Collect, EndCollect, Deliver,
         FireEvent, Enqueue, DispatcherFor, CallEvent, config, regs
<1> QED
  BY <1>3, <1>4, <1>5, <1>6, <1>7, <1>8, <1>9 DEF Next, ProducerStep, DispatcherStep

\* Steps that add nothing to a queue, a batch or to what was sent.
LEMMA KeepsOnce ==
  ASSUME OnceInv,
         \A c \in 1 .. Len(clients) : KeyOf(c)' = KeyOf(c),
         UNCHANGED <<dClient, pev, queue, batch, sent>>,
         \A p \in Producers : /\ todo'[p] \subseteq todo[p]
                              /\ ppc'[p] = "enqueue" => ppc[p] = "enqueue" /\ held'[p] = held[p]
  PROVE  OnePlace' /\ NoRepeats'
<1>1. /\ \A d \in Dispatchers : dClient[d] # 0 => dClient'[d] = dClient[d]
      /\ \A p \in Producers : \A c \in todo'[p] : c \in todo[p] /\ pev'[p] = pev[p]
      /\ \A p \in Producers : ppc'[p] = "enqueue" =>
           ppc[p] = "enqueue" /\ held'[p] = held[p] /\ pev'[p] = pev[p]
      /\ \A d \in Dispatchers : Elements(queue'[d]) \subseteq Elements(queue[d])
      /\ \A d \in Dispatchers : Elements(batch'[d]) \subseteq Elements(batch[d])
      /\ \A c \in Clients : Elements(sent'[c]) \subseteq Elements(sent[c])
  OBVIOUS
<1>2. PICK z : z \notin Slots
  <2>1. {s \in Slots : s \notin s} \notin Slots
    OBVIOUS
  <2> QED BY <2>1
<1>3. \A s \in Slots : s # z => /\ At(s)' \subseteq At(s)
                                /\ At(s)' # {} => KeyAt(s)' = KeyAt(s)
  BY <1>1, Elsewhere, Zenon DEF OnceInv
<1>4. OnePlace'
  BY <1>2, <1>3, Stays DEF OnceInv
<1>5. NoRepeats'
  BY Zenon DEF OnceInv, NoRepeats
<1> QED
  BY <1>4, <1>5

\* Registrations, their ends, and the ends of goroutines.
LEMMA QuietOnce ==
  ASSUME OnceInv,
         \/ UNCHANGED vars
         \/ \E url \in Urls, iface \in Interfaces : Register(url, iface)
         \/ \E url \in Urls : Deregister(url)
         \/ ForgetClients \/ StopDispatchers
         \/ \E d \in Dispatchers : CloseDone(d) \/ Return(d) \/ EndCollect(d) \/ OnGone(d)
         \/ \E p \in Producers : RemoveFailed(p)
  PROVE  OnePlace' /\ NoRepeats'
<1>0. /\ TypeOK /\ ppc \in [Producers -> {"loop", "enqueue", "failed"}] /\ held \in [Producers -> Nat]
  BY DEF OnceInv, KeysInv, TypeInv, TypeOK
<1>1. UNCHANGED <<initSemantics, dClient, pev, queue, batch, sent, todo>>
  BY DEF vars, Register, Deregister, ForgetClients, StopDispatchers, CloseDone, Return,
         EndCollect, OnGone, RemoveFailed, config, prods, disps
<1>2. \A c \in 1 .. Len(clients) : KeyOf(c)' = KeyOf(c)
  <2>1. ASSUME NEW url \in Urls, NEW iface \in Interfaces, Register(url, iface)
        PROVE  \A c \in 1 .. Len(clients) : KeyOf(c)' = KeyOf(c)
    <3>1. clients' = Append(clients, [url |-> url, iface |-> iface])
      BY <2>1 DEF Register
    <3> QED BY <1>0, <1>1, <3>1, KeyOfSame
  <2>2. ASSUME clients' = clients PROVE \A c \in 1 .. Len(clients) : KeyOf(c)' = KeyOf(c)
    BY <1>1, <2>2, Zenon DEF KeyOf
  <2>3. clients' = clients \/ \E url \in Urls, iface \in Interfaces : Register(url, iface)
    BY DEF vars, Deregister, ForgetClients, StopDispatchers, CloseDone, Return,
           EndCollect, OnGone, RemoveFailed, regs
  <2> QED BY <2>1, <2>2, <2>3
<1>3. \A p \in Producers : ppc'[p] = "enqueue" => ppc[p] = "enqueue" /\ held'[p] = held[p]
  <2>1. ASSUME NEW q \in Producers, RemoveFailed(q)
        PROVE  \A p \in Producers : ppc'[p] = "enqueue" => ppc[p] = "enqueue" /\ held'[p] = held[p]
    BY <1>0, <2>1 DEF RemoveFailed
  <2>2. UNCHANGED <<ppc, held>> \/ \E p \in Producers : RemoveFailed(p)
    BY DEF vars, Register, Deregister, ForgetClients, StopDispatchers, CloseDone, Return,
           EndCollect, OnGone, prods
  <2> QED BY <2>1, <2>2
<1> QED
  BY <1>1, <1>2, <1>3, KeepsOnce

\* A new event is nowhere yet, and its snapshot has one client per key.
LEMMA FireOnce ==
  ASSUME OnceInv, NEW p \in Producers, NEW target, FireEvent(p, target)
  PROVE  OnePlace' /\ NoRepeats'
<1>0. /\ pev \in [Producers -> 0 .. MaxEvents]
      /\ todo \in [Producers -> SUBSET (1 .. Len(clients))]
      /\ remotes \in [Key -> 0 .. Len(clients)] /\ Len(events) \in Nat
      /\ OnePlace /\ KeysInv /\ RemotesKeys
  BY DEF OnceInv, KeysInv, TypeInv, TypeOK
<1>1. PICK n : n = Len(events) + 1
  OBVIOUS
<1>2. /\ ppc[p] = "loop" /\ todo[p] = {}
      /\ UNCHANGED <<initSemantics, clients, dClient, queue, batch, sent, ppc, held>>
      /\ pev' = [pev EXCEPT ![p] = n]
      /\ todo' = [todo EXCEPT ![p] = Snapshot(target)]
  BY <1>1 DEF FireEvent, config, regs, disps
<1>3. /\ pev'[p] = n /\ todo'[p] = Snapshot(target)
      /\ \A q \in Producers \ {p} : pev'[q] = pev[q] /\ todo'[q] = todo[q]
  BY <1>0, <1>2, Zenon
<1>4. \A c, d \in Snapshot(target) : KeyOf(c) = KeyOf(d) => c = d
  BY <1>0 DEF Snapshot, Registered, RemotesKeys
<1>5. \A x : KeyOf(x)' = KeyOf(x)
  BY <1>2, Zenon DEF KeyOf
\* Where the event fired is due, and all other places.
<1> DEFINE Mine(s) == \E c \in Clients : s = Due(p, c)
<1>6. ASSUME NEW c \in Clients
      PROVE  /\ At(Due(p, c))' = IF c \in Snapshot(target) THEN {n} ELSE {}
             /\ KeyAt(Due(p, c))' = KeyOf(c)
  <2>1. /\ At(Due(p, c))' = IF c \in todo'[p] THEN {pev'[p]} ELSE {}
        /\ Bound(Due(p, c))' = c
    BY SlotKindsNext
  <2>2. KeyAt(Due(p, c))' = KeyOf(c)'
    BY <2>1, Zenon DEF KeyAt, KeyOf
  <2> QED BY <1>3, <1>5, <2>1, <2>2
<1>7. ASSUME NEW s \in Slots, ~Mine(s)
      PROVE  At(s)' \subseteq At(s) /\ (At(s)' # {} => KeyAt(s)' = KeyAt(s)) /\ n \notin At(s)'
  <2> SUFFICES ASSUME NEW e \in At(s)'
               PROVE  e \in At(s) /\ KeyAt(s)' = KeyAt(s) /\ e # n
    OBVIOUS
  <2>1. e \in At(s) /\ Bound(s)' = Bound(s)
    <3>1. ASSUME NEW q \in Producers, NEW c \in Clients, s = Due(q, c)
          PROVE  e \in At(s) /\ Bound(s)' = Bound(s)
      <4>1. q # p
        BY <1>7, <3>1
      <4>2. pev'[q] = pev[q] /\ todo'[q] = todo[q]
        BY <1>3, <4>1
      <4> QED BY <3>1, <4>2, SlotKinds, SlotKindsNext
    <3>2. ASSUME NEW q \in Producers, s = InHand(q) PROVE e \in At(s) /\ Bound(s)' = Bound(s)
      <4>1. /\ ppc'[q] = "enqueue" /\ e = pev'[q] /\ Bound(s)' = dClient'[held'[q]]
        BY <3>2, SlotKindsNext
      <4>2. q # p
        BY <1>2, <4>1
      <4>3. pev'[q] = pev[q]
        BY <1>3, <4>2
      <4> QED BY <1>2, <3>2, <4>1, <4>3, SlotKinds
    <3>3. ASSUME NEW d \in Dispatchers, s = Queued(d) \/ s = Batched(d)
          PROVE  e \in At(s) /\ Bound(s)' = Bound(s)
      BY <1>2, <3>3, SlotKinds, SlotKindsNext
    <3>4. ASSUME NEW c \in Clients, s = Received(c) PROVE e \in At(s) /\ Bound(s)' = Bound(s)
      BY <1>2, <3>4, SlotKinds, SlotKindsNext
    <3> QED BY <3>1, <3>2, <3>3, <3>4, SlotCases
  <2>2. e \in 1 .. Len(events)
    BY <1>0, <2>1, WaitsRight
  <2>3. KeyAt(s)' = KeyAt(s)
    BY <1>2, <2>1, Zenon DEF KeyAt, KeyOf
  <2> QED BY <1>0, <1>1, <2>1, <2>2, <2>3
<1>8. ASSUME NEW s \in Slots, NEW t \in Slots, NEW e, e \in At(s)', e \in At(t)', KeyAt(s)' = KeyAt(t)'
      PROVE  s = t
  <2>1. CASE ~Mine(s) /\ ~Mine(t)
    <3>1. e \in At(s) /\ e \in At(t) /\ KeyAt(s) = KeyAt(t)
      <4> HIDE DEF Mine
      <4> QED BY <1>7, <1>8, <2>1
    <3> QED BY <1>0, <3>1 DEF OnePlace
  <2>2. CASE Mine(s) /\ Mine(t)
    <3>1. PICK c \in Clients, d \in Clients : s = Due(p, c) /\ t = Due(p, d)
      BY <2>2
    <3>2. c \in Snapshot(target) /\ d \in Snapshot(target) /\ KeyOf(c) = KeyOf(d)
      BY <1>6, <1>8, <3>1
    <3> QED BY <1>4, <3>1, <3>2
  <2>3. ASSUME NEW a \in Slots, NEW b \in Slots, Mine(a), ~Mine(b), e \in At(a)', e \in At(b)'
        PROVE  FALSE
    <3>1. e = n
      BY <1>6, <2>3
    <3> HIDE DEF Mine
    <3> QED BY <1>7, <2>3, <3>1
  <2> HIDE DEF Mine
  <2> QED BY <1>8, <2>1, <2>2, <2>3
<1>9. OnePlace'
  <2>1. Slots' = Slots
    BY DEF Slots
  <2>2. ASSUME NEW s \in Slots, NEW t \in Slots, At(s)' \cap At(t)' # {}, KeyAt(s)' = KeyAt(t)'
        PROVE  s = t
    <3>1. PICK e : e \in At(s)' /\ e \in At(t)'
      BY <2>2
    <3> HIDE DEF Mine
    <3> QED BY <1>8, <2>2, <3>1
  <2> QED BY <2>1, <2>2, Zenon DEF OnePlace
<1>10. NoRepeats'
  BY <1>2, Zenon DEF OnceInv, NoRepeats
<1> QED
  BY <1>9, <1>10

\* enqueue puts the event at the end of the queue, or loses it.
LEMMA EnqueueOnce ==
  ASSUME OnceInv, NEW p \in Producers, Enqueue(p)
  PROVE  OnePlace' /\ NoRepeats'
<1>0. /\ ppc \in [Producers -> {"loop", "enqueue", "failed"}] /\ held \in [Producers -> Nat]
      /\ queue \in [Dispatchers -> Seq(Events)] /\ born \in 0 .. MaxDispatchers /\ MaxDispatchers \in Nat
      /\ OnePlace /\ NoRepeats /\ KeysInv
  BY DispatchAssumption DEF OnceInv, KeysInv, TypeInv, TypeOK
<1>1. PICK d : d = held[p]
  OBVIOUS
<1>2. /\ ppc[p] = "enqueue" /\ ppc' = [ppc EXCEPT ![p] = "loop"] /\ held' = [held EXCEPT ![p] = 0]
      /\ UNCHANGED <<initSemantics, clients, dClient, pev, batch, sent, todo>>
      /\ queue' = queue \/ queue' = [queue EXCEPT ![d] = Append(@, pev[p])]
  BY <1>1 DEF Enqueue, config, regs
<1>3. \A c : KeyOf(c)' = KeyOf(c)
  BY <1>2, Zenon DEF KeyOf
<1>4. /\ ppc'[p] = "loop"
      /\ \A q \in Producers : /\ todo'[q] = todo[q] /\ pev'[q] = pev[q]
                              /\ ppc'[q] = "enqueue" => ppc[q] = "enqueue" /\ held'[q] = held[q]
  BY <1>0, <1>2
<1>5. CASE queue' = queue
  <2>1. \A q \in Producers : /\ todo'[q] \subseteq todo[q]
                             /\ ppc'[q] = "enqueue" => ppc[q] = "enqueue" /\ held'[q] = held[q]
    BY <1>4
  <2> QED BY <1>2, <1>3, <1>5, <2>1, KeepsOnce
<1>6. CASE queue' = [queue EXCEPT ![d] = Append(@, pev[p])]
  <2>1. d \in 1 .. born /\ d \in Dispatchers
    <3>1. d \in 1 .. born
      BY <1>0, <1>1, <1>2 DEF KeysInv, HeldRight
    <3> QED BY <1>0, <3>1 DEF Dispatchers
  <2>2. pev[p] \in Events /\ queue[d] \in Seq(Events)
    BY <1>0, <1>2, <2>1, HandsOverAnEvent DEF KeysInv
  <2>3. /\ queue'[d] = Append(queue[d], pev[p])
        /\ \A f \in Dispatchers \ {d} : queue'[f] = queue[f]
    BY <1>0, <1>6, <2>1
  <2>4. Elements(queue'[d]) = Elements(queue[d]) \cup {pev[p]}
    BY <2>2, <2>3, ElementsAppend
  <2>5. /\ InHand(p) \in Slots /\ Queued(d) \in Slots
        /\ At(InHand(p)) = {pev[p]} /\ At(InHand(p))' = {}
        /\ At(Queued(d)) = Elements(queue[d]) /\ At(Queued(d))' = Elements(queue'[d])
        /\ Bound(InHand(p)) = dClient[d] /\ Bound(Queued(d)) = dClient[d]
        /\ Bound(Queued(d))' = dClient[d]
    BY <1>1, <1>2, <1>4, <2>1, SlotKinds, SlotKindsNext
  <2>6. KeyAt(Queued(d))' = KeyAt(Queued(d)) /\ KeyAt(InHand(p)) = KeyAt(Queued(d))
    BY <1>2, <2>5, Zenon DEF KeyAt, KeyOf
  <2>7. InHand(p) # Queued(d)
    BY DEF InHand, Queued
  <2>8. \A s \in Slots : s # Queued(d) => /\ At(s)' \subseteq At(s)
                                          /\ At(s)' # {} => KeyAt(s)' = KeyAt(s)
    <3>1. /\ \A f \in Dispatchers : dClient[f] # 0 => dClient'[f] = dClient[f]
          /\ \A q \in Producers : \A c \in todo'[q] : c \in todo[q] /\ pev'[q] = pev[q]
          /\ \A q \in Producers : ppc'[q] = "enqueue" =>
               ppc[q] = "enqueue" /\ held'[q] = held[q] /\ pev'[q] = pev[q]
          /\ \A f \in Dispatchers : Queued(f) # Queued(d) =>
               Elements(queue'[f]) \subseteq Elements(queue[f])
          /\ \A f \in Dispatchers : Elements(batch'[f]) \subseteq Elements(batch[f])
          /\ \A c \in Clients : Elements(sent'[c]) \subseteq Elements(sent[c])
      BY <1>2, <1>4, <2>3
    <3> QED BY <1>0, <1>3, <3>1, Elsewhere, Zenon
  <2>9. OnePlace'
    <3>1. /\ {pev[p]} \subseteq At(InHand(p)) /\ At(InHand(p))' \cap {pev[p]} = {}
          /\ At(Queued(d))' \subseteq At(Queued(d)) \cup {pev[p]}
          /\ KeyAt(Queued(d))' = KeyAt(InHand(p))
      BY <2>4, <2>5, <2>6
    <3> QED BY <1>0, <2>5, <2>6, <2>8, <3>1, Moves
  <2>10. NoRepeat(queue'[d])
    <3>1. pev[p] \notin Elements(queue[d])
      BY <1>0, <2>5, <2>6, <2>7 DEF OnePlace
    <3>2. NoRepeat(queue[d])
      BY <1>0, <2>1 DEF NoRepeats
    <3> QED BY <2>2, <2>3, <3>1, <3>2, NoRepeatAppend
  <2>11. NoRepeats'
    BY <1>0, <1>2, <2>3, <2>10, Zenon DEF NoRepeats
  <2> QED BY <2>9, <2>11
<1> QED
  BY <1>2, <1>5, <1>6

\* Without batching the event goes straight to the client, at most.
LEMMA CallOnce ==
  ASSUME OnceInv, NEW p \in Producers, NEW c \in todo[p], CallEvent(p, c)
  PROVE  OnePlace' /\ NoRepeats'
<1>0. /\ ppc \in [Producers -> {"loop", "enqueue", "failed"}] /\ held \in [Producers -> Nat]
      /\ todo \in [Producers -> SUBSET (1 .. Len(clients))]
      /\ Len(clients) \in Nat /\ Len(clients) <= MaxClients /\ MaxClients \in Nat
      /\ sent \in [Clients -> Seq(Events)]
      /\ OnePlace /\ NoRepeats /\ KeysInv
  <2>1. TypeOK /\ OnePlace /\ NoRepeats /\ KeysInv
    BY DEF OnceInv, KeysInv, TypeInv
  <2> QED BY <2>1, DispatchAssumption DEF TypeOK
<1>1. c \in Clients /\ sent[c] \in Seq(Events) /\ pev[p] \in Events
  <2>1. c \in Clients
    BY <1>0 DEF Clients
  <2> QED BY <1>0, <2>1, HandsOverAnEvent DEF KeysInv
<1>2. /\ ppc[p] = "loop" /\ todo' = [todo EXCEPT ![p] = @ \ {c}]
      /\ UNCHANGED <<initSemantics, clients, dClient, pev, batch, queue>>
      /\ sent' \in {sent, [sent EXCEPT ![c] = Append(@, pev[p])]}
      /\ \/ UNCHANGED <<ppc, held>>
         \/ ppc' = [ppc EXCEPT ![p] = "failed"] /\ held' = [held EXCEPT ![p] = c]
  BY DEF CallEvent, config, regs, disps
<1>3. \A x : KeyOf(x)' = KeyOf(x)
  BY <1>2, Zenon DEF KeyOf
<1>4. /\ c \notin todo'[p]
      /\ \A q \in Producers : /\ todo'[q] \subseteq todo[q] /\ pev'[q] = pev[q]
                              /\ ppc'[q] = "enqueue" => ppc[q] = "enqueue" /\ held'[q] = held[q]
  BY <1>0, <1>2
<1>5. CASE sent' = sent
  BY <1>2, <1>3, <1>4, <1>5, KeepsOnce
<1>6. CASE sent' = [sent EXCEPT ![c] = Append(@, pev[p])]
  <2>1. /\ sent'[c] = Append(sent[c], pev[p])
        /\ \A b \in Clients \ {c} : sent'[b] = sent[b]
    BY <1>0, <1>1, <1>6
  <2>2. Elements(sent'[c]) = Elements(sent[c]) \cup {pev[p]}
    BY <1>1, <2>1, ElementsAppend
  <2>3. /\ Due(p, c) \in Slots /\ Received(c) \in Slots
        /\ At(Due(p, c)) = {pev[p]} /\ At(Due(p, c))' = {}
        /\ At(Received(c)) = Elements(sent[c]) /\ At(Received(c))' = Elements(sent'[c])
        /\ Bound(Due(p, c)) = c /\ Bound(Received(c)) = c
        /\ Bound(Received(c))' = c
    BY <1>1, <1>2, <1>4, SlotKinds, SlotKindsNext
  <2>4. KeyAt(Received(c))' = KeyAt(Received(c)) /\ KeyAt(Due(p, c)) = KeyAt(Received(c))
    BY <1>2, <2>3, Zenon DEF KeyAt, KeyOf
  <2>5. Due(p, c) # Received(c)
    BY DEF Due, Received
  <2>6. \A s \in Slots : s # Received(c) => /\ At(s)' \subseteq At(s)
                                            /\ At(s)' # {} => KeyAt(s)' = KeyAt(s)
    <3>1. /\ \A f \in Dispatchers : dClient[f] # 0 => dClient'[f] = dClient[f]
          /\ \A q \in Producers : \A b \in todo'[q] : b \in todo[q] /\ pev'[q] = pev[q]
          /\ \A q \in Producers : ppc'[q] = "enqueue" =>
               ppc[q] = "enqueue" /\ held'[q] = held[q] /\ pev'[q] = pev[q]
          /\ \A f \in Dispatchers : Elements(queue'[f]) \subseteq Elements(queue[f])
          /\ \A f \in Dispatchers : Elements(batch'[f]) \subseteq Elements(batch[f])
          /\ \A b \in Clients : Received(b) # Received(c) =>
               Elements(sent'[b]) \subseteq Elements(sent[b])
      BY <1>2, <1>4, <2>1
    <3> QED BY <1>0, <1>3, <3>1, Elsewhere, Zenon
  <2>7. OnePlace'
    <3>1. /\ {pev[p]} \subseteq At(Due(p, c)) /\ At(Due(p, c))' \cap {pev[p]} = {}
          /\ At(Received(c))' \subseteq At(Received(c)) \cup {pev[p]}
          /\ KeyAt(Received(c))' = KeyAt(Due(p, c))
      BY <2>2, <2>3, <2>4
    <3> QED BY <1>0, <2>3, <2>4, <2>6, <3>1, Moves
  <2>8. NoRepeat(sent'[c])
    <3>1. pev[p] \notin Elements(sent[c])
      BY <1>0, <2>3, <2>4, <2>5 DEF OnePlace
    <3>2. NoRepeat(sent[c])
      BY <1>0, <1>1 DEF NoRepeats
    <3> QED BY <1>1, <2>1, <3>1, <3>2, NoRepeatAppend
  <2>9. NoRepeats'
    BY <1>0, <1>2, <2>1, <2>8, Zenon DEF NoRepeats
  <2> QED BY <2>7, <2>9
<1> QED
  BY <1>2, <1>5, <1>6

\* dispatcherFor takes the event in hand for the goroutine of the same key.
LEMMA DispatcherForOnce ==
  ASSUME OnceInv, NEW p \in Producers, NEW c \in todo[p], DispatcherFor(p, c)
  PROVE  OnePlace' /\ NoRepeats'
<1>0. /\ ppc \in [Producers -> {"loop", "enqueue", "failed"}] /\ held \in [Producers -> Nat]
      /\ todo \in [Producers -> SUBSET (1 .. Len(clients))]
      /\ table \in [Key -> 0 .. born] /\ born \in 0 .. MaxDispatchers /\ MaxDispatchers \in Nat
      /\ dClient \in [Dispatchers -> 0 .. Len(clients)]
      /\ Len(clients) \in Nat /\ Len(clients) <= MaxClients /\ MaxClients \in Nat
      /\ OnePlace /\ NoRepeats /\ KeysInv
  BY SMTT(30), DispatchAssumption DEF OnceInv, KeysInv, TypeInv, TypeOK
<1>1. c \in Clients /\ c \in 1 .. Len(clients) /\ KeyOf(c) \in Key
  <2>1. c \in Clients /\ c \in 1 .. Len(clients)
    BY <1>0 DEF Clients
  <2> QED BY <2>1, KeyOfType DEF OnceInv, KeysInv, TypeInv
<1>2. PICK k \in Key : k = KeyOf(c)
  BY <1>1
<1>3. /\ ppc[p] = "loop" /\ todo' = [todo EXCEPT ![p] = @ \ {c}] /\ ppc' = [ppc EXCEPT ![p] = "enqueue"]
      /\ UNCHANGED <<initSemantics, clients, pev, batch, queue, sent>>
      /\ \/ /\ table[k] # 0 /\ held' = [held EXCEPT ![p] = table[k]] /\ dClient' = dClient
         \/ /\ born < MaxDispatchers /\ dClient' = [dClient EXCEPT ![born + 1] = c]
            /\ held' = [held EXCEPT ![p] = born + 1]
  BY <1>2 DEF DispatcherFor, DispatcherKey, config, regs, disps
<1>4. \A x : KeyOf(x)' = KeyOf(x)
  BY <1>3, Zenon DEF KeyOf
<1>5. /\ c \notin todo'[p] /\ ppc'[p] = "enqueue"
      /\ \A q \in Producers : todo'[q] \subseteq todo[q] /\ pev'[q] = pev[q]
      /\ \A q \in Producers : q # p => ppc'[q] = ppc[q] /\ held'[q] = held[q]
  BY <1>0, <1>3
<1>6. \A d \in Dispatchers : dClient[d] # 0 => dClient'[d] = dClient[d]
  <2>1. born + 1 \in Dispatchers /\ born < MaxDispatchers => dClient[born + 1] = 0
    BY <1>0 DEF KeysInv, TableKeys
  <2>2. born < MaxDispatchers => born + 1 \in Dispatchers
    BY <1>0 DEF Dispatchers
  <2> QED BY <1>0, <1>3, <2>1, <2>2
<1>7. KeyOf(dClient'[held'[p]]) = k
  <2>1. CASE table[k] # 0 /\ held' = [held EXCEPT ![p] = table[k]] /\ dClient' = dClient
    <3>1. held'[p] = table[k]
      BY <1>0, <2>1
    <3>2. KeyOf(dClient[table[k]]) = k
      BY <2>1 DEF OnceInv, KeysInv, TableKeys
    <3> QED BY <2>1, <3>1, <3>2
  <2>2. CASE /\ born < MaxDispatchers /\ dClient' = [dClient EXCEPT ![born + 1] = c]
             /\ held' = [held EXCEPT ![p] = born + 1]
    <3>1. held'[p] = born + 1 /\ dClient'[born + 1] = c
      BY <1>0, <2>2 DEF Dispatchers
    <3> QED BY <1>2, <3>1
  <2> QED BY <1>3, <2>1, <2>2
<1>8. /\ Due(p, c) \in Slots /\ InHand(p) \in Slots
      /\ At(Due(p, c)) = {pev[p]} /\ At(Due(p, c))' = {}
      /\ At(InHand(p)) = {} /\ At(InHand(p))' = {pev[p]}
      /\ Bound(Due(p, c)) = c /\ Bound(InHand(p))' = dClient'[held'[p]]
  BY <1>1, <1>3, <1>5, SlotKinds, SlotKindsNext
<1>9. KeyAt(InHand(p))' = KeyAt(Due(p, c))
  <2>1. PICK b : b = dClient'[held'[p]]
    OBVIOUS
  <2>2. KeyAt(InHand(p))' = KeyOf(b)'
    BY <1>8, <2>1, Zenon DEF KeyAt, KeyOf
  <2>3. KeyAt(Due(p, c)) = k
    BY <1>2, <1>8 DEF KeyAt
  <2> QED BY <1>4, <1>7, <2>1, <2>2, <2>3
<1>10. \A s \in Slots : s # InHand(p) => /\ At(s)' \subseteq At(s)
                                         /\ At(s)' # {} => KeyAt(s)' = KeyAt(s)
  <2>1. /\ \A q \in Producers : \A b \in todo'[q] : b \in todo[q] /\ pev'[q] = pev[q]
        /\ \A q \in Producers : InHand(q) # InHand(p) /\ ppc'[q] = "enqueue" =>
             ppc[q] = "enqueue" /\ held'[q] = held[q] /\ pev'[q] = pev[q]
        /\ \A f \in Dispatchers : Elements(queue'[f]) \subseteq Elements(queue[f])
        /\ \A f \in Dispatchers : Elements(batch'[f]) \subseteq Elements(batch[f])
        /\ \A b \in Clients : Elements(sent'[b]) \subseteq Elements(sent[b])
    BY <1>3, <1>5
  <2> QED BY <1>0, <1>4, <1>6, <2>1, Elsewhere, Zenon
<1>11. OnePlace'
  BY <1>0, <1>8, <1>9, <1>10, Moves
<1>12. NoRepeats'
  BY <1>0, <1>3, Zenon DEF NoRepeats
<1> QED
  BY <1>11, <1>12

\* run and collect take the head of the queue into the batch.
LEMMA CollectOnce ==
  ASSUME OnceInv, NEW d \in Dispatchers, Take(d) \/ Collect(d)
  PROVE  OnePlace' /\ NoRepeats'
<1>0. /\ queue \in [Dispatchers -> Seq(Events)] /\ queue[d] \in Seq(Events)
      /\ batch \in [Dispatchers -> Seq(Events)] /\ batch[d] \in Seq(Events)
      /\ OnePlace /\ NoRepeats /\ KeysInv
  BY DEF OnceInv, KeysInv, TypeInv, TypeOK
<1>1. /\ queue[d] # <<>> /\ queue' = [queue EXCEPT ![d] = Tail(@)]
      /\ \/ batch' = [batch EXCEPT ![d] = <<Head(queue[d])>>]
         \/ batch' = [batch EXCEPT ![d] = Append(@, Head(queue[d]))]
      /\ UNCHANGED <<initSemantics, clients, dClient, pev, sent, todo, ppc, held>>
  BY DEF Take, Collect, config, regs, prods
<1>2. PICK h \in Events : h = Head(queue[d])
  BY <1>0, <1>1
<1>3. /\ queue'[d] = Tail(queue[d]) /\ batch'[d] \in {<<h>>, Append(batch[d], h)}
      /\ \A f \in Dispatchers \ {d} : queue'[f] = queue[f] /\ batch'[f] = batch[f]
  BY <1>0, <1>1, <1>2
<1>4. h \in Elements(queue[d]) /\ Elements(Tail(queue[d])) \subseteq Elements(queue[d])
  BY <1>0, <1>1, <1>2, ElementsHeadTail
<1>5. NoRepeat(queue[d]) /\ NoRepeat(Tail(queue[d])) /\ h \notin Elements(Tail(queue[d]))
  <2>1. NoRepeat(queue[d])
    BY <1>0 DEF NoRepeats
  <2> QED BY <1>0, <1>1, <1>2, <2>1, NoRepeatHeadTail
<1>6. Elements(batch'[d]) \subseteq Elements(batch[d]) \cup {h}
  <2>1. Elements(<<h>>) = {h}
    BY DEF Elements
  <2>2. Elements(Append(batch[d], h)) = Elements(batch[d]) \cup {h}
    BY <1>0, ElementsAppend
  <2> QED BY <1>3, <2>1, <2>2
<1>7. \A c : KeyOf(c)' = KeyOf(c)
  BY <1>1, Zenon DEF KeyOf
<1>8. /\ Queued(d) \in Slots /\ Batched(d) \in Slots
      /\ At(Queued(d)) = Elements(queue[d]) /\ At(Queued(d))' = Elements(queue'[d])
      /\ At(Batched(d)) = Elements(batch[d]) /\ At(Batched(d))' = Elements(batch'[d])
      /\ Bound(Queued(d)) = dClient[d] /\ Bound(Batched(d)) = dClient[d]
      /\ Bound(Batched(d))' = dClient[d]
  BY <1>1, SlotKinds, SlotKindsNext
<1>9. KeyAt(Batched(d))' = KeyAt(Batched(d)) /\ KeyAt(Queued(d)) = KeyAt(Batched(d))
  BY <1>1, <1>8, Zenon DEF KeyAt, KeyOf
<1>10. Queued(d) # Batched(d)
  BY DEF Queued, Batched
<1>11. \A s \in Slots : s # Batched(d) => /\ At(s)' \subseteq At(s)
                                          /\ At(s)' # {} => KeyAt(s)' = KeyAt(s)
  <2>1. /\ \A f \in Dispatchers : dClient[f] # 0 => dClient'[f] = dClient[f]
        /\ \A q \in Producers : \A b \in todo'[q] : b \in todo[q] /\ pev'[q] = pev[q]
        /\ \A q \in Producers : ppc'[q] = "enqueue" =>
             ppc[q] = "enqueue" /\ held'[q] = held[q] /\ pev'[q] = pev[q]
        /\ \A f \in Dispatchers : Elements(queue'[f]) \subseteq Elements(queue[f])
        /\ \A f \in Dispatchers : Batched(f) # Batched(d) =>
             Elements(batch'[f]) \subseteq Elements(batch[f])
        /\ \A b \in Clients : Elements(sent'[b]) \subseteq Elements(sent[b])
    BY <1>1, <1>3, <1>4
  <2> QED BY <1>0, <1>7, <2>1, Elsewhere, Zenon
<1>12. OnePlace'
  <2>1. {h} \subseteq At(Queued(d)) /\ At(Queued(d))' \cap {h} = {}
        /\ At(Batched(d))' \subseteq At(Batched(d)) \cup {h}
    BY <1>3, <1>4, <1>5, <1>6, <1>8
  <2> QED BY <1>0, <1>8, <1>9, <1>11, <2>1, Moves
<1>13. NoRepeat(batch'[d])
  <2>1. h \notin Elements(batch[d])
    BY <1>0, <1>4, <1>8, <1>9, <1>10 DEF OnePlace
  <2>2. NoRepeat(batch[d]) /\ NoRepeat(<<h>>)
    BY <1>0 DEF NoRepeats, NoRepeat
  <2>3. NoRepeat(Append(batch[d], h))
    BY <1>0, <2>1, <2>2, NoRepeatAppend
  <2> QED BY <1>3, <2>2, <2>3
<1>14. NoRepeats'
  BY <1>0, <1>1, <1>3, <1>5, <1>13, Zenon DEF NoRepeats
<1> QED
  BY <1>12, <1>14

\* deliver sends the batch, or loses it.
LEMMA DeliverOnce ==
  ASSUME OnceInv, NEW d \in Dispatchers, Deliver(d)
  PROVE  OnePlace' /\ NoRepeats'
<1>0. /\ batch \in [Dispatchers -> Seq(Events)] /\ batch[d] \in Seq(Events)
      /\ sent \in [Clients -> Seq(Events)] /\ Clients = 1 .. MaxClients
      /\ dClient[d] \in 0 .. Len(clients) /\ Len(clients) \in Nat
      /\ Len(clients) <= MaxClients /\ MaxClients \in Nat
      /\ OnePlace /\ NoRepeats /\ KeysInv
  BY SMTT(30), DispatchAssumption DEF OnceInv, KeysInv, TypeInv, TypeOK, Clients
<1>1. PICK c : c = dClient[d]
  OBVIOUS
<1>2. /\ batch' = [batch EXCEPT ![d] = <<>>]
      /\ sent' \in {sent, [sent EXCEPT ![c] = @ \o batch[d]]}
      /\ UNCHANGED <<initSemantics, clients, dClient, pev, queue, todo, ppc, held>>
  BY <1>1 DEF Deliver, config, regs, prods
<1>3. batch'[d] = <<>> /\ \A f \in Dispatchers \ {d} : batch'[f] = batch[f]
  BY <1>0, <1>2, Zenon
<1>4. Elements(<<>>) = {} /\ NoRepeat(<<>>)
  BY DEF Elements, NoRepeat
<1>5. \A x : KeyOf(x)' = KeyOf(x)
  BY <1>2, Zenon DEF KeyOf
<1>6. /\ \A f \in Dispatchers : dClient[f] # 0 => dClient'[f] = dClient[f]
      /\ \A q \in Producers : \A b \in todo'[q] : b \in todo[q] /\ pev'[q] = pev[q]
      /\ \A q \in Producers : ppc'[q] = "enqueue" =>
           ppc[q] = "enqueue" /\ held'[q] = held[q] /\ pev'[q] = pev[q]
      /\ \A f \in Dispatchers : Elements(queue'[f]) \subseteq Elements(queue[f])
      /\ \A f \in Dispatchers : Elements(batch'[f]) \subseteq Elements(batch[f])
  BY <1>2, <1>3, <1>4
<1>7. CASE sent' = sent \/ c = 0
  <2>1. sent' = sent
    <3>1. c = 0 => sent' = sent
      BY <1>0, <1>2
    <3> QED BY <1>7, <3>1
  <2>2. PICK z : z \notin Slots
    <3>1. {s \in Slots : s \notin s} \notin Slots
      OBVIOUS
    <3> QED BY <3>1
  <2>3. \A b \in Clients : Elements(sent'[b]) \subseteq Elements(sent[b])
    BY <2>1
  <2>4. \A s \in Slots : s # z => /\ At(s)' \subseteq At(s)
                                  /\ At(s)' # {} => KeyAt(s)' = KeyAt(s)
    BY <1>0, <1>5, <1>6, <2>3, Elsewhere, Zenon
  <2>5. OnePlace'
    BY <1>0, <2>2, <2>4, Stays
  <2>6. NoRepeats'
    BY <1>0, <1>2, <1>3, <1>4, <2>1, Zenon DEF NoRepeats
  <2> QED BY <2>5, <2>6
<1>8. CASE sent' = [sent EXCEPT ![c] = @ \o batch[d]] /\ c # 0
  <2>1. c \in Clients /\ sent[c] \in Seq(Events)
    BY <1>0, <1>1, <1>8
  <2>2. /\ sent'[c] = sent[c] \o batch[d]
        /\ \A b \in Clients \ {c} : sent'[b] = sent[b]
    BY <1>0, <1>8, <2>1, Zenon
  <2>3. Elements(sent'[c]) = Elements(sent[c]) \cup Elements(batch[d])
    BY <1>0, <2>1, <2>2, ElementsConcat
  <2>4. /\ Batched(d) \in Slots /\ Received(c) \in Slots
        /\ At(Batched(d)) = Elements(batch[d]) /\ At(Batched(d))' = {}
        /\ At(Received(c)) = Elements(sent[c]) /\ At(Received(c))' = Elements(sent'[c])
        /\ Bound(Batched(d)) = c /\ Bound(Received(c)) = c
        /\ Bound(Received(c))' = c
    BY <1>1, <1>3, <1>4, <2>1, SlotKinds, SlotKindsNext
  <2>5. KeyAt(Received(c))' = KeyAt(Received(c)) /\ KeyAt(Batched(d)) = KeyAt(Received(c))
    BY <1>2, <2>4, Zenon DEF KeyAt, KeyOf
  <2>6. Batched(d) # Received(c)
    BY DEF Batched, Received
  <2>7. \A s \in Slots : s # Received(c) => /\ At(s)' \subseteq At(s)
                                            /\ At(s)' # {} => KeyAt(s)' = KeyAt(s)
    <3>1. \A b \in Clients : Received(b) # Received(c) =>
            Elements(sent'[b]) \subseteq Elements(sent[b])
      BY <2>2
    <3> QED BY <1>0, <1>5, <1>6, <3>1, Elsewhere, Zenon
  <2>8. OnePlace'
    <3>1. /\ Elements(batch[d]) \subseteq At(Batched(d))
          /\ At(Batched(d))' \cap Elements(batch[d]) = {}
          /\ At(Received(c))' \subseteq At(Received(c)) \cup Elements(batch[d])
      BY <2>3, <2>4
    <3> QED BY <1>0, <2>4, <2>5, <2>7, <3>1, Moves
  <2>9. NoRepeat(sent'[c])
    <3>1. Elements(sent[c]) \cap Elements(batch[d]) = {}
      BY <1>0, <2>4, <2>5, <2>6 DEF OnePlace
    <3>2. NoRepeat(sent[c]) /\ NoRepeat(batch[d])
      BY <1>0, <2>1 DEF NoRepeats
    <3> QED BY <1>0, <2>1, <2>2, <3>1, <3>2, NoRepeatConcat
  <2>10. NoRepeats'
    BY <1>0, <1>2, <1>3, <1>4, <2>2, <2>9, Zenon DEF NoRepeats
  <2> QED BY <2>8, <2>10
<1> QED
  BY <1>2, <1>7, <1>8

\* Every step keeps every event in one place per key.
LEMMA NextOnce == OnceInv /\ [Next]_vars => OnceInv'
<1> SUFFICES ASSUME OnceInv, [Next]_vars PROVE OnceInv'
  OBVIOUS
<1>1. KeysInv' /\ RemotesKeys'
  BY NextKeys, NextRemotes DEF OnceInv
<1>2. ASSUME NEW p \in Producers, ProducerStep(p) PROVE OnePlace' /\ NoRepeats'
  BY <1>2, DispatcherForOnce, CallOnce, EnqueueOnce, QuietOnce DEF ProducerStep
<1>3. ASSUME NEW p \in Producers, NEW target, FireEvent(p, target) PROVE OnePlace' /\ NoRepeats'
  BY <1>3, FireOnce
<1>4. ASSUME NEW d \in Dispatchers, CloseDone(d) \/ DispatcherStep(d) PROVE OnePlace' /\ NoRepeats'
  BY <1>4, CollectOnce, DeliverOnce, QuietOnce DEF DispatcherStep
<1>5. OnePlace' /\ NoRepeats'
  BY <1>2, <1>3, <1>4, QuietOnce DEF Next
<1> QED
  BY <1>1, <1>5 DEF OnceInv

\* Nothing waits anywhere at the start.
LEMMA InitOnce == Init => OnceInv
<1> SUFFICES ASSUME Init PROVE OnceInv
  OBVIOUS
<1>1. KeysInv
  BY InitKeys
<1>2. /\ \A d \in Dispatchers : queue[d] = <<>> /\ batch[d] = <<>>
      /\ \A c \in Clients : sent[c] = <<>>
      /\ \A k \in Key : remotes[k] = 0
      /\ events = <<>> /\ Len(events) = 0
  BY DEF Init
<1>3. OnePlace
  <2>1. \A s \in Slots : At(s) = {}
    <3>1. ASSUME NEW s \in Slots, NEW e \in At(s) PROVE FALSE
      <4>1. e \in 1 .. Len(events)
        BY <1>1, <3>1, WaitsRight
      <4> QED BY <1>2, <4>1
    <3> QED BY <3>1
  <2> QED BY <2>1 DEF OnePlace
<1>4. NoRepeat(<<>>)
  BY DEF NoRepeat
<1> QED
  BY <1>1, <1>2, <1>3, <1>4 DEF OnceInv, RemotesKeys, NoRepeats

\* However clients are replaced and delivery goroutines stopped, started and
\* left to deliver a last batch, no client receives an event twice
\* (dispatcher.go collect, dispatcherFor).
THEOREM EventsReachClientsOnce == Spec => []AtMostOnce
<1>1. OnceInv => AtMostOnce
  BY DEF OnceInv, NoRepeats, NoRepeat, AtMostOnce
<1> QED
  BY <1>1, InitOnce, NextOnce, PTL DEF Spec

-----------------------------------------------------------------------------
(* One goroutine's events arrive in the order it fired them                *)

\* The last event of a producer is the one it has in hand.
LastFired ==
  /\ \A p \in Producers : pev[p] # 0 => pev[p] \in 1 .. Len(events) /\ events[pev[p]].by = p
  /\ \A e \in 1 .. Len(events) : e <= pev[events[e].by]

\* No two goroutines serve the client.
Alone(c) == \A d, e \in Dispatchers : dClient[d] = c /\ dClient[e] = c => d = e

\* What a goroutine has waiting is in order, the batch before the queue.
WaitingOrdered ==
  \A d \in Dispatchers :
    /\ InOrder(events, queue[d]) /\ InOrder(events, batch[d])
    /\ Before(events, batch[d], queue[d])

\* So is what a client was sent, before what its only goroutine has waiting.
SentOrdered ==
  \A c \in Clients : Alone(c) =>
    /\ InOrder(events, sent[c])
    /\ \A d \in Dispatchers : dClient[d] = c =>
         Before(events, sent[c], batch[d]) /\ Before(events, sent[c], queue[d])

\* With batching only goroutines send, without it there are none.
SentByGoroutine ==
  batchEvents => \A c \in Clients : sent[c] # <<>> => \E d \in Dispatchers : dClient[d] = c
DirectOnly == ~batchEvents => \A d \in Dispatchers : dClient[d] = 0

OrderNow == WaitingOrdered /\ SentOrdered /\ SentByGoroutine /\ DirectOnly
OrderInv == OnceInv /\ LastFired /\ OrderNow

\* Sequences in order.
LEMMA InOrderAppend ==
  ASSUME NEW S, NEW s \in Seq(S), NEW x \in S, NEW ev, InOrder(ev, s),
         \A e \in Elements(s) : ev[e].by = ev[x].by => e < x
  PROVE  InOrder(ev, Append(s, x))
<1>1. /\ Len(s) \in Nat /\ DOMAIN s = 1 .. Len(s)
      /\ DOMAIN Append(s, x) = 1 .. Len(s) + 1
      /\ \A i \in 1 .. Len(s) : Append(s, x)[i] = s[i]
      /\ Append(s, x)[Len(s) + 1] = x
  OBVIOUS
<1>2. ASSUME NEW i \in 1 .. Len(s) + 1, NEW j \in 1 .. Len(s) + 1, i < j,
             ev[Append(s, x)[i]].by = ev[Append(s, x)[j]].by
      PROVE  Append(s, x)[i] < Append(s, x)[j]
  <2>1. i \in 1 .. Len(s) /\ Append(s, x)[i] = s[i] /\ s[i] \in Elements(s)
    BY <1>1, <1>2 DEF Elements
  <2>2. CASE j = Len(s) + 1
    BY <1>1, <1>2, <2>1, <2>2
  <2>3. CASE j \in 1 .. Len(s)
    BY <1>1, <1>2, <2>1, <2>3 DEF InOrder
  <2> QED BY <1>1, <2>2, <2>3
<1> QED
  BY <1>1, <1>2 DEF InOrder

LEMMA InOrderHeadTail ==
  ASSUME NEW S, NEW s \in Seq(S), s # <<>>, NEW ev, InOrder(ev, s)
  PROVE  /\ InOrder(ev, Tail(s))
         /\ \A e \in Elements(Tail(s)) : ev[Head(s)].by = ev[e].by => Head(s) < e
<1>1. /\ Len(s) \in Nat \ {0} /\ DOMAIN s = 1 .. Len(s)
      /\ Head(s) = s[1]
      /\ DOMAIN Tail(s) = 1 .. Len(s) - 1
      /\ \A i \in 1 .. Len(s) - 1 : Tail(s)[i] = s[i + 1]
  OBVIOUS
<1>2. \A i \in 1 .. Len(s) - 1 : i + 1 \in 1 .. Len(s) /\ 1 < i + 1 /\ 1 \in 1 .. Len(s)
  BY <1>1
<1>3. \A e \in Elements(Tail(s)) : ev[Head(s)].by = ev[e].by => Head(s) < e
  BY <1>1, <1>2 DEF InOrder, Elements
<1>4. ASSUME NEW i \in 1 .. Len(s) - 1, NEW j \in 1 .. Len(s) - 1, i < j,
             ev[Tail(s)[i]].by = ev[Tail(s)[j]].by
      PROVE  Tail(s)[i] < Tail(s)[j]
  <2>1. i + 1 < j + 1 /\ Tail(s)[i] = s[i + 1] /\ Tail(s)[j] = s[j + 1]
    BY <1>1, <1>4
  <2> QED BY <1>1, <1>2, <1>4, <2>1 DEF InOrder
<1> QED
  BY <1>1, <1>3, <1>4 DEF InOrder

LEMMA InOrderConcat ==
  ASSUME NEW S, NEW s \in Seq(S), NEW t \in Seq(S), NEW ev,
         InOrder(ev, s), InOrder(ev, t), Before(ev, s, t)
  PROVE  InOrder(ev, s \o t)
<1>1. /\ Len(s) \in Nat /\ Len(t) \in Nat /\ DOMAIN s = 1 .. Len(s) /\ DOMAIN t = 1 .. Len(t)
      /\ DOMAIN (s \o t) = 1 .. Len(s) + Len(t)
      /\ \A i \in 1 .. Len(s) + Len(t) :
           (s \o t)[i] = IF i <= Len(s) THEN s[i] ELSE t[i - Len(s)]
  OBVIOUS
<1>2. ASSUME NEW i \in 1 .. Len(s) + Len(t), NEW j \in 1 .. Len(s) + Len(t), i < j,
             ev[(s \o t)[i]].by = ev[(s \o t)[j]].by
      PROVE  (s \o t)[i] < (s \o t)[j]
  <2>1. CASE i <= Len(s) /\ j <= Len(s)
    <3>1. i \in DOMAIN s /\ j \in DOMAIN s /\ (s \o t)[i] = s[i] /\ (s \o t)[j] = s[j]
      BY <1>1, <2>1
    <3> QED BY <1>2, <3>1 DEF InOrder
  <2>2. CASE ~(i <= Len(s)) /\ ~(j <= Len(s))
    <3>1. /\ i - Len(s) \in DOMAIN t /\ j - Len(s) \in DOMAIN t /\ i - Len(s) < j - Len(s)
          /\ (s \o t)[i] = t[i - Len(s)] /\ (s \o t)[j] = t[j - Len(s)]
      BY <1>1, <1>2, <2>2
    <3> QED BY <1>2, <3>1 DEF InOrder
  <2>3. CASE i <= Len(s) /\ ~(j <= Len(s))
    <3>1. /\ i \in DOMAIN s /\ j - Len(s) \in DOMAIN t
          /\ (s \o t)[i] = s[i] /\ (s \o t)[j] = t[j - Len(s)]
      BY <1>1, <2>3
    <3> QED BY <1>2, <3>1 DEF Before, Elements
  <2> QED BY <1>1, <1>2, <2>1, <2>2, <2>3
<1> QED
  BY <1>1, <1>2 DEF InOrder

\* What a new event does not change.
LEMMA OrderLonger ==
  ASSUME NEW n, NEW ev, NEW new, \A e \in 1 .. n : new[e] = ev[e],
         NEW s, Elements(s) \subseteq 1 .. n, NEW t, Elements(t) \subseteq 1 .. n
  PROVE  /\ InOrder(ev, s) => InOrder(new, s)
         /\ Before(ev, s, t) => Before(new, s, t)
<1>1. \A i \in DOMAIN s : s[i] \in 1 .. n
  BY DEF Elements
<1>2. InOrder(ev, s) => InOrder(new, s)
  BY <1>1, Zenon DEF InOrder
<1>3. Before(ev, s, t) => Before(new, s, t)
  BY Zenon DEF Before
<1> QED
  BY <1>2, <1>3

\* The event a producer has in hand is later than those of its own that wait
\* elsewhere for the same key, or were received.
LEMMA Latest ==
  ASSUME OnceInv, LastFired, NEW p \in Producers,
         NEW x \in Slots, pev[p] \in At(x),
         NEW s \in Slots, s # x, KeyAt(s) = KeyAt(x), NEW e \in At(s),
         events[e].by = events[pev[p]].by
  PROVE  e < pev[p]
<1>1. e \in 1 .. Len(events) /\ pev[p] \in 1 .. Len(events) /\ Len(events) \in Nat
  <2>1. KeysInv /\ TypeOK
    BY DEF OnceInv, KeysInv, TypeInv
  <2>2. Len(events) \in Nat
    BY <2>1 DEF TypeOK
  <2>3. e \in 1 .. Len(events)
    BY <2>1, WaitsRight
  <2>4. pev[p] \in 1 .. Len(events)
    BY <2>1, WaitsRight
  <2> QED BY <2>2, <2>3, <2>4
<1>2. events[pev[p]].by = p
  BY <1>1 DEF LastFired
<1>3. e <= pev[p]
  BY <1>1, <1>2 DEF LastFired
<1>4. e # pev[p]
  BY DEF OnceInv, OnePlace
<1> QED
  BY <1>1, <1>3, <1>4

\* Every step keeps the last event of a producer the one it has in hand.
LEMMA NextFired == OrderInv /\ [Next]_vars => LastFired'
<1> SUFFICES ASSUME OrderInv, [Next]_vars PROVE LastFired'
  OBVIOUS
<1>0. /\ pev \in [Producers -> 0 .. MaxEvents] /\ Len(events) \in Nat
      /\ LastFired /\ TypeOK /\ MaxEvents \in Nat
  BY DispatchAssumption DEF OrderInv, OnceInv, KeysInv, TypeInv, TypeOK
<1>1. CASE UNCHANGED <<pev, events>>
  BY <1>0, <1>1, Zenon DEF LastFired
<1>2. ASSUME NEW p \in Producers, NEW target, FireEvent(p, target) PROVE LastFired'
  <2> DEFINE Record == [by : Producers, to : SUBSET Clients]
             to == Snapshot(target)
  <2>1. PICK n \in Nat : n = Len(events) + 1
    BY <1>0
  <2>2. /\ events' = Append(events, [by |-> p, to |-> to]) /\ events \in Seq(Record)
        /\ pev' = [pev EXCEPT ![p] = n]
    BY <1>2, <2>1 DEF FireEvent, OrderInv, OnceInv, KeysInv, TypeInv, TypeOK
  <2>3. [by |-> p, to |-> to] \in Record
    <3>1. to \subseteq Clients
      <4>1. remotes \in [Key -> 0 .. Len(clients)] /\ Len(clients) \in Nat
            /\ Len(clients) <= MaxClients /\ MaxClients \in Nat
        BY <1>0, DispatchAssumption DEF TypeOK
      <4> QED BY <4>1 DEF Snapshot, Registered, Clients
    <3> QED BY <3>1
  <2>4. PICK new \in Record : new = [by |-> p, to |-> to]
    BY <2>3
  <2>5. /\ Len(events') = n /\ events'[n] = new /\ new.by = p
        /\ \A e \in 1 .. Len(events) : events'[e] = events[e]
    <3>1. events' = Append(events, new)
      BY <2>2, <2>4
    <3>2. new.by = p
      BY <2>4
    <3> HIDE DEF Record
    <3> QED BY <2>1, <2>2, <3>1, <3>2
  <2>6. pev'[p] = n /\ \A q \in Producers \ {p} : pev'[q] = pev[q]
    BY <1>0, <2>2
  <2> HIDE DEF Record, to
  <2>7. ASSUME NEW q \in Producers, pev'[q] # 0
        PROVE  pev'[q] \in 1 .. Len(events') /\ events'[pev'[q]].by = q
    <3>1. CASE q = p
      BY <2>1, <2>5, <2>6, <3>1
    <3>2. CASE q # p
      <4>1. pev'[q] = pev[q] /\ pev[q] \in 1 .. Len(events) /\ events[pev[q]].by = q
        BY <1>0, <2>6, <2>7, <3>2 DEF LastFired
      <4> QED BY <1>0, <2>1, <2>5, <4>1
    <3> QED BY <3>1, <3>2
  <2>8. ASSUME NEW e \in 1 .. Len(events') PROVE e <= pev'[events'[e].by]
    <3>1. CASE e = n
      BY <2>1, <2>5, <2>6, <3>1
    <3>2. CASE e # n
      <4>1. e \in 1 .. Len(events) /\ events'[e] = events[e]
        BY <1>0, <2>1, <2>5, <2>8, <3>2
      <4>2. e <= pev[events[e].by] /\ events[e].by \in Producers
        <5>1. events[e] \in Record
          BY <2>2, <4>1
        <5>2. events[e].by \in Producers
          BY <5>1 DEF Record
        <5> QED BY <1>0, <4>1, <5>2 DEF LastFired
      <4>3. CASE events[e].by = p
        BY <2>1, <2>6, <4>1, <4>3
      <4>4. CASE events[e].by # p
        BY <2>6, <4>1, <4>2, <4>4
      <4> QED BY <4>3, <4>4
    <3> QED BY <3>1, <3>2
  <2> QED BY <2>7, <2>8 DEF LastFired
<1>3. UNCHANGED vars \/ ForgetClients \/ StopDispatchers
        \/ (\E d \in Dispatchers : CloseDone(d) \/ DispatcherStep(d))
        \/ (\E url \in Urls, iface \in Interfaces : Register(url, iface))
        \/ (\E url \in Urls : Deregister(url))
        \/ (\E p \in Producers : ProducerStep(p))
        => UNCHANGED <<pev, events>>
  BY DEF vars, ForgetClients, StopDispatchers, CloseDone, Register, Deregister, DispatcherStep,
         Take, Return, Collect, EndCollect, Deliver, OnGone, ProducerStep, DispatcherFor,
         CallEvent, Enqueue, RemoveFailed, prods
<1> QED
  BY <1>1, <1>2, <1>3 DEF Next

\* A new event changes the order of no others.
LEMMA FireOrder ==
  ASSUME OrderInv, NEW p \in Producers, NEW target, FireEvent(p, target)
  PROVE  OrderNow'
<1>1. /\ UNCHANGED <<batchEvents, dClient, queue, batch, sent>>
      /\ events' = Append(events, [by |-> p, to |-> Snapshot(target)])
  BY DEF FireEvent, config, disps
<1>2. PICK n \in Nat : n = Len(events) /\ \A e \in 1 .. n : events'[e] = events[e]
  <2>1. events \in Seq([by : Producers, to : SUBSET Clients])
    BY DEF OrderInv, OnceInv, KeysInv, TypeInv, TypeOK
  <2>2. \A e \in 1 .. Len(events) : events'[e] = events[e]
    BY <1>1, <2>1
  <2> QED BY <2>1, <2>2
<1>3. /\ \A d \in Dispatchers : Elements(queue[d]) \subseteq 1 .. n /\ Elements(batch[d]) \subseteq 1 .. n
      /\ \A c \in Clients : Elements(sent[c]) \subseteq 1 .. n
  <2>1. \A s \in Slots : At(s) \subseteq 1 .. n
    BY <1>2, WaitsRight DEF OrderInv, OnceInv
  <2> QED BY <2>1, SlotKinds
<1>4. WaitingOrdered'
  <2>1. ASSUME NEW d \in Dispatchers
        PROVE  /\ InOrder(events', queue[d]) /\ InOrder(events', batch[d])
               /\ Before(events', batch[d], queue[d])
    BY <1>2, <1>3, OrderLonger DEF OrderInv, OrderNow, WaitingOrdered
  <2> QED BY <1>1, <2>1, Zenon DEF WaitingOrdered
<1>5. SentOrdered'
  <2>1. ASSUME NEW c \in Clients, Alone(c)
        PROVE  /\ InOrder(events', sent[c])
               /\ \A d \in Dispatchers : dClient[d] = c =>
                    Before(events', sent[c], batch[d]) /\ Before(events', sent[c], queue[d])
    BY <1>2, <1>3, <2>1, OrderLonger DEF OrderInv, OrderNow, SentOrdered
  <2> QED BY <1>1, <2>1, Zenon DEF SentOrdered, Alone
<1>6. SentByGoroutine' /\ DirectOnly'
  BY <1>1, Zenon DEF OrderInv, OrderNow, SentByGoroutine, DirectOnly
<1> QED
  BY <1>4, <1>5, <1>6 DEF OrderNow

\* Steps that leave events, queues and what was sent alone.
LEMMA QuietOrder ==
  ASSUME OrderInv, UNCHANGED <<batchEvents, dClient, queue, batch, sent, events>>
  PROVE  OrderNow'
<1>1. WaitingOrdered'
  BY Zenon DEF OrderInv, OrderNow, WaitingOrdered
<1>2. SentOrdered'
  BY Zenon DEF OrderInv, OrderNow, SentOrdered, Alone
<1>3. SentByGoroutine' /\ DirectOnly'
  BY Zenon DEF OrderInv, OrderNow, SentByGoroutine, DirectOnly
<1> QED
  BY <1>1, <1>2, <1>3 DEF OrderNow

\* enqueue appends the latest event of its producer.
LEMMA EnqueueOrder ==
  ASSUME OrderInv, NEW p \in Producers, Enqueue(p)
  PROVE  OrderNow'
<1>0. /\ queue \in [Dispatchers -> Seq(Events)] /\ born \in 0 .. MaxDispatchers /\ MaxDispatchers \in Nat
      /\ OnceInv /\ LastFired /\ OrderNow /\ KeysInv
  BY DispatchAssumption DEF OrderInv, OnceInv, KeysInv, TypeInv, TypeOK
<1>1. PICK d : d = held[p]
  OBVIOUS
<1>2. /\ ppc[p] = "enqueue"
      /\ UNCHANGED <<batchEvents, dClient, batch, sent, events>>
      /\ queue' = queue \/ queue' = [queue EXCEPT ![d] = Append(@, pev[p])]
  BY <1>1 DEF Enqueue, config
<1>3. CASE queue' = queue
  BY <1>2, <1>3, QuietOrder
<1>4. CASE queue' = [queue EXCEPT ![d] = Append(@, pev[p])]
  <2>1. d \in Dispatchers
    <3>1. d \in 1 .. born
      BY <1>0, <1>1, <1>2 DEF KeysInv, HeldRight
    <3> QED BY <1>0, <3>1 DEF Dispatchers
  <2>2. pev[p] \in Events /\ queue[d] \in Seq(Events)
    BY <1>0, <1>2, <2>1, HandsOverAnEvent DEF KeysInv
  <2>3. /\ queue'[d] = Append(queue[d], pev[p])
        /\ \A f \in Dispatchers \ {d} : queue'[f] = queue[f]
    BY <1>0, <1>4, <2>1
  <2>4. Elements(queue'[d]) = Elements(queue[d]) \cup {pev[p]}
    BY <2>2, <2>3, ElementsAppend
  <2>5. /\ InHand(p) \in Slots /\ Queued(d) \in Slots /\ Batched(d) \in Slots
        /\ pev[p] \in At(InHand(p)) /\ At(Queued(d)) = Elements(queue[d])
        /\ At(Batched(d)) = Elements(batch[d])
        /\ Bound(InHand(p)) = dClient[d] /\ Bound(Queued(d)) = dClient[d]
        /\ Bound(Batched(d)) = dClient[d]
        /\ \A c \in Clients : /\ Received(c) \in Slots /\ At(Received(c)) = Elements(sent[c])
                              /\ Bound(Received(c)) = c
    BY <1>1, <1>2, <2>1, SlotKinds
  <2>6. /\ InHand(p) # Queued(d) /\ InHand(p) # Batched(d)
        /\ \A c \in Clients : InHand(p) # Received(c)
    BY DEF InHand, Queued, Batched, Received
  <2>7. \A s \in Slots : s # InHand(p) /\ KeyAt(s) = KeyAt(InHand(p)) =>
          \A e \in At(s) : events[e].by = events[pev[p]].by => e < pev[p]
    BY <1>0, <2>5, Latest
  <2>8. /\ \A e \in Elements(queue[d]) : events[e].by = events[pev[p]].by => e < pev[p]
        /\ \A e \in Elements(batch[d]) : events[e].by = events[pev[p]].by => e < pev[p]
    BY <2>5, <2>6, <2>7 DEF KeyAt
  <2>9. \A c \in Clients : dClient[d] = c =>
          \A e \in Elements(sent[c]) : events[e].by = events[pev[p]].by => e < pev[p]
    BY <2>5, <2>6, <2>7 DEF KeyAt
  <2>10. InOrder(events, queue'[d]) /\ Before(events, batch[d], queue'[d])
    <3>1. InOrder(events, queue[d]) /\ Before(events, batch[d], queue[d])
      BY <1>0, <2>1 DEF OrderNow, WaitingOrdered
    <3>2. InOrder(events, queue'[d])
      BY <2>2, <2>3, <2>8, <3>1, InOrderAppend
    <3>3. Before(events, batch[d], queue'[d])
      BY <2>4, <2>8, <3>1 DEF Before
    <3> QED BY <3>2, <3>3
  <2>11. WaitingOrdered'
    <3>1. \A f \in Dispatchers : InOrder(events, queue'[f]) /\ InOrder(events, batch[f])
                                 /\ Before(events, batch[f], queue'[f])
      BY <1>0, <2>3, <2>10 DEF OrderNow, WaitingOrdered
    <3> QED BY <1>2, <3>1, Zenon DEF WaitingOrdered
  <2>12. SentOrdered'
    <3>1. ASSUME NEW c \in Clients, Alone(c), NEW f \in Dispatchers, dClient[f] = c
          PROVE  Before(events, sent[c], queue'[f])
      <4>1. Before(events, sent[c], queue[f])
        BY <1>0, <3>1 DEF OrderNow, SentOrdered
      <4>2. CASE f = d
        BY <2>4, <2>9, <3>1, <4>1, <4>2 DEF Before
      <4>3. CASE f # d
        BY <2>3, <4>1, <4>3
      <4> QED BY <4>2, <4>3
    <3>2. \A c \in Clients : Alone(c) =>
            /\ InOrder(events, sent[c])
            /\ \A f \in Dispatchers : dClient[f] = c => Before(events, sent[c], batch[f])
      BY <1>0 DEF OrderNow, SentOrdered
    <3> QED BY <1>2, <3>1, <3>2, Zenon DEF SentOrdered, Alone
  <2>13. SentByGoroutine' /\ DirectOnly'
    BY <1>0, <1>2, Zenon DEF OrderNow, SentByGoroutine, DirectOnly
  <2> QED BY <2>11, <2>12, <2>13 DEF OrderNow
<1> QED
  BY <1>2, <1>3, <1>4

\* Without batching the producer sends its latest event itself.
LEMMA CallOrder ==
  ASSUME OrderInv, NEW p \in Producers, NEW c \in todo[p], CallEvent(p, c)
  PROVE  OrderNow'
<1>0. /\ todo \in [Producers -> SUBSET (1 .. Len(clients))]
      /\ Len(clients) \in Nat /\ Len(clients) <= MaxClients /\ MaxClients \in Nat
      /\ sent \in [Clients -> Seq(Events)]
      /\ OnceInv /\ LastFired /\ OrderNow /\ KeysInv
  <2>1. TypeOK /\ OnceInv /\ LastFired /\ OrderNow /\ KeysInv
    BY DEF OrderInv, OnceInv, KeysInv, TypeInv
  <2> QED BY <2>1, DispatchAssumption DEF TypeOK
<1>1. c \in Clients /\ c # 0 /\ sent[c] \in Seq(Events) /\ pev[p] \in Events
  <2>1. c \in Clients /\ c # 0
    BY <1>0 DEF Clients
  <2> QED BY <1>0, <2>1, HandsOverAnEvent DEF KeysInv
<1>2. /\ ~batchEvents /\ UNCHANGED <<batchEvents, dClient, queue, batch, events>>
      /\ sent' \in {sent, [sent EXCEPT ![c] = Append(@, pev[p])]}
  BY DEF CallEvent, config, disps
<1>3. CASE sent' = sent
  BY <1>2, <1>3, QuietOrder
<1>4. CASE sent' = [sent EXCEPT ![c] = Append(@, pev[p])]
  <2>1. /\ sent'[c] = Append(sent[c], pev[p])
        /\ \A b \in Clients \ {c} : sent'[b] = sent[b]
    BY <1>0, <1>1, <1>4
  <2>2. /\ Due(p, c) \in Slots /\ pev[p] \in At(Due(p, c)) /\ Bound(Due(p, c)) = c
        /\ Received(c) \in Slots /\ At(Received(c)) = Elements(sent[c]) /\ Bound(Received(c)) = c
    BY <1>1, SlotKinds
  <2>3. Due(p, c) # Received(c)
    BY DEF Due, Received
  <2>4. \A e \in Elements(sent[c]) : events[e].by = events[pev[p]].by => e < pev[p]
    BY <1>0, <2>2, <2>3, Latest DEF KeyAt
  <2>5. InOrder(events, sent[c]) => InOrder(events, sent'[c])
    BY <1>1, <2>1, <2>4, InOrderAppend
  <2>6. \A d \in Dispatchers : dClient[d] = 0
    BY <1>0, <1>2 DEF OrderNow, DirectOnly
  <2>7. SentOrdered'
    <3>1. ASSUME NEW b \in Clients, Alone(b) PROVE InOrder(events, sent'[b])
      <4>1. InOrder(events, sent[b])
        BY <1>0, <3>1 DEF OrderNow, SentOrdered
      <4> QED BY <2>1, <2>5, <4>1
    <3>2. \A b \in Clients : b # 0
      BY DEF Clients
    <3> QED BY <1>2, <2>6, <3>1, <3>2, Zenon DEF SentOrdered, Alone
  <2>8. WaitingOrdered' /\ SentByGoroutine' /\ DirectOnly'
    BY <1>0, <1>2, Zenon DEF OrderNow, WaitingOrdered, SentByGoroutine, DirectOnly
  <2> QED BY <2>7, <2>8 DEF OrderNow
<1> QED
  BY <1>2, <1>3, <1>4

\* A goroutine that is started for a client no other one serves finds nothing sent to it.
LEMMA DispatcherForOrder ==
  ASSUME OrderInv, NEW p \in Producers, NEW c \in todo[p], DispatcherFor(p, c)
  PROVE  OrderNow'
<1>0. /\ todo \in [Producers -> SUBSET (1 .. Len(clients))]
      /\ born \in 0 .. MaxDispatchers /\ MaxDispatchers \in Nat
      /\ dClient \in [Dispatchers -> 0 .. Len(clients)]
      /\ Len(clients) \in Nat
      /\ OnceInv /\ LastFired /\ OrderNow /\ KeysInv
  <2>1. TypeOK /\ OnceInv /\ LastFired /\ OrderNow /\ KeysInv
    BY DEF OrderInv, OnceInv, KeysInv, TypeInv
  <2> QED BY <2>1, DispatchAssumption DEF TypeOK
<1>1. c # 0
  BY <1>0
<1>2. /\ batchEvents /\ UNCHANGED <<batchEvents, queue, batch, sent, events>>
      /\ \/ dClient' = dClient
         \/ born < MaxDispatchers /\ dClient' = [dClient EXCEPT ![born + 1] = c]
  BY DEF DispatcherFor, config, disps
<1>3. CASE dClient' = dClient
  BY <1>2, <1>3, QuietOrder
<1>4. CASE born < MaxDispatchers /\ dClient' = [dClient EXCEPT ![born + 1] = c]
  <2>1. PICK n \in Dispatchers : n = born + 1 /\ dClient[n] = 0
    <3>1. born + 1 \in Dispatchers
      BY <1>0, <1>4 DEF Dispatchers
    <3> QED BY <1>0, <3>1 DEF KeysInv, TableKeys
  <2>2. dClient'[n] = c /\ \A d \in Dispatchers : d # n => dClient'[d] = dClient[d]
    BY <1>0, <1>4, <2>1
  <2>3. WaitingOrdered' /\ DirectOnly'
    BY <1>0, <1>2, Zenon DEF OrderNow, WaitingOrdered, DirectOnly
  <2>4. SentByGoroutine'
    <3>1. \A b \in Clients : b # 0
      BY DEF Clients
    <3>2. \A b \in Clients : sent'[b] # <<>> => \E d \in Dispatchers : dClient'[d] = b
      <4> SUFFICES ASSUME NEW b \in Clients, sent[b] # <<>>
                   PROVE  \E d \in Dispatchers : dClient'[d] = b
        BY <1>2
      <4>1. PICK d \in Dispatchers : dClient[d] = b
        BY <1>0, <1>2 DEF OrderNow, SentByGoroutine
      <4>2. dClient'[d] = b
        BY <2>1, <2>2, <3>1, <4>1
      <4> QED BY <4>2
    <3> QED BY <3>2 DEF SentByGoroutine
  <2>5. SentOrdered'
    <3>1. ASSUME NEW b \in Clients, Alone(b)'
          PROVE  /\ InOrder(events, sent[b])
                 /\ \A d \in Dispatchers : dClient'[d] = b =>
                      Before(events, sent[b], batch[d]) /\ Before(events, sent[b], queue[d])
      <4>0. b # 0 /\ \A d, e \in Dispatchers : dClient'[d] = b /\ dClient'[e] = b => d = e
        <5>1. b # 0
          BY DEF Clients
        <5> QED BY <3>1, <5>1, Zenon DEF Alone
      <4>1. CASE b # c
        <5>1. \A d \in Dispatchers : dClient'[d] = b => dClient[d] = b
          BY <2>2, <4>1
        <5>2. \A d \in Dispatchers : dClient[d] = b => dClient'[d] = b
          BY <2>1, <2>2, <4>0
        <5>3. Alone(b)
          BY <4>0, <5>2, Zenon DEF Alone
        <5> QED BY <1>0, <5>1, <5>3 DEF OrderNow, SentOrdered
      <4>2. CASE b = c
        <5>1. \A d \in Dispatchers : dClient[d] # b
          BY <2>1, <2>2, <4>0, <4>2
        <5>2. sent[b] = <<>>
          BY <1>0, <1>2, <5>1 DEF OrderNow, SentByGoroutine
        <5>3. Elements(<<>>) = {} /\ InOrder(events, <<>>)
          BY DEF Elements, InOrder
        <5> QED BY <5>2, <5>3, Zenon DEF Before
      <4> QED BY <4>1, <4>2
    <3>2. \A b \in Clients : Alone(b)' => (/\ InOrder(events, sent[b])
              /\ \A d \in Dispatchers : dClient[d] = b =>
                   Before(events, sent[b], batch[d]) /\ Before(events, sent[b], queue[d]))'
      <4> SUFFICES ASSUME NEW b \in Clients, Alone(b)'
                   PROVE  /\ InOrder(events', sent'[b])
                          /\ \A d \in Dispatchers : dClient'[d] = b =>
                               Before(events', sent'[b], batch'[d]) /\ Before(events', sent'[b], queue'[d])
        OBVIOUS
      <4> QED BY <1>2, <3>1
    <3> QED BY <3>2, Zenon DEF SentOrdered
  <2> QED BY <2>3, <2>4, <2>5 DEF OrderNow
<1> QED
  BY <1>2, <1>3, <1>4

\* run and collect keep the order.
LEMMA CollectOrder ==
  ASSUME OrderInv, NEW d \in Dispatchers, Take(d) \/ Collect(d)
  PROVE  OrderNow'
<1>0. /\ queue \in [Dispatchers -> Seq(Events)] /\ queue[d] \in Seq(Events)
      /\ batch \in [Dispatchers -> Seq(Events)] /\ batch[d] \in Seq(Events)
      /\ OrderNow /\ KeysInv
  BY DEF OrderInv, OnceInv, KeysInv, TypeInv, TypeOK
<1>1. /\ queue[d] # <<>> /\ queue' = [queue EXCEPT ![d] = Tail(@)]
      /\ \/ batch' = [batch EXCEPT ![d] = <<Head(queue[d])>>]
         \/ batch' = [batch EXCEPT ![d] = Append(@, Head(queue[d]))]
      /\ UNCHANGED <<batchEvents, dClient, sent, events>>
  BY DEF Take, Collect, config
<1>2. PICK h \in Events : h = Head(queue[d])
  BY <1>0, <1>1
<1>3. /\ queue'[d] = Tail(queue[d]) /\ batch'[d] \in {<<h>>, Append(batch[d], h)}
      /\ \A f \in Dispatchers \ {d} : queue'[f] = queue[f] /\ batch'[f] = batch[f]
  BY <1>0, <1>1, <1>2
<1>4. h \in Elements(queue[d]) /\ Elements(queue'[d]) \subseteq Elements(queue[d])
  BY <1>0, <1>1, <1>2, <1>3, ElementsHeadTail
<1>5. InOrder(events, queue[d]) /\ InOrder(events, batch[d]) /\ Before(events, batch[d], queue[d])
  BY <1>0 DEF OrderNow, WaitingOrdered
<1>6. /\ InOrder(events, queue'[d])
      /\ \A e \in Elements(queue'[d]) : events[h].by = events[e].by => h < e
  BY <1>0, <1>1, <1>2, <1>3, <1>5, InOrderHeadTail
<1>7. Elements(batch'[d]) \subseteq Elements(batch[d]) \cup {h}
  <2>1. Elements(<<h>>) = {h}
    BY DEF Elements
  <2>2. Elements(Append(batch[d], h)) = Elements(batch[d]) \cup {h}
    BY <1>0, ElementsAppend
  <2> QED BY <1>3, <2>1, <2>2
<1>8. InOrder(events, batch'[d]) /\ Before(events, batch'[d], queue'[d])
  <2>1. InOrder(events, <<h>>)
    BY DEF InOrder
  <2>2. \A e \in Elements(batch[d]) : events[e].by = events[h].by => e < h
    BY <1>4, <1>5 DEF Before
  <2>3. InOrder(events, Append(batch[d], h))
    BY <1>0, <1>5, <2>2, InOrderAppend
  <2>4. Before(events, batch'[d], queue'[d])
    BY <1>4, <1>5, <1>6, <1>7 DEF Before
  <2> QED BY <1>3, <2>1, <2>3, <2>4
<1>9. WaitingOrdered'
  <2>1. \A f \in Dispatchers : InOrder(events, queue'[f]) /\ InOrder(events, batch'[f])
                               /\ Before(events, batch'[f], queue'[f])
    BY <1>0, <1>3, <1>6, <1>8 DEF OrderNow, WaitingOrdered
  <2> QED BY <1>1, <2>1, Zenon DEF WaitingOrdered
<1>10. SentOrdered'
  <2>1. ASSUME NEW c \in Clients, Alone(c), NEW f \in Dispatchers, dClient[f] = c
        PROVE  Before(events, sent[c], queue'[f]) /\ Before(events, sent[c], batch'[f])
    <3>1. Before(events, sent[c], queue[f]) /\ Before(events, sent[c], batch[f])
      BY <1>0, <2>1 DEF OrderNow, SentOrdered
    <3>2. CASE f = d
      BY <1>4, <1>7, <3>1, <3>2 DEF Before
    <3>3. CASE f # d
      BY <1>3, <3>1, <3>3
    <3> QED BY <3>2, <3>3
  <2>2. \A c \in Clients : Alone(c) => InOrder(events, sent[c])
    BY <1>0 DEF OrderNow, SentOrdered
  <2> QED BY <1>1, <2>1, <2>2, Zenon DEF SentOrdered, Alone
<1>11. SentByGoroutine' /\ DirectOnly'
  BY <1>0, <1>1, Zenon DEF OrderNow, SentByGoroutine, DirectOnly
<1> QED
  BY <1>9, <1>10, <1>11 DEF OrderNow

\* deliver sends the batch after what was sent and before what is queued.
LEMMA DeliverOrder ==
  ASSUME OrderInv, NEW d \in Dispatchers, Deliver(d)
  PROVE  OrderNow'
<1>0. /\ batch \in [Dispatchers -> Seq(Events)] /\ batch[d] \in Seq(Events)
      /\ sent \in [Clients -> Seq(Events)]
      /\ OrderNow /\ KeysInv
  BY DEF OrderInv, OnceInv, KeysInv, TypeInv, TypeOK
<1>1. PICK c : c = dClient[d]
  OBVIOUS
<1>2. /\ batch' = [batch EXCEPT ![d] = <<>>]
      /\ sent' \in {sent, [sent EXCEPT ![c] = @ \o batch[d]]}
      /\ UNCHANGED <<batchEvents, dClient, queue, events>>
  BY <1>1 DEF Deliver, config
<1>3. batch'[d] = <<>> /\ \A f \in Dispatchers \ {d} : batch'[f] = batch[f]
  BY <1>0, <1>2, Zenon
<1>4. Elements(<<>>) = {} /\ InOrder(events, <<>>) /\ \A s : Before(events, s, <<>>) /\ Before(events, <<>>, s)
  BY DEF Elements, InOrder, Before
<1>5. \A b \in Clients : sent'[b] # sent[b] => b = c /\ sent'[b] = sent[b] \o batch[d]
  BY <1>0, <1>2, Zenon
<1>6. WaitingOrdered'
  <2>1. \A f \in Dispatchers : InOrder(events, queue[f]) /\ InOrder(events, batch'[f])
                               /\ Before(events, batch'[f], queue[f])
    BY <1>0, <1>3, <1>4 DEF OrderNow, WaitingOrdered
  <2> QED BY <1>2, <2>1, Zenon DEF WaitingOrdered
<1>7. SentOrdered'
  <2>1. ASSUME NEW b \in Clients, Alone(b)
        PROVE  /\ InOrder(events, sent'[b])
               /\ \A f \in Dispatchers : dClient[f] = b =>
                    Before(events, sent'[b], batch'[f]) /\ Before(events, sent'[b], queue[f])
    <3>1. /\ InOrder(events, sent[b])
          /\ \A f \in Dispatchers : dClient[f] = b =>
               Before(events, sent[b], batch[f]) /\ Before(events, sent[b], queue[f])
      BY <1>0, <2>1 DEF OrderNow, SentOrdered
    <3>2. CASE sent'[b] = sent[b]
      BY <1>3, <1>4, <3>1, <3>2
    <3>3. CASE b = c /\ sent'[b] = sent[b] \o batch[d]
      <4>1. sent[b] \in Seq(Events)
        BY <1>0
      <4>2. Elements(sent'[b]) = Elements(sent[b]) \cup Elements(batch[d])
        BY <1>0, <3>3, <4>1, ElementsConcat
      <4>3. InOrder(events, batch[d]) /\ Before(events, batch[d], queue[d])
        BY <1>0 DEF OrderNow, WaitingOrdered
      <4>4. InOrder(events, sent'[b])
        BY <1>0, <1>1, <3>1, <3>3, <4>1, <4>3, InOrderConcat
      <4>5. \A f \in Dispatchers : dClient[f] = b => f = d
        BY <1>1, <2>1, <3>3 DEF Alone
      <4>6. Before(events, sent'[b], queue[d])
        BY <1>1, <3>1, <3>3, <4>2, <4>3 DEF Before
      <4> QED BY <1>3, <1>4, <4>4, <4>5, <4>6
    <3> QED BY <1>5, <3>2, <3>3
  <2> QED BY <1>2, <2>1, Zenon DEF SentOrdered, Alone
<1>8. SentByGoroutine'
  <2>1. \A b \in Clients : batchEvents /\ sent'[b] # <<>> => \E f \in Dispatchers : dClient[f] = b
    BY <1>0, <1>1, <1>5 DEF OrderNow, SentByGoroutine
  <2> QED BY <1>2, <2>1, Zenon DEF SentByGoroutine
<1>9. DirectOnly'
  BY <1>0, <1>2, Zenon DEF OrderNow, DirectOnly
<1> QED
  BY <1>6, <1>7, <1>8, <1>9 DEF OrderNow

\* Every step keeps the order.
LEMMA NextOrder == OrderInv /\ [Next]_vars => OrderInv'
<1> SUFFICES ASSUME OrderInv, [Next]_vars PROVE OrderInv'
  OBVIOUS
<1>1. OnceInv' /\ LastFired'
  BY NextOnce, NextFired DEF OrderInv
<1>2. ASSUME NEW p \in Producers, ProducerStep(p) PROVE OrderNow'
  <2>1. CASE RemoveFailed(p)
    <3>1. UNCHANGED <<batchEvents, dClient, queue, batch, sent, events>>
      BY <2>1 DEF RemoveFailed, config, disps
    <3> QED BY <3>1, QuietOrder
  <2> QED BY <1>2, <2>1, DispatcherForOrder, CallOrder, EnqueueOrder DEF ProducerStep
<1>3. ASSUME NEW p \in Producers, NEW target, FireEvent(p, target) PROVE OrderNow'
  BY <1>3, FireOrder
<1>4. ASSUME NEW d \in Dispatchers, DispatcherStep(d) PROVE OrderNow'
  <2>1. CASE Return(d) \/ EndCollect(d) \/ OnGone(d)
    <3>1. UNCHANGED <<batchEvents, dClient, queue, batch, sent, events>>
      BY <2>1 DEF Return, EndCollect, OnGone, config
    <3> QED BY <3>1, QuietOrder
  <2> QED BY <1>4, <2>1, CollectOrder, DeliverOrder DEF DispatcherStep
<1>5. UNCHANGED vars \/ ForgetClients \/ StopDispatchers
        \/ (\E d \in Dispatchers : CloseDone(d))
        \/ (\E url \in Urls, iface \in Interfaces : Register(url, iface))
        \/ (\E url \in Urls : Deregister(url))
        => OrderNow'
  <2>1. UNCHANGED vars \/ ForgetClients \/ StopDispatchers
        \/ (\E d \in Dispatchers : CloseDone(d))
        \/ (\E url \in Urls, iface \in Interfaces : Register(url, iface))
        \/ (\E url \in Urls : Deregister(url))
        => UNCHANGED <<batchEvents, dClient, queue, batch, sent, events>>
    BY DEF vars, ForgetClients, StopDispatchers, CloseDone, Register, Deregister, config, disps
  <2> QED BY <2>1, QuietOrder
<1>6. OrderNow'
  BY <1>2, <1>3, <1>4, <1>5 DEF Next
<1> QED
  BY <1>1, <1>6 DEF OrderInv

\* Every delivery goroutine, also one that was stopped or replaced, holds the
\* events of each producer in the order they were fired, and a client that no
\* second goroutine has served received them in that order (dispatcher.go run,
\* collect, dispatcherFor).
THEOREM EventsOfAProducerInOrder == Spec => []ProducerOrder
<1>1. Init => OrderInv
  <2> SUFFICES ASSUME Init PROVE OrderInv
    OBVIOUS
  <2>1. OnceInv
    BY InitOnce
  <2>2. /\ \A d \in Dispatchers : queue[d] = <<>> /\ batch[d] = <<>> /\ dClient[d] = 0
        /\ \A c \in Clients : sent[c] = <<>> /\ c # 0
        /\ \A p \in Producers : pev[p] = 0
        /\ events = <<>> /\ Len(events) = 0
    BY DEF Init, Clients
  <2>3. InOrder(events, <<>>) /\ \A s : Before(events, s, <<>>)
    BY DEF InOrder, Before, Elements
  <2>4. LastFired
    BY <2>2 DEF LastFired
  <2>5. OrderNow
    BY <2>2, <2>3, Zenon DEF OrderNow, WaitingOrdered, SentOrdered, SentByGoroutine, DirectOnly
  <2> QED BY <2>1, <2>4, <2>5 DEF OrderInv
<1>2. OrderInv => ProducerOrder
  <2> SUFFICES ASSUME OrderInv PROVE ProducerOrder
    OBVIOUS
  <2>1. ASSUME NEW c \in 1 .. Len(clients),
               \A d, e \in Dispatchers : dClient[d] = c /\ dClient[e] = c => d = e
        PROVE  InOrder(events, sent[c])
    <3>1. Len(clients) \in Nat /\ Len(clients) <= MaxClients /\ MaxClients \in Nat
      BY DispatchAssumption DEF OrderInv, OnceInv, KeysInv, TypeInv, TypeOK
    <3>2. c \in Clients
      BY <3>1 DEF Clients
    <3>3. Alone(c)
      BY <2>1, Zenon DEF Alone
    <3> QED
      BY <3>2, <3>3 DEF OrderInv, OrderNow, SentOrdered
  <2> QED
    BY <2>1, Zenon DEF ProducerOrder, OrderInv, OrderNow, WaitingOrdered
<1> QED
  BY <1>1, <1>2, NextOrder, PTL DEF Spec
=============================================================================
