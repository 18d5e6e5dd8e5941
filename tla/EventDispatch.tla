--------------------------- MODULE EventDispatch ---------------------------
(***************************************************************************)
(* Registration of logic layers and delivery of events to them: the        *)
(* registration table and dispatchEvent of internal/ccu/rpcfunctions.go,   *)
(* the per-remote delivery goroutines of internal/ccu/dispatcher.go and    *)
(* ForgetClients of internal/ccu/initsemantics.go.                         *)
(*                                                                         *)
(* The granularity is that of the mutex r.mu: what one goroutine does      *)
(* between a Lock and its Unlock is one step, and so is every channel      *)
(* operation and every remote call.  A callback client is a fresh object   *)
(* per init call, so it is identified by its position in clients; 0 is     *)
(* the nil client and the nil dispatcher.  The goroutine askDevices that   *)
(* Init starts changes neither table and is not part of this module.       *)
(***************************************************************************)
EXTENDS Integers, Sequences

CONSTANTS
  Urls,             \* callback URLs a logic layer may pass to init
  Interfaces,       \* interface ids a logic layer may pass to init
  Overlap,          \* <<registered, asked>>: one URL text contains the other
  Producers,        \* goroutines that fire events (RPC handlers, timers)
  AnyTarget,        \* the empty target of fireEvent
  BufferSize,       \* dispatchBufferSize
  MaxClients,       \* bound: init calls that register
  MaxDispatchers,   \* bound: delivery goroutines ever started
  MaxEvents         \* bound: events ever fired

ASSUME DispatchAssumption ==
  /\ Overlap \subseteq Urls \X Urls
  /\ AnyTarget \notin Interfaces
  /\ BufferSize \in Nat \ {0}
  /\ MaxClients \in Nat
  /\ MaxDispatchers \in Nat
  /\ MaxEvents \in Nat

VARIABLES
  initSemantics,    \* r.initSemantics: registrations are keyed by URL
  batchEvents,      \* r.batchEvents: delivery goes through dispatchers
  clients,          \* the registrations ever made, with their fresh client
  remotes,          \* r.remotes: key -> client, 0 when absent
  table,            \* r.dispatchers: key -> dispatcher, 0 when absent
  born,             \* number of dispatchers started so far
  dClient,          \* dispatcher.client
  queue,            \* dispatcher.queue
  done,             \* dispatcher.done is closed
  dpc,              \* where the goroutine of the dispatcher is
  batch,            \* the batch it has collected
  stopping,         \* dispatchers out of the table whose stop() is still due
  ppc,              \* where a producer is in dispatchEvent
  pev,              \* the event it is firing
  todo,             \* clients of its snapshot it has still to serve
  held,             \* the dispatcher (or the failed client) it has in hand
  events,           \* history: every event, its producer and its snapshot
  sent,             \* history: the events each client received, in order
  excused           \* history: clients replaced, removed or unreachable

config == <<initSemantics, batchEvents>>
regs   == <<clients, remotes>>
disps  == <<table, born, dClient, queue, done, dpc, batch, stopping>>
prods  == <<ppc, pev, todo, held>>
vars   == <<config, regs, disps, prods, events, sent, excused>>

Key         == Urls \cup Interfaces
Clients     == 1 .. MaxClients
Dispatchers == 1 .. MaxDispatchers
Events      == 1 .. MaxEvents
Registered  == {remotes[k] : k \in Key} \ {0}

\* The key a client was registered under: its URL with init semantics, its
\* interface id otherwise.
KeyOf(c) == IF initSemantics THEN clients[c].url ELSE clients[c].iface

Init ==
  /\ initSemantics \in BOOLEAN
  /\ batchEvents \in BOOLEAN
  /\ clients = <<>>
  /\ remotes = [k \in Key |-> 0]
  /\ table = [k \in Key |-> 0]
  /\ born = 0
  /\ dClient = [d \in Dispatchers |-> 0]
  /\ queue = [d \in Dispatchers |-> <<>>]
  /\ done = [d \in Dispatchers |-> FALSE]
  /\ dpc = [d \in Dispatchers |-> "unborn"]
  /\ batch = [d \in Dispatchers |-> <<>>]
  /\ stopping = {}
  /\ ppc = [p \in Producers |-> "loop"]
  /\ pev = [p \in Producers |-> 0]
  /\ todo = [p \in Producers |-> {}]
  /\ held = [p \in Producers |-> 0]
  /\ events = <<>>
  /\ sent = [c \in Clients |-> <<>>]
  /\ excused = {}

-----------------------------------------------------------------------------
(* Registration                                                            *)

\* Mutation: the entry leaves the table but the goroutine is not stopped.
DropDispatcherNoStop(k) ==
  /\ table' = [table EXCEPT ![k] = 0]
  /\ done' = done

DropDispatcher(k) ==
  /\ table' = [table EXCEPT ![k] = 0]
  /\ done' = [d \in Dispatchers |-> done[d] \/ d = table[k]]

\* Init with an interface id: a new client takes the key over, and the
\* dispatcher of the registration it replaces is dropped.
Register(url, iface) ==
  LET k == IF initSemantics THEN url ELSE iface IN
  /\ Len(clients) < MaxClients
  /\ clients' = Append(clients, [url |-> url, iface |-> iface])
  /\ DropDispatcher(k)
  /\ remotes' = [remotes EXCEPT ![k] = Len(clients) + 1]
  /\ excused' = excused \cup {remotes[k]}
  /\ UNCHANGED <<config, born, dClient, queue, dpc, batch, stopping, prods,
                 events, sent>>

\* Which registrations an init without interface id may remove: the one under
\* exactly this URL, or any one whose URL overlaps it as text.
Matches(url, k) ==
  /\ remotes[k] # 0
  /\ IF initSemantics THEN k = url
                      ELSE <<clients[remotes[k]].url, url>> \in Overlap

Deregister(url) ==
  \E k \in Key :
    /\ Matches(url, k)
    /\ remotes' = [remotes EXCEPT ![k] = 0]
    /\ DropDispatcher(k)
    /\ excused' = excused \cup {remotes[k]}
    /\ UNCHANGED <<config, clients, born, dClient, queue, dpc, batch, stopping,
                   prods, events, sent>>

\* The dispatcher table is swapped for an empty one under the lock; stop() of
\* the old entries follows outside it, one CloseDone step each.
SwapTable ==
  /\ table' = [k \in Key |-> 0]
  /\ stopping' = stopping \cup ({table[k] : k \in Key} \ {0})

ForgetClients ==
  /\ remotes' = [k \in Key |-> 0]
  /\ excused' = excused \cup Registered
  /\ SwapTable
  /\ UNCHANGED <<config, clients, born, dClient, queue, done, dpc, batch,
                 prods, events, sent>>

StopDispatchers ==
  /\ SwapTable
  /\ UNCHANGED <<config, regs, born, dClient, queue, done, dpc, batch, prods,
                 events, sent, excused>>

\* Mutation: the swapped out dispatchers are forgotten without stop().
CloseDoneForgotten(d) ==
  /\ d \in stopping
  /\ stopping' = stopping \ {d}
  /\ UNCHANGED <<config, regs, table, born, dClient, queue, done, dpc, batch,
                 prods, events, sent, excused>>

CloseDone(d) ==
  /\ d \in stopping
  /\ stopping' = stopping \ {d}
  /\ done' = [done EXCEPT ![d] = TRUE]
  /\ UNCHANGED <<config, regs, table, born, dClient, queue, dpc, batch, prods,
                 events, sent, excused>>

-----------------------------------------------------------------------------
(* Producers: dispatchEvent                                                *)

\* The registrations an event goes to: all, or those of the target interface.
Snapshot(target) ==
  {c \in Registered : target = AnyTarget \/ clients[c].iface = target}

FireEvent(p, target) ==
  /\ ppc[p] = "loop"
  /\ todo[p] = {}
  /\ Len(events) < MaxEvents
  /\ events' = Append(events, [by |-> p, to |-> Snapshot(target)])
  /\ pev' = [pev EXCEPT ![p] = Len(events) + 1]
  /\ todo' = [todo EXCEPT ![p] = Snapshot(target)]
  /\ UNCHANGED <<config, regs, disps, ppc, held, sent, excused>>

\* Mutation: dispatchers are shared by the registrations of an interface id.
DispatcherKeyByInterface(c) == clients[c].iface

\* The key dispatcherFor looks a dispatcher up under: the registration's.
DispatcherKey(c) == KeyOf(c)

\* dispatcherFor: whatever dispatcher the key has now, or a new one for the
\* client of the snapshot.
DispatcherFor(p, c) ==
  LET k == DispatcherKey(c) IN
  /\ batchEvents
  /\ ppc[p] = "loop"
  /\ c \in todo[p]
  /\ todo' = [todo EXCEPT ![p] = @ \ {c}]
  /\ ppc' = [ppc EXCEPT ![p] = "enqueue"]
  /\ \/ /\ table[k] # 0
        /\ held' = [held EXCEPT ![p] = table[k]]
        /\ UNCHANGED disps
     \/ /\ table[k] = 0
        /\ born < MaxDispatchers
        /\ born' = born + 1
        /\ table' = [table EXCEPT ![k] = born + 1]
        /\ dClient' = [dClient EXCEPT ![born + 1] = c]
        /\ dpc' = [dpc EXCEPT ![born + 1] = "select"]
        /\ held' = [held EXCEPT ![p] = born + 1]
        /\ UNCHANGED <<queue, done, batch, stopping>>
  /\ UNCHANGED <<config, regs, pev, events, sent, excused>>

\* Mutation: the queue has no bound.
EnqueueUnbounded(p) ==
  LET d == held[p] IN
  /\ ppc[p] = "enqueue"
  /\ ppc' = [ppc EXCEPT ![p] = "loop"]
  /\ held' = [held EXCEPT ![p] = 0]
  /\ queue' = [queue EXCEPT ![d] = Append(@, pev[p])]
  /\ UNCHANGED <<config, regs, table, born, dClient, done, dpc, batch,
                 stopping, pev, todo, events, sent, excused>>

\* enqueue: select among the send and the closed done channel, the default
\* only when neither is ready.  The last two lose the event.
Enqueue(p) ==
  LET d == held[p] IN
  /\ ppc[p] = "enqueue"
  /\ ppc' = [ppc EXCEPT ![p] = "loop"]
  /\ held' = [held EXCEPT ![p] = 0]
  /\ \/ /\ Len(queue[d]) < BufferSize
        /\ queue' = [queue EXCEPT ![d] = Append(@, pev[p])]
     \/ /\ done[d] \/ Len(queue[d]) = BufferSize
        /\ UNCHANGED queue
  /\ UNCHANGED <<config, regs, table, born, dClient, done, dpc, batch,
                 stopping, pev, todo, events, sent, excused>>

\* Without batching the producer calls the client itself.  A transport error
\* may come before or after the client has taken the event.
CallEvent(p, c) ==
  /\ ~batchEvents
  /\ ppc[p] = "loop"
  /\ c \in todo[p]
  /\ todo' = [todo EXCEPT ![p] = @ \ {c}]
  /\ \/ /\ sent' = [sent EXCEPT ![c] = Append(@, pev[p])]
        /\ UNCHANGED <<ppc, held, excused>>
     \/ /\ sent' \in {sent, [sent EXCEPT ![c] = Append(@, pev[p])]}
        /\ ppc' = [ppc EXCEPT ![p] = "failed"]
        /\ held' = [held EXCEPT ![p] = c]
        /\ excused' = excused \cup {c}
  /\ UNCHANGED <<config, regs, disps, pev, events>>

\* Mutation: the registration under the client's key is removed whoever holds it.
WithoutClientAnyHolder(c) == [remotes EXCEPT ![KeyOf(c)] = 0]

\* The registrations once client c turned out to be unreachable: its own is
\* removed, a newer one under the same key is kept.
WithoutClient(c) ==
  IF remotes[KeyOf(c)] = c THEN [remotes EXCEPT ![KeyOf(c)] = 0] ELSE remotes

RemoveFailed(p) ==
  /\ ppc[p] = "failed"
  /\ ppc' = [ppc EXCEPT ![p] = "loop"]
  /\ held' = [held EXCEPT ![p] = 0]
  /\ remotes' = WithoutClient(held[p])
  /\ UNCHANGED <<config, clients, disps, pev, todo, events, sent, excused>>

-----------------------------------------------------------------------------
(* The delivery goroutine of a dispatcher: run, collect, deliver, onGone    *)

Take(d) ==
  /\ dpc[d] = "select"
  /\ queue[d] # <<>>
  /\ batch' = [batch EXCEPT ![d] = <<Head(queue[d])>>]
  /\ queue' = [queue EXCEPT ![d] = Tail(@)]
  /\ dpc' = [dpc EXCEPT ![d] = "collect"]
  /\ UNCHANGED <<config, regs, table, born, dClient, done, stopping, prods,
                 events, sent, excused>>

Return(d) ==
  /\ dpc[d] = "select"
  /\ done[d]
  /\ dpc' = [dpc EXCEPT ![d] = "ended"]
  /\ UNCHANGED <<config, regs, table, born, dClient, queue, done, batch,
                 stopping, prods, events, sent, excused>>

\* Mutation: a collected event is put in front of the batch.
CollectFront(d) ==
  /\ dpc[d] = "collect"
  /\ queue[d] # <<>>
  /\ batch' = [batch EXCEPT ![d] = <<Head(queue[d])>> \o @]
  /\ queue' = [queue EXCEPT ![d] = Tail(@)]
  /\ UNCHANGED <<config, regs, table, born, dClient, done, dpc, stopping, prods,
                 events, sent, excused>>

Collect(d) ==
  /\ dpc[d] = "collect"
  /\ queue[d] # <<>>
  /\ batch' = [batch EXCEPT ![d] = Append(@, Head(queue[d]))]
  /\ queue' = [queue EXCEPT ![d] = Tail(@)]
  /\ dpc' = [dpc EXCEPT ![d] = IF Len(batch[d]) + 1 >= BufferSize
                               THEN "deliver" ELSE "collect"]
  /\ UNCHANGED <<config, regs, table, born, dClient, done, stopping, prods,
                 events, sent, excused>>

\* Mutation: without the linger timer only done ends the collection.
EndCollectOnDone(d) ==
  /\ dpc[d] = "collect"
  /\ done[d]
  /\ dpc' = [dpc EXCEPT ![d] = "deliver"]
  /\ UNCHANGED <<config, regs, table, born, dClient, queue, done, batch,
                 stopping, prods, events, sent, excused>>

\* The linger timer fired, or done was closed: either way the batch goes out.
EndCollect(d) ==
  /\ dpc[d] = "collect"
  /\ dpc' = [dpc EXCEPT ![d] = "deliver"]
  /\ UNCHANGED <<config, regs, table, born, dClient, queue, done, batch,
                 stopping, prods, events, sent, excused>>

\* Mutation: a batch is sent again after a transport error.
DeliverRetry(d) ==
  LET c == dClient[d]
      taken == [sent EXCEPT ![c] = @ \o batch[d]]
  IN
  /\ dpc[d] = "deliver"
  /\ \/ /\ sent' = taken
        /\ batch' = [batch EXCEPT ![d] = <<>>]
        /\ dpc' = [dpc EXCEPT ![d] = "select"]
     \/ /\ sent' \in {sent, taken}
        /\ UNCHANGED <<batch, dpc>>
  /\ UNCHANGED <<config, regs, table, born, dClient, queue, done, stopping,
                 prods, events, excused>>

\* deliver: an answer, be it a fault, keeps the goroutine going; a transport
\* error, before or after the client took the batch, ends it through onGone.
Deliver(d) ==
  LET c == dClient[d]
      taken == [sent EXCEPT ![c] = @ \o batch[d]]
  IN
  /\ dpc[d] = "deliver"
  /\ batch' = [batch EXCEPT ![d] = <<>>]
  /\ \/ /\ sent' = taken
        /\ dpc' = [dpc EXCEPT ![d] = "select"]
        /\ UNCHANGED excused
     \/ /\ sent' \in {sent, taken}
        /\ dpc' = [dpc EXCEPT ![d] = "gone"]
        /\ excused' = excused \cup {c}
  /\ UNCHANGED <<config, regs, table, born, dClient, queue, done, stopping,
                 prods, events>>

OnGone(d) ==
  LET k == KeyOf(dClient[d]) IN
  /\ dpc[d] = "gone"
  /\ dpc' = [dpc EXCEPT ![d] = "ended"]
  /\ remotes' = WithoutClient(dClient[d])
  /\ IF table[k] = d THEN DropDispatcher(k) ELSE UNCHANGED <<table, done>>
  /\ UNCHANGED <<config, clients, born, dClient, queue, batch, stopping, prods,
                 events, sent, excused>>

-----------------------------------------------------------------------------
ProducerStep(p) ==
  \/ \E c \in todo[p] : DispatcherFor(p, c) \/ CallEvent(p, c)
  \/ Enqueue(p)
  \/ RemoveFailed(p)

DispatcherStep(d) ==
  Take(d) \/ Return(d) \/ Collect(d) \/ EndCollect(d) \/ Deliver(d) \/ OnGone(d)

Next ==
  \/ \E url \in Urls, iface \in Interfaces : Register(url, iface)
  \/ \E url \in Urls : Deregister(url)
  \/ ForgetClients
  \/ StopDispatchers
  \/ \E d \in Dispatchers : CloseDone(d) \/ DispatcherStep(d)
  \/ \E p \in Producers, target \in Interfaces \cup {AnyTarget} :
       FireEvent(p, target)
  \/ \E p \in Producers : ProducerStep(p)

Spec == Init /\ [][Next]_vars

\* The steps of a goroutine that has work: handlers run to their end, every
\* remote call returns (deliver has a 10 s deadline), the linger timer fires,
\* and select takes a ready case.
Fairness ==
  /\ \A p \in Producers : WF_vars(ProducerStep(p))
  /\ \A d \in Dispatchers : WF_vars(DispatcherStep(d)) /\ WF_vars(CloseDone(d))

FairSpec == Spec /\ Fairness

-----------------------------------------------------------------------------
(* Properties                                                              *)

Elements(s) == {s[i] : i \in DOMAIN s}

TypeOK ==
  /\ initSemantics \in BOOLEAN
  /\ batchEvents \in BOOLEAN
  /\ clients \in Seq([url : Urls, iface : Interfaces])
  /\ Len(clients) <= MaxClients
  /\ remotes \in [Key -> 0 .. Len(clients)]
  /\ born \in 0 .. MaxDispatchers
  /\ table \in [Key -> 0 .. born]
  /\ dClient \in [Dispatchers -> 0 .. Len(clients)]
  /\ queue \in [Dispatchers -> Seq(Events)]
  /\ \A d \in Dispatchers : Len(queue[d]) <= BufferSize
  /\ done \in [Dispatchers -> BOOLEAN]
  /\ dpc \in [Dispatchers -> {"unborn", "select", "collect", "deliver",
                              "gone", "ended"}]
  /\ batch \in [Dispatchers -> Seq(Events)]
  /\ stopping \subseteq 1 .. born
  /\ ppc \in [Producers -> {"loop", "enqueue", "failed"}]
  /\ pev \in [Producers -> 0 .. MaxEvents]
  /\ todo \in [Producers -> SUBSET (1 .. Len(clients))]
  /\ held \in [Producers -> Nat]
  /\ events \in Seq([by : Producers, to : SUBSET Clients])
  /\ Len(events) <= MaxEvents
  /\ sent \in [Clients -> Seq(Events)]
  /\ excused \subseteq 0 .. Len(clients)

\* A client receives an event at most once, although its key may have had
\* several dispatchers, stopped ones that still deliver their last batch
\* included (dispatcher.go collect, dispatcherFor).
AtMostOnce ==
  \A c \in Clients : \A i, j \in DOMAIN sent[c] :
    sent[c][i] = sent[c][j] => i = j

\* An event only reaches clients of a key that was registered, and targeted,
\* when the event was fired: replacing clients and dispatchers never moves it
\* to another registration (dispatchEvent's snapshot, dispatcherFor's key).
OnlySnapshotKeys ==
  \A c \in Clients : \A i \in DOMAIN sent[c] :
    \E o \in events[sent[c][i]].to : KeyOf(o) = KeyOf(c)

\* A delivery goroutine that runs and has not been told to stop can still be
\* told: it is in the table under the key of its client, or a swap of the
\* table is about to stop it (dispatcher.go dropDispatcherLocked, stopDispatchers).
NoLeakedDispatcher ==
  \A d \in Dispatchers :
    dpc[d] \notin {"unborn", "ended"} /\ ~done[d] =>
      d \in stopping \/ table[KeyOf(dClient[d])] = d

\* A registration disappears because its own client was replaced, removed or
\* unreachable, never because of a late failure of the client it replaced
\* (the reg.client == client tests of dispatchEvent and dispatcherFor).
LeavesForCause ==
  \A c \in 1 .. Len(clients) : remotes[KeyOf(c)] = c \/ c \in excused

\* Events of one producer are in the order it fired them, in a sequence and
\* from one sequence to the next.
InOrder(ev, s) ==
  \A i, j \in DOMAIN s : i < j /\ ev[s[i]].by = ev[s[j]].by => s[i] < s[j]
Before(ev, s, t) ==
  \A e \in Elements(s), f \in Elements(t) : ev[e].by = ev[f].by => e < f

\* What a delivery goroutine has still to deliver, and be it one that was
\* stopped or replaced, is in the order in which each producer fired it, the
\* batch before the queue; and a client that one goroutine alone has served, or
\* that is called without any, has received it in that order.  (A goroutine
\* that was replaced may deliver its last batch after its successor's first:
\* from one goroutine to the next the code keeps no order; dispatcher.go run,
\* collect, dispatcherFor.)
ProducerOrder ==
  /\ \A d \in Dispatchers :
       /\ InOrder(events, batch[d])
       /\ InOrder(events, queue[d])
       /\ Before(events, batch[d], queue[d])
  /\ \A c \in 1 .. Len(clients) :
       (\A d, e \in Dispatchers : dClient[d] = c /\ dClient[e] = c => d = e)
         => InOrder(events, sent[c])

\* Whatever is queued is delivered, or the goroutine of the queue ends
\* (dispatcher.go run and collect).
QueueDrains ==
  \A d \in Dispatchers, e \in Events :
    e \in Elements(queue[d]) ~>
      (dpc[d] = "ended" \/ \E c \in Clients : c = dClient[d] /\ e \in Elements(sent[c]))

\* A dispatcher that was told to stop, or that a swap has taken out of the
\* table, does end (dispatcher.go stop, stopDispatchers).
StopEnds ==
  \A d \in Dispatchers : (d \in stopping \/ done[d]) ~> (dpc[d] = "ended")

\* dropDispatcherLocked: "stops the dispatcher of a registration that was
\* replaced or removed, so no event goes out to the client it held".  An event
\* goes out only to clients that were registered when it was fired.
OnlySnapshotClients ==
  \A c \in Clients : \A i \in DOMAIN sent[c] : c \in events[sent[c][i]].to

=============================================================================
