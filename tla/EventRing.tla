----------------------------- MODULE EventRing -----------------------------
(***************************************************************************)
(* The event stream of pkg/litefake: the bounded ring of messages with its *)
(* readers (ring.go) and the handler of GET /api/rpc/v1/events that opens, *)
(* resumes, feeds and ends a stream (stream.go), together with consumers   *)
(* that remember the id of the last frame they saw and resume from it.     *)
(*                                                                         *)
(* What happens under the ring's lock is one step, and so is every frame   *)
(* written to a stream.  A stream is a slot that is reused once its        *)
(* handler has returned.  Frames are received as they are written while    *)
(* the consumer is connected; frames still in a socket buffer when the     *)
(* connection breaks are those of a break one step earlier.  The           *)
(* deliberate contract deviations of deviate.go are switched off.          *)
(***************************************************************************)
EXTENDS Integers, Sequences, FiniteSets

CONSTANTS
  Consumers,    \* clients, each with a credential of its own
  Streams,      \* slots for concurrently attached streams
  Topics,       \* what a filter can tell apart in a message
  Filter,       \* Filter[c]: the topics consumer c asks for
  RingEvents,   \* ring.maxEvents
  ReaderQueue,  \* ring.queueSize
  PerSubject,   \* ring.perSubj
  Total,        \* ring.total
  NoConsumer,   \* owner of a free slot
  NoStream,     \* stream of a consumer that is not connected
  MaxSeq,       \* bound: messages per boot
  MaxBoots      \* bound: boots

ASSUME RingAssumption ==
  /\ Filter \in [Consumers -> SUBSET Topics]
  /\ NoConsumer \notin Consumers
  /\ NoStream \notin Streams
  /\ RingEvents \in Nat \ {0}
  /\ ReaderQueue \in Nat \ {0}
  /\ PerSubject \in Nat \ {0}
  /\ Total \in Nat \ {0}
  /\ MaxSeq \in Nat
  /\ MaxBoots \in Nat \ {0}

VARIABLES
  boot,       \* ring.bootID, as a count of the boots so far
  last,       \* ring.last
  msgs,       \* ring.msgs
  attached,   \* ring.readers
  spc,        \* where the handler of a stream is
  owner,      \* reader.subject
  queue,      \* reader.queue
  dropped,    \* reader.dropped > 0
  killed,     \* reader.kill is closed
  helloId,    \* attachResult.bootID and .seq: the id of the hello frame
  replay,     \* attachResult.replay, what is left to write
  resync,     \* attachResult.resync
  pos,        \* history: seq of the last message the handler has dealt with
  revoked,    \* consumers whose credential no longer resolves
  conn,       \* the stream a consumer is connected to
  lastId,     \* the id a consumer would send as Last-Event-ID
  seen,       \* history: seqs of this boot a consumer has seeded or was offered
  cut         \* history: consumers whose connection broke at a bad moment

ring      == <<boot, last, msgs>>
stream    == <<attached, spc, owner, queue, dropped, killed, helloId, replay,
               resync, pos>>
consumer  == <<conn, lastId, seen, cut>>
vars      == <<ring, stream, consumer, revoked>>

Message == [seq : 1 .. MaxSeq, topic : Topics]
Id      == [boot : 0 .. MaxBoots, seq : 0 .. MaxSeq]
NoId    == [boot |-> 0, seq |-> 0]   \* no Last-Event-ID: boots count from 1

Init ==
  /\ boot = 1
  /\ last = 0
  /\ msgs = <<>>
  /\ attached = {}
  /\ spc = [s \in Streams |-> "free"]
  /\ owner = [s \in Streams |-> NoConsumer]
  /\ queue = [s \in Streams |-> <<>>]
  /\ dropped = [s \in Streams |-> FALSE]
  /\ killed = [s \in Streams |-> FALSE]
  /\ helloId = [s \in Streams |-> NoId]
  /\ replay = [s \in Streams |-> <<>>]
  /\ resync = [s \in Streams |-> "none"]
  /\ pos = [s \in Streams |-> 0]
  /\ revoked = {}
  /\ conn = [c \in Consumers |-> NoStream]
  /\ lastId = [c \in Consumers |-> NoId]
  /\ seen = [c \in Consumers |-> {}]
  /\ cut = {}

-----------------------------------------------------------------------------
(* The ring                                                                *)

\* Mutation: the ring keeps one message more than it may.
PruneOffByOne(held, atLeast, atMost) ==
  {SubSeq(held, drop + 1, Len(held)) :
     drop \in {n \in 0 .. atMost : n >= atLeast - 1}}

\* pruneLocked: the oldest messages go, as many as are over the bound at
\* least, and any further ones that have passed RingAge.
Prune(held, atLeast, atMost) ==
  {SubSeq(held, drop + 1, Len(held)) :
     drop \in {n \in 0 .. atMost : n >= atLeast}}

\* Mutation: a full queue makes room by losing its oldest message unnoticed.
OfferDropOldest(readers, m) ==
  /\ queue' = [t \in Streams |->
       IF t \notin readers THEN queue[t]
       ELSE IF Len(queue[t]) < ReaderQueue THEN Append(queue[t], m)
       ELSE Append(Tail(queue[t]), m)]
  /\ dropped' = dropped

\* The fan-out of publish: a full queue loses the message and counts it.
Offer(readers, m) ==
  /\ queue' = [t \in Streams |->
       IF t \in readers /\ Len(queue[t]) < ReaderQueue
       THEN Append(queue[t], m) ELSE queue[t]]
  /\ dropped' = [t \in Streams |->
       dropped[t] \/ (t \in readers /\ Len(queue[t]) >= ReaderQueue)]

Publish(topic) ==
  LET m    == [seq |-> last + 1, topic |-> topic]
      held == Append(msgs, m)
  IN
  /\ last < MaxSeq
  /\ last' = last + 1
  /\ msgs' \in Prune(held, Len(held) - RingEvents, Len(held) - 1)
  /\ Offer(attached, m)
  /\ UNCHANGED <<boot, attached, spc, owner, killed, helloId, replay, resync,
                 pos, consumer, revoked>>

\* Mutation: the ring must also hold the message at the position itself.
CoversStrict(held, since) == held # <<>> /\ held[1].seq <= since

\* The ring still holds every successor of position since.
Covers(held, since) == held # <<>> /\ held[1].seq <= since + 1

\* The held messages after position since.  The ring is consecutive, so they
\* are the suffix the loop of resumeLocked filters out (AfterProperties of
\* EventRingProofs).
After(held, since) == SubSeq(held, since + 2 - held[1].seq, Len(held))

\* Mutation: what is held is replayed, whether or not it covers the position.
ResumeHeld(held, id) ==
  IF id.boot # boot THEN [replay |-> <<>>, resync |-> "boot"]
  ELSE [replay |-> SelectSeq(held, LAMBDA m : m.seq > id.seq), resync |-> "none"]

\* resumeLocked.
Resume(held, id) ==
  IF id.boot # boot THEN [replay |-> <<>>, resync |-> "boot"]
  ELSE IF id.seq >= last THEN [replay |-> <<>>, resync |-> "none"]
  ELSE IF ~Covers(held, id.seq) THEN [replay |-> <<>>, resync |-> "gap"]
  ELSE [replay |-> After(held, id.seq), resync |-> "none"]

StreamsOf(c) == {s \in attached : owner[s] = c}

\* Mutation: the limits are tested against one stream too many.
MayAttachLoose(c) ==
  /\ Cardinality(attached) <= Total
  /\ Cardinality(StreamsOf(c)) <= PerSubject

MayAttach(c) ==
  /\ Cardinality(attached) < Total
  /\ Cardinality(StreamsOf(c)) < PerSubject

\* The opening of a stream that asks to continue after id, NoId for none.
Opening(held, id) ==
  IF id = NoId THEN [replay |-> <<>>, resync |-> "none"] ELSE Resume(held, id)

\* attach: unless a limit is reached, a reader with an empty queue joins the
\* ring, of which the prune leaves held.
Join(c, s, id, held) ==
  LET res == Opening(held, id) IN
  /\ c \notin revoked
  /\ conn[c] = NoStream
  /\ spc[s] = "free"
  /\ MayAttach(c)
  /\ msgs' = held
  /\ attached' = attached \cup {s}
  /\ spc' = [spc EXCEPT ![s] = "hello"]
  /\ owner' = [owner EXCEPT ![s] = c]
  /\ queue' = [queue EXCEPT ![s] = <<>>]
  /\ dropped' = [dropped EXCEPT ![s] = FALSE]
  /\ killed' = [killed EXCEPT ![s] = FALSE]
  /\ helloId' = [helloId EXCEPT ![s] = [boot |-> boot, seq |-> last]]
  /\ replay' = [replay EXCEPT ![s] = res.replay]
  /\ resync' = [resync EXCEPT ![s] = res.resync]
  /\ pos' = [pos EXCEPT ![s] = IF res.replay = <<>> THEN last ELSE id.seq]
  /\ conn' = [conn EXCEPT ![c] = s]
  /\ UNCHANGED <<boot, last, lastId, seen, cut, revoked>>

Attach(c, s, id) ==
  \E held \in Prune(msgs, 0, Len(msgs)) : Join(c, s, id, held)

DropStreams ==
  /\ killed' = [s \in Streams |-> killed[s] \/ s \in attached]
  /\ UNCHANGED <<ring, attached, spc, owner, queue, dropped, helloId, replay,
                 resync, pos, consumer, revoked>>

ForceOverflow ==
  /\ dropped' = [s \in Streams |-> dropped[s] \/ s \in attached]
  /\ UNCHANGED <<ring, attached, spc, owner, queue, killed, helloId, replay,
                 resync, pos, consumer, revoked>>

ForceGap ==
  /\ msgs' = <<>>
  /\ UNCHANGED <<boot, last, stream, consumer, revoked>>

Restart ==
  /\ boot < MaxBoots
  /\ boot' = boot + 1
  /\ last' = 0
  /\ msgs' = <<>>
  /\ killed' = [s \in Streams |-> killed[s] \/ s \in attached]
  /\ seen' = [c \in Consumers |-> {}]
  /\ cut' = {}
  /\ UNCHANGED <<attached, spc, owner, queue, dropped, helloId, replay, resync,
                 pos, conn, lastId, revoked>>

-----------------------------------------------------------------------------
(* The handler of a stream                                                 *)

Connected(s) == owner[s] \in Consumers /\ conn[owner[s]] = s

\* The id a stream writes for seq: the boot is the one it attached under.
IdOf(s, seq) == [boot |-> helloId[s].boot, seq |-> seq]

\* History: the owner of s, if it is still there, has been offered the messages
\* seqs of this boot or has read the state they led to.
Offered(s, seqs) ==
  seen' = IF Connected(s) /\ helloId[s].boot = boot
          THEN [seen EXCEPT ![owner[s]] = @ \cup seqs] ELSE seen

\* A frame with an id is written; of a broken connection nobody reads it, and
\* the write may fail (see End).
Frame(s, id) ==
  lastId' = IF Connected(s) THEN [lastId EXCEPT ![owner[s]] = id] ELSE lastId

\* A consumer that connects for the first time reads the state after the hello.
WriteHello(s) ==
  /\ spc[s] = "hello"
  /\ spc' = [spc EXCEPT ![s] = IF resync[s] # "none" THEN "resync" ELSE "replay"]
  /\ Frame(s, helloId[s])
  /\ Offered(s, IF Connected(s) /\ lastId[owner[s]] = NoId
                THEN 1 .. helloId[s].seq ELSE {})
  /\ UNCHANGED <<ring, attached, owner, queue, dropped, killed, helloId, replay,
                 resync, pos, conn, cut, revoked>>

\* A consumer that is told to resync seeds its state again, which covers at
\* least what had been published at the hello.
WriteResync(s) ==
  /\ spc[s] = "resync"
  /\ spc' = [spc EXCEPT ![s] = "replay"]
  /\ Offered(s, 1 .. helloId[s].seq)
  /\ cut' = IF Connected(s) THEN cut \ {owner[s]} ELSE cut
  /\ UNCHANGED <<ring, attached, owner, queue, dropped, killed, helloId, replay,
                 resync, pos, conn, lastId, revoked>>

\* Message m of stream s is written if it passes the filter, else skipped.
Write(s, m) ==
  /\ IF owner[s] \in Consumers /\ m.topic \in Filter[owner[s]]
     THEN Frame(s, IdOf(s, m.seq)) ELSE UNCHANGED lastId
  /\ Offered(s, {m.seq})

WriteReplay(s) ==
  /\ spc[s] = "replay"
  /\ \/ /\ replay[s] # <<>>
        /\ Write(s, Head(replay[s]))
        /\ replay' = [replay EXCEPT ![s] = Tail(@)]
        /\ pos' = [pos EXCEPT ![s] = Head(replay[s]).seq]
        /\ UNCHANGED spc
     \/ /\ replay[s] = <<>>
        /\ spc' = [spc EXCEPT ![s] = "live"]
        /\ UNCHANGED <<replay, pos, lastId, seen>>
  /\ UNCHANGED <<ring, attached, owner, queue, dropped, killed, helloId, resync,
                 conn, cut, revoked>>

WriteLive(s) ==
  /\ spc[s] = "live"
  /\ queue[s] # <<>>
  /\ Write(s, Head(queue[s]))
  /\ queue' = [queue EXCEPT ![s] = Tail(@)]
  /\ pos' = [pos EXCEPT ![s] = Head(queue[s]).seq]
  /\ UNCHANGED <<ring, attached, spc, owner, dropped, killed, helloId, replay,
                 resync, conn, cut, revoked>>

\* The handler returns and its deferred detach runs, after which the slot is
\* as new; the consumer, if it is still there, sees the stream end.
Detach(s) ==
  /\ attached' = attached \ {s}
  /\ spc' = [spc EXCEPT ![s] = "free"]
  /\ owner' = [owner EXCEPT ![s] = NoConsumer]
  /\ queue' = [queue EXCEPT ![s] = <<>>]
  /\ replay' = [replay EXCEPT ![s] = <<>>]
  /\ killed' = [killed EXCEPT ![s] = FALSE]
  /\ conn' = [c \in Consumers |-> IF conn[c] = s THEN NoStream ELSE conn[c]]
  /\ dropped' = [dropped EXCEPT ![s] = FALSE]
  /\ helloId' = [helloId EXCEPT ![s] = NoId]
  /\ resync' = [resync EXCEPT ![s] = "none"]
  /\ pos' = [pos EXCEPT ![s] = 0]
  /\ UNCHANGED <<ring, lastId, revoked>>

\* History: a connection that breaks now leaves its consumer with an id beyond
\* what it was offered: the hello has announced the newest id but the resync or
\* the replay is still to come, or the queue has lost a message.
AtRisk(s) == spc[s] = "resync" \/ replay[s] # <<>> \/ dropped[s]

Broken(s) == IF Connected(s) /\ AtRisk(s) THEN cut \cup {owner[s]} ELSE cut

\* A heartbeat tick that finds lost messages reports them and ends the stream.
TickOverflow(s) ==
  /\ spc[s] = "live"
  /\ dropped[s]
  /\ Detach(s)
  /\ Offered(s, 1 .. last)
  /\ cut' = IF Connected(s) THEN cut \ {owner[s]} ELSE cut

\* Mutation: the handler does not watch the request context.
EndWithoutContext(s) ==
  /\ s \in attached
  /\ \/ spc[s] = "live" /\ killed[s]
     \/ spc[s] = "live" /\ ~dropped[s] /\ owner[s] \in revoked
  /\ cut' = Broken(s)
  /\ Detach(s)
  /\ UNCHANGED seen

\* The other ways out of the handler: the request context is done or a write
\* fails because the consumer has gone; the reader was stopped; a tick finds
\* the credential revoked.
End(s) ==
  /\ s \in attached
  /\ \/ ~Connected(s)
     \/ spc[s] = "live" /\ killed[s]
     \/ spc[s] = "live" /\ ~dropped[s] /\ owner[s] \in revoked
  /\ cut' = Broken(s)
  /\ Detach(s)
  /\ UNCHANGED seen

-----------------------------------------------------------------------------
(* Consumers                                                               *)

\* The consumer, or the network between, breaks the connection; the handler
\* learns of it only when it next looks.
Disconnect(c) ==
  /\ conn[c] # NoStream
  /\ conn' = [conn EXCEPT ![c] = NoStream]
  /\ cut' = Broken(conn[c])
  /\ UNCHANGED <<ring, stream, lastId, seen, revoked>>

\* A consumer resumes from the last id it saw; the first time it has none.
Connect(c) == \E s \in Streams : Attach(c, s, lastId[c])

Revoke(c) ==
  /\ c \notin revoked
  /\ revoked' = revoked \cup {c}
  /\ UNCHANGED <<ring, stream, consumer>>

-----------------------------------------------------------------------------
Handler(s) ==
  \/ WriteHello(s) \/ WriteResync(s) \/ WriteReplay(s) \/ WriteLive(s)
  \/ TickOverflow(s) \/ End(s)

Next ==
  \/ \E topic \in Topics : Publish(topic)
  \/ DropStreams \/ ForceOverflow \/ ForceGap \/ Restart
  \/ \E s \in Streams : Handler(s)
  \/ \E c \in Consumers : Connect(c) \/ Disconnect(c) \/ Revoke(c)

Spec == Init /\ [][Next]_vars

\* Handlers run until they block, every write has a deadline of 30 s and the
\* heartbeat ticks.  Nothing obliges consumers, publishers or the operator.
FairSpec == Spec /\ \A s \in Streams : WF_vars(Handler(s))

-----------------------------------------------------------------------------
(* Properties                                                              *)

TypeOK ==
  /\ boot \in 1 .. MaxBoots
  /\ last \in 0 .. MaxSeq
  /\ msgs \in Seq(Message)
  /\ Len(msgs) <= RingEvents
  /\ attached \subseteq Streams
  /\ spc \in [Streams -> {"free", "hello", "resync", "replay", "live"}]
  /\ owner \in [Streams -> Consumers \cup {NoConsumer}]
  /\ queue \in [Streams -> Seq(Message)]
  /\ \A s \in Streams : Len(queue[s]) <= ReaderQueue
  /\ dropped \in [Streams -> BOOLEAN]
  /\ killed \in [Streams -> BOOLEAN]
  /\ helloId \in [Streams -> Id]
  /\ replay \in [Streams -> Seq(Message)]
  /\ resync \in [Streams -> {"none", "boot", "gap"}]
  /\ pos \in [Streams -> 0 .. MaxSeq]
  /\ revoked \subseteq Consumers
  /\ conn \in [Consumers -> Streams \cup {NoStream}]
  /\ lastId \in [Consumers -> Id]
  /\ seen \in [Consumers -> SUBSET (1 .. MaxSeq)]
  /\ cut \subseteq Consumers

Consecutive(held, n) == \A i \in DOMAIN held : held[i].seq = n - Len(held) + i

\* The ring holds consecutive messages that end with the newest one, or
\* nothing: what resumeLocked relies on when it looks at msgs[0] only.
RingConsecutive == Consecutive(msgs, last)

\* Of stream s: what is left of the replay and then the queue continue where the
\* handler is, and unless a loss is on record reach up to the newest message.
ExactlyOnce(s) ==
  LET next == pos[s] + Len(replay[s]) IN
  /\ next <= last
  /\ \A i \in DOMAIN replay[s] : replay[s][i].seq = pos[s] + i
  /\ \A i \in DOMAIN queue[s] : queue[s][i].seq \in next + 1 .. last
  /\ \A i, j \in DOMAIN queue[s] : i < j => queue[s][i].seq < queue[s][j].seq
  /\ ~dropped[s] => /\ \A i \in DOMAIN queue[s] : queue[s][i].seq = next + i
                    /\ next + Len(queue[s]) = last

\* A stream sees every message from its position on exactly once and in order,
\* until it is stopped
\* (ring.go: "a stream that attaches sees every message exactly once").
StreamExactlyOnce == \A s \in attached : ~killed[s] => ExactlyOnce(s)

\* No more streams are attached than the limits allow, zombies whose handler
\* has not noticed the disconnect included (ring.go attach).
StreamLimits ==
  /\ Cardinality(attached) <= Total
  /\ \A c \in Consumers : Cardinality(StreamsOf(c)) <= PerSubject

\* A stream opens with a gap only if the ring lost the message after the
\* position its consumer resumes from, and that is not the newest one.
OpensWithRealGap(s) ==
  spc[s] = "free" /\ spc'[s] = "hello" /\ resync'[s] = "gap" =>
    LET id == lastId[owner'[s]] IN
    /\ id.seq < last
    /\ \A i \in DOMAIN msgs' : msgs'[i].seq # id.seq + 1

\* A consumer is told of a gap only if there is one (ring.go resumeLocked: "a
\* client that has seen everything is never resynced").
GapIsReal == [][\A s \in Streams : OpensWithRealGap(s)]_vars

\* A stream that lost a message, was stopped, lost its consumer or its
\* credential leaves the ring (stream.go handleEvents).
DoomedStreamEnds ==
  \A s \in Streams :
    (/\ s \in attached
     /\ killed[s] \/ dropped[s] \/ owner[s] \in revoked \/ ~Connected(s))
      ~> s \notin attached

\* The messages up to the id a disconnected consumer would resume from that it
\* was neither offered nor told to seed again.
Skipped(c) ==
  IF conn[c] = NoStream /\ lastId[c].boot = boot
  THEN 1 .. lastId[c].seq \ seen[c] ELSE {}

\* A consumer resumes beyond a message it never got only if its connection had
\* broken between the hello and the end of the replay or of the resync, or
\* after an overflow and before the heartbeat that reports it: there is no
\* other way to lose a message unnoticed (ring.go, stream.go writeOpening).
SkipOnlyWhenCut == \A c \in Consumers \ cut : Skipped(c) = {}

\* ring.go resumeLocked: "no message is ever skipped silently".
NoSilentSkip == \A c \in Consumers : Skipped(c) = {}

=============================================================================
