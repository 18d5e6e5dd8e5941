-------------------------- MODULE EventRingProofs --------------------------
(***************************************************************************)
(* Proofs about EventRing for every number of consumers and streams, every *)
(* ring size, queue size and stream limit.                                 *)
(***************************************************************************)
EXTENDS EventRing, SequenceTheorems, FiniteSetTheorems, TLAPS

-----------------------------------------------------------------------------
(* Cutting messages off the front                                          *)

\* A suffix of a sequence of messages is one, as long as it should be and with
\* the messages where they should be.
LEMMA SuffixProperties ==
  ASSUME NEW held \in Seq(Message), NEW drop \in 0 .. Len(held)
  PROVE  LET rest == SubSeq(held, drop + 1, Len(held)) IN
         /\ rest \in Seq(Message)
         /\ Len(rest) = Len(held) - drop
         /\ \A i \in 1 .. Len(rest) : rest[i] = held[drop + i]
<1>1. Len(held) \in Nat /\ drop \in Nat /\ drop <= Len(held)
  OBVIOUS
<1>2. \A i \in drop + 1 .. Len(held) : held[i] \in Message
  BY <1>1
<1>3. /\ SubSeq(held, drop + 1, Len(held)) \in Seq(Message)
      /\ Len(SubSeq(held, drop + 1, Len(held))) =
           IF drop + 1 <= Len(held) THEN Len(held) - (drop + 1) + 1 ELSE 0
      /\ \A i \in 1 .. Len(held) - (drop + 1) + 1 :
           SubSeq(held, drop + 1, Len(held))[i] = held[drop + 1 + i - 1]
  BY <1>1, <1>2, SubSeqProperties
<1> QED
  BY <1>1, <1>3

\* What a prune leaves: a suffix of what was held, the newest message kept.
LEMMA PruneProperties ==
  ASSUME NEW held \in Seq(Message), NEW atLeast \in Int, NEW atMost \in Int,
         atMost <= Len(held), NEW rest \in Prune(held, atLeast, atMost)
  PROVE  \E drop \in 0 .. Len(held) :
           /\ drop >= atLeast
           /\ rest \in Seq(Message)
           /\ Len(rest) = Len(held) - drop
           /\ \A i \in 1 .. Len(rest) : rest[i] = held[drop + i]
<1>1. PICK drop \in {n \in 0 .. atMost : n >= atLeast} :
        rest = SubSeq(held, drop + 1, Len(held))
  BY DEF Prune
<1>2. drop \in 0 .. Len(held) /\ drop >= atLeast
  OBVIOUS
<1> QED
  BY <1>1, <1>2, SuffixProperties

-----------------------------------------------------------------------------
(* Type correctness                                                        *)

LEMMA IdFacts == /\ NoId \in Id
                 /\ \A b \in 1 .. MaxBoots, n \in 0 .. MaxSeq :
                      [boot |-> b, seq |-> n] \in Id
  BY RingAssumption DEF NoId, Id

LEMMA MessageFacts ==
  \A m \in Message : m.seq \in 1 .. MaxSeq /\ m.topic \in Topics
  BY DEF Message

\* The initial state is well typed.
LEMMA InitType == Init => TypeOK
  BY RingAssumption, IdFacts DEF Init, TypeOK

\* The history seen stays well typed whatever a stream offers.
LEMMA OfferedType ==
  ASSUME TypeOK, NEW s \in Streams, NEW seqs \in SUBSET (1 .. MaxSeq),
         Offered(s, seqs)
  PROVE  seen' \in [Consumers -> SUBSET (1 .. MaxSeq)]
  BY DEF TypeOK, Offered

\* Writing a message keeps the consumer's part well typed.
LEMMA WriteType ==
  ASSUME TypeOK, NEW s \in Streams, NEW m \in Message, Write(s, m)
  PROVE  /\ lastId' \in [Consumers -> Id]
         /\ seen' \in [Consumers -> SUBSET (1 .. MaxSeq)]
<1>1. m.seq \in 1 .. MaxSeq
  BY MessageFacts
<1>2. IdOf(s, m.seq) \in Id
  BY <1>1 DEF IdOf, TypeOK, Id
<1>3. {m.seq} \in SUBSET (1 .. MaxSeq)
  BY <1>1
<1> QED
  BY <1>2, <1>3, OfferedType DEF Write, Frame, TypeOK

\* The opening frames of a stream are well typed, wherever it resumes.
LEMMA OpeningType ==
  ASSUME TypeOK, NEW held \in Seq(Message), NEW id \in Id
  PROVE  /\ Opening(held, id).replay \in Seq(Message)
         /\ Opening(held, id).resync \in {"none", "boot", "gap"}
<1>1. id.seq \in 0 .. MaxSeq
  BY DEF Id
<1>2. Covers(held, id.seq) => After(held, id.seq) \in Seq(Message)
  <2> SUFFICES ASSUME Covers(held, id.seq) PROVE After(held, id.seq) \in Seq(Message)
    OBVIOUS
  <2>1. held[1] \in Message /\ held[1].seq <= id.seq + 1
    BY DEF Covers
  <2>2. held[1].seq \in 1 .. MaxSeq
    BY <2>1, MessageFacts
  <2>3. id.seq + 2 - held[1].seq \in Nat \ {0}
    BY SMTT(30), <1>1, <2>1, <2>2, RingAssumption
  <2> QED BY <2>3, SubSeqProperties DEF After
<1> QED
  BY <1>2, SMT DEF Opening, Resume

\* Every step keeps the state well typed.
LEMMA NextType == TypeOK /\ [Next]_vars => TypeOK'
<1> SUFFICES ASSUME TypeOK, [Next]_vars PROVE TypeOK'
  OBVIOUS
<1> USE RingAssumption
<1>1. CASE UNCHANGED vars
  BY <1>1 DEF TypeOK, vars, ring, stream, consumer
<1>2. ASSUME NEW topic \in Topics, Publish(topic) PROVE TypeOK'
  <2> DEFINE m == [seq |-> last + 1, topic |-> topic]
             held == Append(msgs, m)
  <2>1. m \in Message /\ last + 1 \in 0 .. MaxSeq
    BY <1>2 DEF Publish, TypeOK, Message
  <2>2. held \in Seq(Message) /\ Len(held) = Len(msgs) + 1
    BY <2>1 DEF TypeOK
  <2>3. msgs' \in Prune(held, Len(held) - RingEvents, Len(held) - 1)
    BY <1>2 DEF Publish
  <2>4. msgs' \in Seq(Message) /\ Len(msgs') <= RingEvents
    <3>1. PICK drop \in 0 .. Len(held) :
            /\ drop >= Len(held) - RingEvents
            /\ msgs' \in Seq(Message)
            /\ Len(msgs') = Len(held) - drop
      <4>1. Len(held) - RingEvents \in Int /\ Len(held) - 1 \in Int
            /\ Len(held) - 1 <= Len(held)
        BY <2>2
      <4> HIDE DEF held
      <4> QED BY <4>1, <2>2, <2>3, PruneProperties
    <3> QED BY <3>1, <2>2
  <2>5. /\ queue' \in [Streams -> Seq(Message)]
        /\ \A s \in Streams : Len(queue'[s]) <= ReaderQueue
        /\ dropped' \in [Streams -> BOOLEAN]
    <3>1. Offer(attached, m)
      BY <1>2 DEF Publish
    <3> HIDE DEF m
    <3>2. \A s \in Streams : queue'[s] \in Seq(Message) /\ Len(queue'[s]) <= ReaderQueue
      BY <3>1, <2>1 DEF Offer, TypeOK
    <3>3. queue' = [s \in Streams |-> queue'[s]]
      BY <3>1 DEF Offer
    <3>4. dropped' \in [Streams -> BOOLEAN]
      BY <3>1 DEF Offer, TypeOK
    <3> QED BY <3>2, <3>3, <3>4
  <2> QED BY <1>2, <2>1, <2>4, <2>5 DEF Publish, TypeOK, consumer
<1>3. CASE DropStreams
  BY <1>3 DEF DropStreams, TypeOK, ring, consumer
<1>4. CASE ForceOverflow
  BY <1>4 DEF ForceOverflow, TypeOK, ring, consumer
<1>5. CASE ForceGap
  BY <1>5 DEF ForceGap, TypeOK, stream, consumer
<1>6. CASE Restart
  BY <1>6 DEF Restart, TypeOK
<1>7. ASSUME NEW s \in Streams, WriteHello(s) PROVE TypeOK'
  <2>1. seen' \in [Consumers -> SUBSET (1 .. MaxSeq)]
    <3>1. (IF Connected(s) /\ lastId[owner[s]] = NoId
           THEN 1 .. helloId[s].seq ELSE {})
            \in SUBSET (1 .. MaxSeq)
      BY DEF TypeOK, Id
    <3> QED BY <1>7, <3>1, OfferedType DEF WriteHello
  <2> QED BY <1>7, <2>1 DEF WriteHello, Frame, TypeOK, ring
<1>8. ASSUME NEW s \in Streams, WriteResync(s) PROVE TypeOK'
  <2>1. seen' \in [Consumers -> SUBSET (1 .. MaxSeq)]
    <3>1. 1 .. helloId[s].seq \in SUBSET (1 .. MaxSeq)
      BY DEF TypeOK, Id
    <3> QED BY <1>8, <3>1, OfferedType DEF WriteResync
  <2> QED BY <1>8, <2>1 DEF WriteResync, TypeOK, ring
<1>9. ASSUME NEW s \in Streams, WriteReplay(s) PROVE TypeOK'
  <2>1. CASE replay[s] # <<>> /\ Write(s, Head(replay[s]))
             /\ replay' = [replay EXCEPT ![s] = Tail(@)]
             /\ pos' = [pos EXCEPT ![s] = Head(replay[s]).seq]
             /\ UNCHANGED spc
    <3>1. Head(replay[s]) \in Message /\ Tail(replay[s]) \in Seq(Message)
      BY <2>1 DEF TypeOK
    <3>2. Head(replay[s]).seq \in 0 .. MaxSeq
      BY <3>1, MessageFacts
    <3>3. /\ lastId' \in [Consumers -> Id]
          /\ seen' \in [Consumers -> SUBSET (1 .. MaxSeq)]
      BY <2>1, <3>1, WriteType
    <3> QED BY <1>9, <2>1, <3>1, <3>2, <3>3 DEF WriteReplay, TypeOK, ring
  <2>2. CASE spc' = [spc EXCEPT ![s] = "live"]
             /\ UNCHANGED <<replay, pos, lastId, seen>>
    BY <1>9, <2>2 DEF WriteReplay, TypeOK, ring
  <2> QED BY <1>9, <2>1, <2>2 DEF WriteReplay
<1>10. ASSUME NEW s \in Streams, WriteLive(s) PROVE TypeOK'
  <2>1. queue[s] # <<>> /\ Write(s, Head(queue[s]))
    BY <1>10 DEF WriteLive
  <2>2. /\ Head(queue[s]) \in Message
        /\ Tail(queue[s]) \in Seq(Message)
        /\ Len(Tail(queue[s])) <= ReaderQueue
    BY <2>1 DEF TypeOK
  <2>3. Head(queue[s]).seq \in 0 .. MaxSeq
    BY <2>2, MessageFacts
  <2>4. /\ lastId' \in [Consumers -> Id]
        /\ seen' \in [Consumers -> SUBSET (1 .. MaxSeq)]
    BY <2>1, <2>2, WriteType
  <2> QED BY <1>10, <2>2, <2>3, <2>4 DEF WriteLive, TypeOK, ring
<1>11. ASSUME NEW s \in Streams, TickOverflow(s) PROVE TypeOK'
  <2>1. seen' \in [Consumers -> SUBSET (1 .. MaxSeq)] /\ cut' \subseteq Consumers
    <3>1. 1 .. last \in SUBSET (1 .. MaxSeq)
      BY DEF TypeOK
    <3> QED BY <1>11, <3>1, OfferedType DEF TickOverflow, TypeOK
  <2> QED BY <1>11, <2>1, IdFacts DEF TickOverflow, Detach, TypeOK, ring
<1>12. ASSUME NEW s \in Streams, End(s) PROVE TypeOK'
  <2>1. cut' \subseteq Consumers
    <3>1. Connected(s) => owner[s] \in Consumers
      BY DEF Connected, TypeOK
    <3> QED BY <1>12, <3>1 DEF End, Broken, TypeOK
  <2> QED BY <1>12, <2>1, IdFacts DEF End, Detach, TypeOK, ring
<1>13. ASSUME NEW c \in Consumers, NEW s \in Streams, Attach(c, s, lastId[c])
       PROVE  TypeOK'
  <2>1. lastId[c] \in Id
    BY DEF TypeOK
  <2>2. PICK held \in Prune(msgs, 0, Len(msgs)) : Join(c, s, lastId[c], held)
    BY <1>13 DEF Attach
  <2>3. held \in Seq(Message) /\ Len(held) <= RingEvents
    <3>1. msgs \in Seq(Message) /\ Len(msgs) \in Nat /\ Len(msgs) <= RingEvents
      BY DEF TypeOK
    <3>2. PICK drop \in 0 .. Len(msgs) :
            held \in Seq(Message) /\ Len(held) = Len(msgs) - drop
      BY <3>1, PruneProperties
    <3> QED BY <3>1, <3>2
  <2>4. Opening(held, lastId[c]).replay \in Seq(Message)
        /\ Opening(held, lastId[c]).resync \in {"none", "boot", "gap"}
    BY <2>1, <2>3, OpeningType
  <2>5. [boot |-> boot, seq |-> last] \in Id
    BY IdFacts DEF TypeOK
  <2>6. lastId[c].seq \in 0 .. MaxSeq
    BY <2>1 DEF Id
  <2> HIDE DEF Opening
  <2> QED BY SMTT(30), <2>2, <2>3, <2>4, <2>5, <2>6 DEF Join, TypeOK
<1>14. ASSUME NEW c \in Consumers, Disconnect(c) PROVE TypeOK'
  BY <1>14 DEF Disconnect, Broken, Connected, TypeOK, ring, stream
<1>15. ASSUME NEW c \in Consumers, Revoke(c) PROVE TypeOK'
  BY <1>15 DEF Revoke, TypeOK, ring, stream, consumer
<1> QED
  BY <1>1, <1>2, <1>3, <1>4, <1>5, <1>6, <1>7, <1>8, <1>9, <1>10, <1>11,
     <1>12, <1>13, <1>14, <1>15 DEF Next, Handler, Connect

\* The state is well typed, the ring never longer than RingEvents and no queue
\* longer than ReaderQueue.
THEOREM TypeCorrect == Spec => []TypeOK
  BY InitType, NextType, PTL DEF Spec

-----------------------------------------------------------------------------
(* The ring and its readers                                                *)

\* A handler enters its live part only after the whole replay.
LiveHasReplayed == \A s \in Streams : spc[s] = "live" => replay[s] = <<>>

\* The boot of stream s is the one the ring is in: no restart since it attached.
Current(s) == helloId[s].boot = boot

\* No stream is of a boot to come, and those of an earlier one are stopped.
BootsPast ==
  \A s \in attached : helloId[s].boot <= boot /\ (~killed[s] => Current(s))

\* The streams of this boot are exact, stopped ones included.
CurrentExact == \A s \in attached : Current(s) => ExactlyOnce(s)

\* The inductive invariant behind StreamExactlyOnce.
IInv == TypeOK /\ RingConsecutive /\ LiveHasReplayed /\ BootsPast /\ CurrentExact

\* What a prune leaves of a consecutive ring is consecutive.
LEMMA PruneConsecutive ==
  ASSUME NEW held \in Seq(Message), NEW n \in Nat, Consecutive(held, n),
         NEW atLeast \in Int, NEW atMost \in Int, atMost <= Len(held),
         NEW rest \in Prune(held, atLeast, atMost)
  PROVE  rest \in Seq(Message) /\ Consecutive(rest, n)
<1>1. PICK drop \in 0 .. Len(held) :
        /\ rest \in Seq(Message)
        /\ Len(rest) = Len(held) - drop
        /\ \A i \in 1 .. Len(rest) : rest[i] = held[drop + i]
  BY PruneProperties
<1>2. \A i \in DOMAIN rest : rest[i].seq = n - Len(rest) + i
  <2> SUFFICES ASSUME NEW i \in DOMAIN rest PROVE rest[i].seq = n - Len(rest) + i
    OBVIOUS
  <2>1. i \in 1 .. Len(rest) /\ Len(held) \in Nat
    BY <1>1
  <2>2. drop + i \in DOMAIN held
    BY <1>1, <2>1
  <2>3. rest[i] = held[drop + i]
    BY <1>1, <2>1
  <2>4. held[drop + i].seq = n - Len(held) + (drop + i)
    BY <2>2 DEF Consecutive
  <2> QED BY <1>1, <2>1, <2>3, <2>4
<1> QED
  BY <1>1, <1>2 DEF Consecutive

\* The replay from a position that a consecutive ring covers: every later
\* message, in order.
LEMMA AfterProperties ==
  ASSUME NEW held \in Seq(Message), NEW n \in Nat, Consecutive(held, n),
         NEW since \in Nat, since < n, Covers(held, since)
  PROVE  /\ After(held, since) \in Seq(Message)
         /\ Len(After(held, since)) = n - since
         /\ \A i \in 1 .. n - since : After(held, since)[i].seq = since + i
<1>1. held # <<>> /\ Len(held) \in Nat \ {0} /\ 1 \in DOMAIN held
  BY DEF Covers
<1>2. held[1].seq = n - Len(held) + 1
  BY <1>1 DEF Consecutive
<1>3. held[1].seq <= since + 1
  BY DEF Covers
<1> DEFINE drop == since + Len(held) - n
<1>4. drop \in 0 .. Len(held) /\ since + 2 - held[1].seq = drop + 1
  BY <1>1, <1>2, <1>3
<1> HIDE DEF drop
<1>5. After(held, since) = SubSeq(held, drop + 1, Len(held))
  BY <1>4 DEF After
<1>6. /\ After(held, since) \in Seq(Message)
      /\ Len(After(held, since)) = Len(held) - drop
      /\ \A i \in 1 .. Len(After(held, since)) : After(held, since)[i] = held[drop + i]
  BY <1>4, <1>5, SuffixProperties
<1>7. Len(held) - drop = n - since
  BY <1>1 DEF drop
<1>8. ASSUME NEW i \in 1 .. n - since PROVE After(held, since)[i].seq = since + i
  <2>1. drop + i \in DOMAIN held /\ drop + i \in Int
    BY <1>1, <1>4, <1>7
  <2>2. held[drop + i].seq = n - Len(held) + (drop + i)
    BY <2>1 DEF Consecutive
  <2>3. n - Len(held) + (drop + i) = since + i
    BY <1>1 DEF drop
  <2> QED BY <1>6, <1>7, <2>2, <2>3
<1> QED
  BY <1>6, <1>7, <1>8

\* Every step keeps the ring consecutive: the newest message is appended, the
\* oldest go, or all of them do.
LEMMA NextRing == TypeOK /\ RingConsecutive /\ [Next]_vars => RingConsecutive'
<1> SUFFICES ASSUME TypeOK, RingConsecutive, [Next]_vars PROVE RingConsecutive'
  OBVIOUS
<1> USE RingAssumption
<1>1. CASE UNCHANGED ring
  BY <1>1 DEF RingConsecutive, Consecutive, ring
<1>2. ASSUME NEW topic \in Topics, Publish(topic) PROVE RingConsecutive'
  <2> DEFINE m == [seq |-> last + 1, topic |-> topic]
             held == Append(msgs, m)
  <2>1. m \in Message /\ m.seq = last + 1 /\ last \in Nat /\ last' = last + 1
    BY <1>2 DEF Publish, TypeOK, Message
  <2> HIDE DEF m
  <2>2. held \in Seq(Message) /\ Len(held) = Len(msgs) + 1 /\ Len(msgs) \in Nat
    BY <2>1 DEF TypeOK
  <2>3. \A i \in DOMAIN held : held[i].seq = (last + 1) - Len(held) + i
    <3> SUFFICES ASSUME NEW i \in DOMAIN held
                 PROVE  held[i].seq = (last + 1) - Len(held) + i
      OBVIOUS
    <3>1. CASE i = Len(msgs) + 1
      BY <3>1, <2>1, <2>2 DEF TypeOK
    <3>2. CASE i \in DOMAIN msgs
      <4>1. held[i] = msgs[i] /\ i \in Int
        BY <3>2 DEF TypeOK
      <4>2. msgs[i].seq = last - Len(msgs) + i
        BY <3>2 DEF RingConsecutive, Consecutive
      <4> QED BY <4>1, <4>2, <2>1, <2>2
    <3>3. i \in 1 .. Len(msgs) + 1 /\ DOMAIN msgs = 1 .. Len(msgs)
      BY <2>2 DEF TypeOK
    <3> QED BY <3>1, <3>2, <3>3, <2>2
  <2>4. msgs' \in Prune(held, Len(held) - RingEvents, Len(held) - 1)
    BY <1>2 DEF Publish, m
  <2> HIDE DEF held
  <2>5. Consecutive(held, last + 1)
    BY <2>3 DEF Consecutive
  <2>6. /\ Len(held) - RingEvents \in Int /\ Len(held) - 1 \in Int
        /\ Len(held) - 1 <= Len(held) /\ last + 1 \in Nat
    BY <2>1, <2>2
  <2>7. Consecutive(msgs', last + 1)
    BY <2>2, <2>4, <2>5, <2>6, PruneConsecutive
  <2> QED BY <2>1, <2>7 DEF RingConsecutive, Consecutive
<1>3. CASE ForceGap
  BY <1>3 DEF ForceGap, RingConsecutive, Consecutive
<1>4. CASE Restart
  BY <1>4 DEF Restart, RingConsecutive, Consecutive
<1>5. ASSUME NEW c \in Consumers, NEW s \in Streams, Attach(c, s, lastId[c])
      PROVE  RingConsecutive'
  <2>1. msgs' \in Prune(msgs, 0, Len(msgs)) /\ last' = last
    BY <1>5 DEF Attach, Join
  <2>2. msgs \in Seq(Message) /\ Len(msgs) \in Nat /\ last \in Nat
    BY DEF TypeOK
  <2>3. Consecutive(msgs', last)
    BY <2>1, <2>2, PruneConsecutive DEF RingConsecutive
  <2> QED BY <2>1, <2>3 DEF RingConsecutive, Consecutive
<1>6. ASSUME NEW s \in Streams, Handler(s) PROVE UNCHANGED ring
  BY <1>6 DEF Handler, WriteHello, WriteResync, WriteReplay, WriteLive,
              TickOverflow, End, Detach
<1>7. DropStreams \/ ForceOverflow
        \/ (\E c \in Consumers : Disconnect(c) \/ Revoke(c)) => UNCHANGED ring
  BY DEF DropStreams, ForceOverflow, Disconnect, Revoke
<1>8. UNCHANGED vars => UNCHANGED ring
  BY DEF vars
<1> QED
  BY <1>1, <1>2, <1>3, <1>4, <1>5, <1>6, <1>7, <1>8 DEF Next, Connect

\* Every step keeps live streams free of replay.
LEMMA NextReplayed == TypeOK /\ LiveHasReplayed /\ [Next]_vars => LiveHasReplayed'
<1> SUFFICES ASSUME TypeOK, LiveHasReplayed, [Next]_vars PROVE LiveHasReplayed'
  OBVIOUS
<1>1. CASE UNCHANGED <<spc, replay>>
  BY <1>1 DEF LiveHasReplayed
<1>2. ASSUME NEW s \in Streams, Handler(s) PROVE LiveHasReplayed'
  <2>1. CASE WriteHello(s)
    BY <2>1 DEF WriteHello, LiveHasReplayed, TypeOK
  <2>2. CASE WriteResync(s)
    BY <2>2 DEF WriteResync, LiveHasReplayed, TypeOK
  <2>3. CASE WriteReplay(s)
    BY <2>3 DEF WriteReplay, LiveHasReplayed, TypeOK
  <2>4. CASE WriteLive(s)
    BY <2>4 DEF WriteLive, LiveHasReplayed, TypeOK
  <2>5. CASE TickOverflow(s) \/ End(s)
    BY <2>5 DEF TickOverflow, End, Detach, LiveHasReplayed, TypeOK
  <2> QED BY <1>2, <2>1, <2>2, <2>3, <2>4, <2>5 DEF Handler
<1>3. ASSUME NEW c \in Consumers, NEW s \in Streams, Attach(c, s, lastId[c])
      PROVE  LiveHasReplayed'
  BY <1>3 DEF Attach, Join, LiveHasReplayed, TypeOK
<1>4. ASSUME NEW topic \in Topics, Publish(topic) PROVE UNCHANGED <<spc, replay>>
  BY <1>4 DEF Publish
<1>5. DropStreams \/ ForceOverflow \/ ForceGap \/ Restart
        \/ (\E c \in Consumers : Disconnect(c) \/ Revoke(c))
        => UNCHANGED <<spc, replay>>
  BY DEF DropStreams, ForceOverflow, ForceGap, Restart, Disconnect, Revoke, stream
<1>6. UNCHANGED vars => UNCHANGED <<spc, replay>>
  BY DEF vars, stream
<1> QED
  BY <1>1, <1>2, <1>3, <1>4, <1>5, <1>6 DEF Next, Connect

\* A step that leaves a stream alone, or at most records a loss, keeps it exact.
LEMMA StreamSame ==
  ASSUME NEW s \in Streams, ExactlyOnce(s), last' = last, pos'[s] = pos[s],
         replay'[s] = replay[s], queue'[s] = queue[s], dropped[s] => dropped'[s]
  PROVE  ExactlyOnce(s)'
  BY DEF ExactlyOnce

\* A published message continues the queue of every stream or is on record as
\* lost.
LEMMA PublishStream ==
  ASSUME IInv, NEW topic \in Topics, Publish(topic), NEW s \in attached, Current(s)
  PROVE  ExactlyOnce(s)'
<1> DEFINE m == [seq |-> last + 1, topic |-> topic]
<1>1. s \in Streams /\ ExactlyOnce(s)
  BY DEF IInv, TypeOK, CurrentExact
<1>2. /\ last' = last + 1 /\ last \in Nat /\ pos' = pos /\ replay' = replay
      /\ Offer(attached, m)
  BY DEF Publish, IInv, TypeOK
<1>3. /\ pos[s] \in Nat /\ queue[s] \in Seq(Message) /\ replay[s] \in Seq(Message)
      /\ m.seq = last + 1
  BY <1>1 DEF IInv, TypeOK
<1> HIDE DEF m
<1> DEFINE next == pos[s] + Len(replay[s])
<1>4. next \in Nat /\ next <= last
  BY <1>1, <1>3 DEF ExactlyOnce
<1>5. CASE Len(queue[s]) < ReaderQueue
  <2>1. queue'[s] = Append(queue[s], m) /\ (dropped[s] => dropped'[s])
    <3>1. queue'[s] = Append(queue[s], m)
      BY <1>1, <1>2, <1>3, <1>5, RingAssumption DEF Offer
    <3>2. dropped[s] => dropped'[s]
      BY <1>1, <1>2, Zenon DEF Offer
    <3> QED BY <3>1, <3>2
  <2> DEFINE q == queue'[s]
  <2>2. /\ Len(q) = Len(queue[s]) + 1 /\ DOMAIN q = 1 .. Len(queue[s]) + 1
        /\ \A i \in DOMAIN queue[s] : q[i] = queue[s][i]
        /\ q[Len(queue[s]) + 1] = m
        /\ DOMAIN queue[s] = 1 .. Len(queue[s]) /\ Len(queue[s]) \in Nat
    <3>1. Append(queue[s], m) \in Seq(Message \cup {m})
      BY <1>3
    <3> QED BY <2>1, <1>3, <3>1
  <2> HIDE DEF q
  <2>3. \A i \in DOMAIN q : q[i].seq \in next + 1 .. last + 1
    <3> SUFFICES ASSUME NEW i \in DOMAIN q PROVE q[i].seq \in next + 1 .. last + 1
      OBVIOUS
    <3>1. CASE i = Len(queue[s]) + 1
      BY <3>1, <2>2, <1>2, <1>3, <1>4
    <3>2. CASE i \in DOMAIN queue[s]
      <4>1. queue[s][i].seq \in next + 1 .. last
        BY <3>2, <1>1 DEF ExactlyOnce
      <4> QED BY <4>1, <3>2, <2>2, <1>2, <1>4
    <3> QED BY <3>1, <3>2, <2>2
  <2>4. \A i, j \in DOMAIN q : i < j => q[i].seq < q[j].seq
    <3> SUFFICES ASSUME NEW i \in DOMAIN q, NEW j \in DOMAIN q, i < j
                 PROVE  q[i].seq < q[j].seq
      OBVIOUS
    <3>1. i \in DOMAIN queue[s]
      BY <2>2
    <3>2. CASE j = Len(queue[s]) + 1
      <4>1. queue[s][i].seq \in next + 1 .. last
        BY <3>1, <1>1 DEF ExactlyOnce
      <4> QED BY <4>1, <3>1, <3>2, <2>2, <1>2, <1>3, <1>4
    <3>3. CASE j \in DOMAIN queue[s]
      BY <3>1, <3>3, <2>2, <1>1 DEF ExactlyOnce
    <3> QED BY <3>2, <3>3, <2>2
  <2>5. ~dropped'[s] => /\ \A i \in DOMAIN q : q[i].seq = next + i
                        /\ next + Len(q) = last + 1
    <3> SUFFICES ASSUME ~dropped[s]
                 PROVE  /\ \A i \in DOMAIN q : q[i].seq = next + i
                        /\ next + Len(q) = last + 1
      BY <2>1
    <3>1. /\ \A i \in DOMAIN queue[s] : queue[s][i].seq = next + i
          /\ next + Len(queue[s]) = last
      BY <1>1 DEF ExactlyOnce
    <3>2. next + Len(q) = last + 1
      BY <3>1, <2>2, <1>2, <1>4
    <3>3. \A i \in DOMAIN q : i \in DOMAIN queue[s] \/ i = Len(queue[s]) + 1
      BY <2>2
    <3>4. q[Len(queue[s]) + 1].seq = next + (Len(queue[s]) + 1)
      <4>1. last + 1 = next + (Len(queue[s]) + 1)
        BY <3>2, <2>2
      <4> QED BY <4>1, <2>2, <1>3
    <3> QED BY <3>1, <3>2, <3>3, <3>4, <2>2
  <2>6. next <= last + 1
    BY <1>2, <1>4
  <2> QED BY <1>1, <1>2, <2>3, <2>4, <2>5, <2>6 DEF ExactlyOnce, q
<1>6. CASE ~(Len(queue[s]) < ReaderQueue)
  <2>1. queue'[s] = queue[s] /\ dropped'[s]
    <3>1. queue'[s] = queue[s]
      BY <1>1, <1>2, <1>6, Zenon DEF Offer
    <3>2. Len(queue[s]) >= ReaderQueue
      BY <1>3, <1>6, RingAssumption
    <3>3. dropped'[s]
      BY <1>1, <1>2, <3>2, Zenon DEF Offer
    <3> QED BY <3>1, <3>3
  <2>2. \A i \in DOMAIN queue[s] : queue[s][i].seq \in next + 1 .. last + 1
    <3> SUFFICES ASSUME NEW i \in DOMAIN queue[s]
                 PROVE  queue[s][i].seq \in next + 1 .. last + 1
      OBVIOUS
    <3>1. queue[s][i].seq \in next + 1 .. last
      BY <1>1 DEF ExactlyOnce
    <3> QED BY <3>1, <1>2, <1>4
  <2>3. next <= last + 1
    BY <1>2, <1>4
  <2> QED BY <1>1, <1>2, <2>1, <2>2, <2>3 DEF ExactlyOnce
<1> QED
  BY <1>5, <1>6

\* Plain arithmetic, for the step from a position to the next.
LEMMA ShiftOne == \A a, b \in Nat : a + (b + 1) = (a + 1) + b
  OBVIOUS

\* The head of a queue or a replay, and what is left without it.
LEMMA HeadTail ==
  ASSUME NEW q \in Seq(Message), q # <<>>
  PROVE  /\ Head(q) = q[1] /\ 1 \in DOMAIN q
         /\ Len(q) \in Nat \ {0} /\ Len(Tail(q)) = Len(q) - 1
         /\ Tail(q) \in Seq(Message)
         /\ \A i \in DOMAIN Tail(q) :
              i \in Nat \ {0} /\ i + 1 \in DOMAIN q /\ Tail(q)[i] = q[i + 1]
  OBVIOUS

\* Writing a replayed message moves it from what is left to what is done.
LEMMA ReplayStream ==
  ASSUME IInv, NEW s \in Streams, ExactlyOnce(s), last' = last, queue' = queue,
         dropped' = dropped, replay[s] # <<>>,
         replay' = [replay EXCEPT ![s] = Tail(@)],
         pos' = [pos EXCEPT ![s] = Head(replay[s]).seq]
  PROVE  ExactlyOnce(s)'
<1> DEFINE r == replay[s]
<1>1. r \in Seq(Message) /\ pos[s] \in Nat /\ pos'[s] = Head(r).seq /\ replay'[s] = Tail(r)
  BY DEF IInv, TypeOK
<1>2. \A i \in DOMAIN r : r[i].seq = pos[s] + i
  BY DEF ExactlyOnce
<1> HIDE DEF r
<1>3. r # <<>>
  BY DEF r
<1>4. pos'[s] = pos[s] + 1
  BY <1>1, <1>2, <1>3, HeadTail
<1>5. \A i \in DOMAIN Tail(r) : Tail(r)[i].seq = pos'[s] + i
  <2> SUFFICES ASSUME NEW i \in DOMAIN Tail(r) PROVE Tail(r)[i].seq = pos'[s] + i
    OBVIOUS
  <2>1. Tail(r)[i] = r[i + 1] /\ i + 1 \in DOMAIN r /\ i \in Nat
    BY <1>1, <1>3, HeadTail
  <2>2. r[i + 1].seq = pos[s] + (i + 1)
    BY <1>2, <2>1
  <2>3. pos[s] + (i + 1) = (pos[s] + 1) + i
    BY <1>1, <2>1, ShiftOne
  <2> QED BY <1>4, <2>1, <2>2, <2>3
<1>6. pos'[s] + Len(Tail(r)) = pos[s] + Len(r)
  BY <1>1, <1>3, <1>4, HeadTail
<1>7. pos'[s] + Len(replay'[s]) = pos[s] + Len(replay[s])
  BY <1>1, <1>6 DEF r
<1>8. \A i \in DOMAIN replay'[s] : replay'[s][i].seq = pos'[s] + i
  BY <1>1, <1>5
<1> QED
  BY <1>7, <1>8 DEF ExactlyOnce

\* Taking a message off the queue of a live stream moves its position there.
LEMMA LiveStream ==
  ASSUME IInv, NEW s \in Streams, ExactlyOnce(s), last' = last, replay' = replay,
         dropped' = dropped, replay[s] = <<>>, queue[s] # <<>>,
         queue' = [queue EXCEPT ![s] = Tail(@)],
         pos' = [pos EXCEPT ![s] = Head(queue[s]).seq]
  PROVE  ExactlyOnce(s)'
<1> DEFINE q == queue[s]
<1>1. /\ q \in Seq(Message) /\ pos[s] \in Nat /\ last \in Nat
      /\ pos'[s] = Head(q).seq /\ queue'[s] = Tail(q)
  BY DEF IInv, TypeOK
<1>2. pos[s] + Len(replay[s]) = pos[s] /\ Len(replay[s]) = 0
  BY <1>1
<1>3. /\ \A i \in DOMAIN q : q[i].seq \in pos[s] + 1 .. last
      /\ \A i, j \in DOMAIN q : i < j => q[i].seq < q[j].seq
      /\ ~dropped[s] => /\ \A i \in DOMAIN q : q[i].seq = pos[s] + i
                        /\ pos[s] + Len(q) = last
  BY <1>2 DEF ExactlyOnce
<1> HIDE DEF q
<1>4. q # <<>>
  BY DEF q
<1>5. /\ pos'[s] = q[1].seq /\ 1 \in DOMAIN q /\ pos'[s] \in Nat
      /\ pos'[s] \in pos[s] + 1 .. last
  BY <1>1, <1>3, <1>4, HeadTail
<1>6. pos'[s] <= last /\ pos'[s] + Len(replay'[s]) = pos'[s]
  BY <1>1, <1>2, <1>5
<1>7. \A i \in DOMAIN Tail(q) : /\ Tail(q)[i] = q[i + 1] /\ i + 1 \in DOMAIN q
                               /\ i \in Nat \ {0}
  BY <1>1, <1>4, HeadTail
<1>8. \A i \in DOMAIN Tail(q) : Tail(q)[i].seq \in pos'[s] + 1 .. last
  <2> SUFFICES ASSUME NEW i \in DOMAIN Tail(q)
               PROVE  q[i + 1].seq \in pos'[s] + 1 .. last
    BY <1>7
  <2>1. i + 1 \in DOMAIN q /\ 1 < i + 1
    BY <1>7
  <2>2. q[1].seq < q[i + 1].seq /\ q[i + 1].seq \in pos[s] + 1 .. last
    BY <1>3, <1>5, <2>1
  <2> QED BY <1>1, <1>5, <2>2
<1>9. \A i, j \in DOMAIN Tail(q) : i < j => Tail(q)[i].seq < Tail(q)[j].seq
  <2> SUFFICES ASSUME NEW i \in DOMAIN Tail(q), NEW j \in DOMAIN Tail(q), i < j
               PROVE  q[i + 1].seq < q[j + 1].seq
    BY <1>7
  <2>1. i + 1 \in DOMAIN q /\ j + 1 \in DOMAIN q /\ i + 1 < j + 1
    BY <1>7
  <2> QED BY <1>3, <2>1
<1>10. ASSUME ~dropped[s]
       PROVE  /\ \A i \in DOMAIN Tail(q) : Tail(q)[i].seq = pos'[s] + i
              /\ pos'[s] + Len(Tail(q)) = last
  <2>1. /\ \A i \in DOMAIN q : q[i].seq = pos[s] + i
        /\ pos[s] + Len(q) = last
    BY <1>3, <1>10
  <2>2. pos'[s] = pos[s] + 1
    BY <1>1, <1>5, <2>1
  <2>3. pos'[s] + Len(Tail(q)) = last
    BY <1>1, <1>4, <2>1, <2>2, HeadTail
  <2>4. \A i \in DOMAIN Tail(q) : Tail(q)[i].seq = pos'[s] + i
    <3> SUFFICES ASSUME NEW i \in DOMAIN Tail(q) PROVE q[i + 1].seq = pos'[s] + i
      BY <1>7
    <3>1. q[i + 1].seq = pos[s] + (i + 1) /\ i \in Nat
      BY <1>7, <2>1
    <3>2. pos[s] + (i + 1) = (pos[s] + 1) + i
      BY <1>1, <3>1, ShiftOne
    <3> QED BY <2>2, <3>1, <3>2
  <2> QED BY <2>3, <2>4
<1>11. ~dropped'[s] => ~dropped[s]
  OBVIOUS
<1>12. ~dropped'[s] => /\ \A i \in DOMAIN queue'[s] : queue'[s][i].seq = pos'[s] + i
                       /\ pos'[s] + Len(queue'[s]) = last
  BY <1>1, <1>10, <1>11
<1>13. \A i \in DOMAIN replay'[s] : replay'[s][i].seq = pos'[s] + i
  BY SMT
<1> QED
  BY <1>1, <1>6, <1>8, <1>9, <1>12, <1>13 DEF ExactlyOnce

\* A stream opens exact: its replay starts after the position it resumes from
\* and ends with the newest message, or there is none.
LEMMA JoinStream ==
  ASSUME IInv, NEW c \in Consumers, NEW s \in Streams,
         NEW held \in Prune(msgs, 0, Len(msgs)), Join(c, s, lastId[c], held)
  PROVE  ExactlyOnce(s)'
<1> DEFINE id  == lastId[c]
           res == Opening(held, id)
<1>1. /\ last' = last /\ last \in Nat /\ id \in Id /\ id.seq \in Nat
      /\ queue'[s] = <<>> /\ replay'[s] = res.replay
      /\ pos'[s] = IF res.replay = <<>> THEN last ELSE id.seq
  BY DEF Join, IInv, TypeOK, Id
<1>2. held \in Seq(Message) /\ Consecutive(held, last)
  <2>1. msgs \in Seq(Message) /\ Len(msgs) \in Nat /\ last \in Nat
        /\ Consecutive(msgs, last)
    BY DEF IInv, TypeOK, RingConsecutive
  <2> QED BY <2>1, PruneConsecutive
<1>3. CASE res.replay = <<>>
  <2>1. pos'[s] + Len(replay'[s]) = last /\ Len(queue'[s]) = 0
    BY <1>1, <1>3
  <2>2. DOMAIN replay'[s] = {} /\ DOMAIN queue'[s] = {}
    BY <1>1, <1>3
  <2>3. last <= last' /\ last + Len(queue'[s]) = last'
    BY <1>1, <2>1
  <2> QED BY <2>1, <2>2, <2>3 DEF ExactlyOnce
<1>4. CASE res.replay # <<>>
  <2>1. id.seq < last /\ Covers(held, id.seq) /\ res.replay = After(held, id.seq)
    BY <1>1, <1>4 DEF Opening, Resume
  <2>2. /\ res.replay \in Seq(Message)
        /\ Len(res.replay) = last - id.seq
        /\ \A i \in 1 .. last - id.seq : res.replay[i].seq = id.seq + i
    <3>1. PICK from \in Nat : from = id.seq
      BY <1>1
    <3>2. last \in Nat /\ from < last /\ Covers(held, from) /\ res.replay = After(held, from)
      BY <1>1, <2>1, <3>1
    <3>3. /\ After(held, from) \in Seq(Message)
          /\ Len(After(held, from)) = last - from
          /\ \A i \in 1 .. last - from : After(held, from)[i].seq = from + i
      BY <1>2, <3>2, AfterProperties, ZenonT(40)
    <3> QED
      BY <3>1, <3>2, <3>3, ZenonT(40)
  <2> HIDE DEF res
  <2>3. pos'[s] = id.seq /\ DOMAIN res.replay = 1 .. last - id.seq
    BY <1>1, <1>4, <2>2
  <2>4. pos'[s] + Len(replay'[s]) = last
    BY <1>1, <2>2, <2>3
  <2>5. \A i \in DOMAIN replay'[s] : replay'[s][i].seq = pos'[s] + i
    BY <1>1, <2>2, <2>3
  <2>6. DOMAIN queue'[s] = {} /\ last + Len(queue'[s]) = last' /\ last <= last'
    BY <1>1
  <2> QED BY <2>4, <2>5, <2>6 DEF ExactlyOnce
<1> QED
  BY <1>3, <1>4

\* Every step keeps the streams of this boot exact.
LEMMA NextStream == IInv /\ [Next]_vars => CurrentExact'
<1> SUFFICES ASSUME IInv, [Next]_vars, NEW t \in attached', Current(t)'
             PROVE  ExactlyOnce(t)'
  BY DEF CurrentExact
<1> DEFINE Same == /\ t \in attached /\ Current(t) /\ last' = last
                   /\ pos'[t] = pos[t] /\ replay'[t] = replay[t]
                   /\ queue'[t] = queue[t] /\ (dropped[t] => dropped'[t])
<1>1. Same => ExactlyOnce(t)'
  BY StreamSame DEF IInv, TypeOK, CurrentExact
<1>2. CASE UNCHANGED vars
  BY <1>1, <1>2, Zenon DEF vars, ring, stream, Current
<1>3. ASSUME NEW topic \in Topics, Publish(topic) PROVE ExactlyOnce(t)'
  <2>1. t \in attached /\ Current(t)
    BY <1>3 DEF Publish, Current
  <2> QED BY <1>3, <2>1, PublishStream
<1>4. CASE DropStreams
  BY <1>1, <1>4, Zenon DEF DropStreams, Current, ring
<1>5. CASE Restart
  <2>1. t \in attached /\ helloId'[t] = helloId[t] /\ boot' = boot + 1
    BY <1>5 DEF Restart
  <2>2. t \in Streams /\ helloId[t].boot \in Nat /\ boot \in Nat /\ helloId[t].boot <= boot
    BY <2>1 DEF IInv, TypeOK, BootsPast, Id
  <2> QED BY <2>1, <2>2 DEF Current
<1>6. CASE ForceOverflow
  <2>1. /\ UNCHANGED <<last, attached, helloId, boot, pos, replay, queue>>
        /\ dropped' = [s \in Streams |-> dropped[s] \/ s \in attached]
    BY <1>6 DEF ForceOverflow, ring
  <2>2. t \in Streams
    BY <2>1 DEF IInv, TypeOK
  <2>3. Current(t)
    BY <2>1, Zenon DEF Current
  <2> QED BY <1>1, <2>1, <2>2, <2>3, Zenon
<1>7. CASE ForceGap
  BY <1>1, <1>7, Zenon DEF ForceGap, stream, Current
<1>8. ASSUME NEW c \in Consumers, Disconnect(c) \/ Revoke(c) PROVE ExactlyOnce(t)'
  BY <1>1, <1>8, Zenon DEF Disconnect, Revoke, ring, stream, Current
<1>9. ASSUME NEW s \in Streams, Handler(s) PROVE ExactlyOnce(t)'
  <2>1. CASE WriteHello(s) \/ WriteResync(s)
    BY <1>1, <2>1, Zenon DEF WriteHello, WriteResync, ring, Current
  <2>2. CASE WriteReplay(s)
    <3>1. /\ UNCHANGED <<last, attached, helloId, boot, queue, dropped>>
          /\ t \in attached /\ Current(t) /\ t \in Streams
      BY <2>2 DEF WriteReplay, ring, IInv, TypeOK, Current
    <3>2. CASE UNCHANGED <<replay, pos>>
      BY <1>1, <3>1, <3>2
    <3>3. CASE /\ replay[s] # <<>>
               /\ replay' = [replay EXCEPT ![s] = Tail(@)]
               /\ pos' = [pos EXCEPT ![s] = Head(replay[s]).seq]
      <4>1. CASE t = s
        BY <3>1, <3>3, <4>1, ReplayStream DEF IInv, CurrentExact
      <4>2. CASE t # s
        <5>1. replay'[t] = replay[t] /\ pos'[t] = pos[t]
          BY <3>1, <3>3, <4>2 DEF IInv, TypeOK
        <5> QED BY <1>1, <3>1, <5>1
      <4> QED BY <4>1, <4>2
    <3> QED BY <2>2, <3>2, <3>3 DEF WriteReplay
  <2>3. CASE WriteLive(s)
    <3>1. /\ UNCHANGED <<last, attached, helloId, boot, replay, dropped>>
          /\ t \in attached /\ Current(t) /\ t \in Streams
      BY <2>3 DEF WriteLive, ring, IInv, TypeOK, Current
    <3>2. /\ queue[s] # <<>> /\ replay[s] = <<>>
          /\ queue' = [queue EXCEPT ![s] = Tail(@)]
          /\ pos' = [pos EXCEPT ![s] = Head(queue[s]).seq]
      BY <2>3 DEF WriteLive, IInv, LiveHasReplayed
    <3>3. CASE t = s
      BY <3>1, <3>2, <3>3, LiveStream DEF IInv, CurrentExact
    <3>4. CASE t # s
      <4>1. queue'[t] = queue[t] /\ pos'[t] = pos[t]
        BY <3>1, <3>2, <3>4 DEF IInv, TypeOK
      <4> QED BY <1>1, <3>1, <4>1
    <3> QED BY <3>3, <3>4
  <2>4. CASE TickOverflow(s) \/ End(s)
    <3>1. Detach(s)
      BY <2>4 DEF TickOverflow, End
    <3>2. /\ t \in attached /\ t # s /\ t \in Streams /\ last' = last /\ boot' = boot
          /\ pos'[t] = pos[t] /\ replay'[t] = replay[t] /\ queue'[t] = queue[t]
      BY <3>1 DEF Detach, ring, IInv, TypeOK
    <3>3. helloId'[t] = helloId[t] /\ dropped'[t] = dropped[t]
      BY <3>1, <3>2, Zenon DEF Detach, IInv, TypeOK
    <3>4. Current(t)
      BY <3>2, <3>3, Zenon DEF Current
    <3> QED BY <1>1, <3>2, <3>3, <3>4, Zenon
  <2> QED BY <1>9, <2>1, <2>2, <2>3, <2>4 DEF Handler
<1>10. ASSUME NEW c \in Consumers, NEW s \in Streams, Attach(c, s, lastId[c])
      PROVE  ExactlyOnce(t)'
  <2>1. PICK held \in Prune(msgs, 0, Len(msgs)) : Join(c, s, lastId[c], held)
    BY <1>10 DEF Attach
  <2>2. CASE t = s
    BY <2>1, <2>2, JoinStream
  <2>3. CASE t # s
    <3>1. /\ t \in attached /\ t \in Streams /\ last' = last /\ boot' = boot
          /\ pos'[t] = pos[t] /\ replay'[t] = replay[t] /\ queue'[t] = queue[t]
      BY <2>1, <2>3 DEF Join, IInv, TypeOK
    <3>2. helloId'[t] = helloId[t] /\ dropped'[t] = dropped[t]
      BY <2>1, <2>3, <3>1, Zenon DEF Join, IInv, TypeOK
    <3>3. Current(t)
      BY <3>1, <3>2, Zenon DEF Current
    <3> QED BY <1>1, <3>1, <3>2, <3>3, Zenon
  <2> QED BY <2>2, <2>3
<1> QED
  BY <1>2, <1>3, <1>4, <1>5, <1>6, <1>7, <1>8, <1>9, <1>10 DEF Next, Connect

\* Every step keeps the boots of the streams past, or stops the streams.
LEMMA NextBoots == TypeOK /\ BootsPast /\ [Next]_vars => BootsPast'
<1> SUFFICES ASSUME TypeOK, BootsPast, [Next]_vars PROVE BootsPast'
  OBVIOUS
<1>1. CASE UNCHANGED <<boot, helloId, attached, killed>>
  BY <1>1 DEF BootsPast, Current
<1>2. CASE DropStreams
  BY <1>2 DEF DropStreams, BootsPast, Current, TypeOK, ring
<1>3. CASE Restart
  <2> SUFFICES ASSUME NEW s \in attached
               PROVE  helloId[s].boot <= boot + 1 /\ killed'[s]
    BY <1>3, Zenon DEF Restart, BootsPast
  <2>1. s \in Streams /\ helloId[s].boot \in Nat /\ boot \in Nat
    BY DEF TypeOK, Id
  <2>2. helloId[s].boot <= boot
    BY DEF BootsPast
  <2>3. killed'[s]
    BY <1>3, <2>1, Zenon DEF Restart
  <2> QED BY <2>1, <2>2, <2>3
<1>4. ASSUME NEW s \in Streams, TickOverflow(s) \/ End(s) PROVE BootsPast'
  <2>1. Detach(s)
    BY <1>4 DEF TickOverflow, End
  <2> QED BY <2>1 DEF Detach, BootsPast, Current, TypeOK, ring
<1>5. ASSUME NEW c \in Consumers, NEW s \in Streams, Attach(c, s, lastId[c])
      PROVE  BootsPast'
  <2>1. /\ boot' = boot /\ attached' = attached \cup {s} /\ boot \in Nat
        /\ helloId' = [helloId EXCEPT ![s] = [boot |-> boot, seq |-> last]]
        /\ killed' = [killed EXCEPT ![s] = FALSE]
    BY <1>5 DEF Attach, Join, TypeOK
  <2> QED BY <2>1 DEF BootsPast, Current, TypeOK
<1>6. ASSUME NEW s \in Streams,
             WriteHello(s) \/ WriteResync(s) \/ WriteReplay(s) \/ WriteLive(s)
      PROVE  UNCHANGED <<boot, helloId, attached, killed>>
  BY <1>6 DEF WriteHello, WriteResync, WriteReplay, WriteLive, ring
<1>7. (\E topic \in Topics : Publish(topic)) \/ ForceOverflow \/ ForceGap
        \/ (\E c \in Consumers : Disconnect(c) \/ Revoke(c)) \/ UNCHANGED vars
        => UNCHANGED <<boot, helloId, attached, killed>>
  BY DEF Publish, ForceOverflow, ForceGap, Disconnect, Revoke, vars, ring, stream
<1> QED
  BY <1>1, <1>2, <1>3, <1>4, <1>5, <1>6, <1>7 DEF Next, Handler, Connect

\* The invariant holds initially.
LEMMA InitIInv == Init => IInv
  BY InitType DEF Init, IInv, RingConsecutive, Consecutive, LiveHasReplayed,
                  BootsPast, CurrentExact

\* Every step keeps it.
LEMMA NextIInv == IInv /\ [Next]_vars => IInv'
  BY NextType, NextRing, NextReplayed, NextBoots, NextStream DEF IInv

\* It holds of every behaviour.
LEMMA Invariance == Spec => []IInv
  BY InitIInv, NextIInv, PTL DEF Spec

\* For every ring size and whatever the publishers, the operator and the streams
\* do, the messages the ring holds are consecutive and end with the newest: the
\* one comparison with msgs[0] in resumeLocked decides whether a gap exists.
THEOREM RingIsConsecutive == Spec => []RingConsecutive
  BY Invariance, PTL DEF IInv

\* For every queue size and any number of streams, a stream that has not been
\* stopped sees every message after its position exactly once and in order, or
\* has its loss on record.
THEOREM StreamsAreExact == Spec => []StreamExactlyOnce
<1>1. IInv => StreamExactlyOnce
  BY Zenon DEF IInv, BootsPast, CurrentExact, StreamExactlyOnce
<1> QED
  BY <1>1, Invariance, PTL

-----------------------------------------------------------------------------
(* What a consumer has been told and what it has got                       *)

\* A slot is in use exactly while it is attached, and a consumer is connected
\* to a stream of its own.
OwnStreams ==
  /\ \A s \in Streams : s \in attached <=> spc[s] # "free"
  /\ \A c \in Consumers :
       conn[c] # NoStream => conn[c] \in attached /\ owner[conn[c]] = c

\* No id is of a boot to come, and those of this boot do not exceed last.
IdsKnown ==
  /\ \A c \in Consumers :
       lastId[c].boot <= boot /\ (lastId[c].boot = boot => lastId[c].seq <= last)
  /\ \A s \in attached : Current(s) => helloId[s].seq <= last

\* How stream s, of which c reads the frames, opens: where it starts for the id
\* it continues after, and what c has been told of it so far.
Opens(c, s) ==
  /\ lastId[c].boot <= helloId[s].boot
  /\ resync[s] # "none" => replay[s] = <<>>
  /\ spc[s] \in {"hello", "resync"} =>
       /\ helloId[s].seq = pos[s] + Len(replay[s])
       /\ lastId[c] = NoId => replay[s] = <<>>
  /\ spc[s] = "hello" /\ resync[s] = "none" /\ lastId[c] # NoId =>
       lastId[c].boot = helloId[s].boot /\ lastId[c].seq = pos[s]
  /\ spc[s] = "resync" => resync[s] # "none" /\ lastId[c] = helloId[s]
  /\ spc[s] \in {"replay", "live"} =>
       /\ lastId[c].boot = helloId[s].boot
       /\ Current(s) => lastId[c].seq <= pos[s] + Len(replay[s])

StreamsOpen == \A c \in Consumers : conn[c] # NoStream => Opens(c, conn[c])

\* Consumer c got every message up to the id it would resume from, or up to
\* where the stream is that it reads.
Informed(c) ==
  /\ /\ conn[c] = NoStream \/ spc[conn[c]] = "hello"
     /\ lastId[c].boot = boot
     => 1 .. lastId[c].seq \subseteq seen[c]
  /\ /\ conn[c] # NoStream
     /\ spc[conn[c]] \in {"replay", "live"}
     /\ Current(conn[c])
     /\ ~dropped[conn[c]]
     => 1 .. pos[conn[c]] \subseteq seen[c]

\* The inductive invariant behind SkipOnlyWhenCut.
SkipInv ==
  /\ IInv /\ OwnStreams /\ IdsKnown /\ StreamsOpen
  /\ \A c \in Consumers \ cut : Informed(c)

\* A step that leaves alone what consumer c and the stream it is connected to
\* have agreed on.
KeptFor(c) ==
  /\ boot' = boot
  /\ conn'[c] = conn[c] /\ lastId'[c] = lastId[c] /\ seen'[c] = seen[c]
  /\ conn[c] # NoStream =>
       /\ spc'[conn[c]] = spc[conn[c]]
       /\ helloId'[conn[c]] = helloId[conn[c]]
       /\ replay'[conn[c]] = replay[conn[c]]
       /\ resync'[conn[c]] = resync[conn[c]]
       /\ pos'[conn[c]] = pos[conn[c]]
       /\ dropped[conn[c]] => dropped'[conn[c]]

\* Such a step keeps what was told and what was got.
LEMMA Kept ==
  ASSUME NEW c \in Consumers, KeptFor(c)
  PROVE  /\ conn[c] # NoStream /\ Opens(c, conn[c]) =>
              conn'[c] # NoStream /\ Opens(c, conn[c])'
         /\ Informed(c) => Informed(c)'
<1>1. CASE conn[c] = NoStream
  BY <1>1, Zenon DEF KeptFor, Informed
<1>2. CASE conn[c] # NoStream
  <2>1. PICK t : t = conn[c]
    OBVIOUS
  <2>2. /\ boot' = boot /\ conn'[c] = t /\ lastId'[c] = lastId[c]
        /\ seen'[c] = seen[c]
        /\ spc'[t] = spc[t] /\ helloId'[t] = helloId[t] /\ replay'[t] = replay[t]
        /\ resync'[t] = resync[t] /\ pos'[t] = pos[t]
        /\ dropped[t] => dropped'[t]
    BY <1>2, <2>1, Zenon DEF KeptFor
  <2>3. Current(t)' <=> Current(t)
    BY <2>2, Zenon DEF Current
  <2>4. Opens(c, t) => Opens(c, t)'
    BY <2>2, <2>3, Zenon DEF Opens
  <2>5. Informed(c) => Informed(c)'
    BY <1>2, <2>1, <2>2, <2>3, Zenon DEF Informed
  <2>6. conn'[c] = conn[c]
    BY <2>1, <2>2
  <2> QED
    BY <1>2, <2>1, <2>4, <2>5, <2>6, Zenon
<1> QED
  BY <1>1, <1>2

\* A handler touches its own stream only.
LEMMA HandlerOfOne ==
  ASSUME TypeOK, NEW t \in Streams, Handler(t), NEW s \in Streams, s # t
  PROVE  /\ UNCHANGED ring
         /\ spc'[s] = spc[s] /\ helloId'[s] = helloId[s] /\ replay'[s] = replay[s]
         /\ resync'[s] = resync[s] /\ pos'[s] = pos[s] /\ owner'[s] = owner[s]
         /\ s \in attached' <=> s \in attached
         /\ dropped[s] => dropped'[s]
<1>1. CASE WriteHello(t) \/ WriteResync(t)
  BY <1>1, Zenon DEF WriteHello, WriteResync, TypeOK
<1>2. CASE WriteReplay(t)
  BY <1>2, Zenon DEF WriteReplay, TypeOK
<1>3. CASE WriteLive(t)
  BY <1>3, Zenon DEF WriteLive, TypeOK
<1>4. CASE TickOverflow(t) \/ End(t)
  <2>1. Detach(t)
    BY <1>4, Zenon DEF TickOverflow, End
  <2> QED BY <2>1, Zenon DEF Detach, TypeOK
<1> QED
  BY <1>1, <1>2, <1>3, <1>4 DEF Handler

\* And the consumer that is connected to it.
LEMMA HandlerForOne ==
  ASSUME TypeOK, NEW t \in Streams, Handler(t), NEW c \in Consumers, conn[c] # t
  PROVE  /\ conn'[c] = conn[c] /\ lastId'[c] = lastId[c] /\ seen'[c] = seen[c]
         /\ c \in cut' <=> c \in cut
<1>1. ~(Connected(t) /\ owner[t] = c)
  BY DEF Connected
<1>2. \A seqs : Offered(t, seqs) => seen'[c] = seen[c]
  BY <1>1, Zenon DEF Offered, TypeOK
<1>3. \A id : Frame(t, id) => lastId'[c] = lastId[c]
  BY <1>1, Zenon DEF Frame, TypeOK
<1>4. \A m : Write(t, m) => seen'[c] = seen[c] /\ lastId'[c] = lastId[c]
  BY <1>2, <1>3, Zenon DEF Write
<1>5. CASE WriteHello(t)
  BY <1>2, <1>3, <1>5, Zenon DEF WriteHello
<1>6. CASE WriteResync(t)
  <2>1. c \in cut' <=> c \in cut
    BY <1>1, <1>6 DEF WriteResync
  <2> QED BY <1>2, <1>6, <2>1, Zenon DEF WriteResync
<1>7. CASE WriteReplay(t)
  BY <1>4, <1>7, Zenon DEF WriteReplay
<1>8. CASE WriteLive(t)
  BY <1>4, <1>8, Zenon DEF WriteLive
<1>9. CASE TickOverflow(t) \/ End(t)
  <2>1. Detach(t)
    BY <1>9, Zenon DEF TickOverflow, End
  <2>2. conn'[c] = conn[c] /\ lastId'[c] = lastId[c]
    BY <2>1, Zenon DEF Detach
  <2>3. seen'[c] = seen[c]
    BY <1>2, <1>9, Zenon DEF TickOverflow, End
  <2>4. c \in cut' <=> c \in cut
    BY <1>1, <1>9 DEF TickOverflow, End, Broken
  <2> QED BY <2>2, <2>3, <2>4
<1> QED
  BY <1>5, <1>6, <1>7, <1>8, <1>9 DEF Handler

\* So a handler keeps what was agreed with every other consumer.
LEMMA HandlerKeeps ==
  ASSUME TypeOK, NEW t \in Streams, Handler(t), NEW c \in Consumers, conn[c] # t
  PROVE  KeptFor(c)
<1>1. /\ conn'[c] = conn[c] /\ lastId'[c] = lastId[c] /\ seen'[c] = seen[c]
  BY HandlerForOne
<1>2. boot' = boot
  BY DEF Handler, WriteHello, WriteResync, WriteReplay, WriteLive, TickOverflow,
         End, Detach, ring
<1>3. conn[c] # NoStream => conn[c] \in Streams
  BY DEF TypeOK
<1> QED
  BY <1>1, <1>2, <1>3, HandlerOfOne, Zenon DEF KeptFor

\* The consumer connected to a stream owns it.
LEMMA Owns ==
  ASSUME TypeOK, OwnStreams, NEW c \in Consumers, NEW s \in Streams, conn[c] = s
  PROVE  owner[s] = c /\ s \in attached /\ Connected(s) /\ s # NoStream
  BY RingAssumption DEF OwnStreams, Connected, TypeOK

\* Every step keeps consumers on streams of their own.
LEMMA NextOwn == TypeOK /\ OwnStreams /\ [Next]_vars => OwnStreams'
<1> SUFFICES ASSUME TypeOK, OwnStreams, [Next]_vars PROVE OwnStreams'
  OBVIOUS
<1> USE RingAssumption
<1>1. CASE UNCHANGED <<attached, spc, owner, conn>>
  BY <1>1 DEF OwnStreams
<1>2. ASSUME NEW s \in Streams, WriteHello(s) PROVE OwnStreams'
  BY <1>2 DEF WriteHello, OwnStreams, TypeOK
<1>3. ASSUME NEW s \in Streams, WriteResync(s) PROVE OwnStreams'
  BY <1>3 DEF WriteResync, OwnStreams, TypeOK
<1>4. ASSUME NEW s \in Streams, WriteReplay(s) PROVE OwnStreams'
  <2>1. /\ UNCHANGED <<attached, owner, conn>> /\ spc[s] = "replay"
        /\ spc' = spc \/ spc' = [spc EXCEPT ![s] = "live"]
    BY <1>4 DEF WriteReplay
  <2> QED BY <2>1 DEF OwnStreams, TypeOK
<1>5. ASSUME NEW s \in Streams, WriteLive(s) PROVE OwnStreams'
  BY <1>1, <1>5 DEF WriteLive
<1>6. ASSUME NEW s \in Streams, TickOverflow(s) \/ End(s) PROVE OwnStreams'
  <2>1. /\ attached' = attached \ {s} /\ spc' = [spc EXCEPT ![s] = "free"]
        /\ owner' = [owner EXCEPT ![s] = NoConsumer]
        /\ conn' = [c \in Consumers |-> IF conn[c] = s THEN NoStream ELSE conn[c]]
    BY <1>6 DEF TickOverflow, End, Detach
  <2> QED BY <2>1 DEF OwnStreams, TypeOK
<1>7. ASSUME NEW c \in Consumers, NEW s \in Streams, Attach(c, s, lastId[c])
      PROVE  OwnStreams'
  <2>1. /\ spc[s] = "free" /\ attached' = attached \cup {s}
        /\ spc' = [spc EXCEPT ![s] = "hello"] /\ owner' = [owner EXCEPT ![s] = c]
        /\ conn' = [conn EXCEPT ![c] = s]
    BY <1>7 DEF Attach, Join
  <2>2. s \notin attached
    BY <2>1 DEF OwnStreams
  <2> QED BY <2>1, <2>2 DEF OwnStreams, TypeOK
<1>8. ASSUME NEW c \in Consumers, Disconnect(c) PROVE OwnStreams'
  BY <1>8 DEF Disconnect, OwnStreams, TypeOK, stream
<1>9. (\E topic \in Topics : Publish(topic)) \/ DropStreams \/ ForceOverflow
        \/ ForceGap \/ Restart \/ (\E c \in Consumers : Revoke(c)) \/ UNCHANGED vars
        => UNCHANGED <<attached, spc, owner, conn>>
  BY DEF Publish, DropStreams, ForceOverflow, ForceGap, Restart, Revoke, vars,
         stream, consumer
<1> QED
  BY <1>1, <1>2, <1>3, <1>4, <1>5, <1>6, <1>7, <1>8, <1>9
     DEF Next, Handler, Connect

\* What an id known to the ring is.
Known(id) == id.boot <= boot /\ (id.boot = boot => id.seq <= last)

\* The messages an exact stream still has to write are known.
LEMMA HeadsKnown ==
  ASSUME IInv, NEW s \in attached, Current(s)
  PROVE  /\ replay[s] # <<>> => Head(replay[s]).seq = pos[s] + 1
                                /\ Head(replay[s]).seq <= last
         /\ queue[s] # <<>> => Head(queue[s]).seq <= last
                               /\ Head(queue[s]).seq > pos[s]
                               /\ (~dropped[s] /\ replay[s] = <<>> =>
                                     Head(queue[s]).seq = pos[s] + 1)
<1>1. /\ s \in Streams /\ replay[s] \in Seq(Message) /\ queue[s] \in Seq(Message)
      /\ pos[s] \in Nat /\ last \in Nat
  BY DEF IInv, TypeOK
<1>2. ExactlyOnce(s)
  BY DEF IInv, CurrentExact
<1>3. ASSUME replay[s] # <<>>
      PROVE  Head(replay[s]).seq = pos[s] + 1 /\ Head(replay[s]).seq <= last
  <2>1. Head(replay[s]) = replay[s][1] /\ 1 \in DOMAIN replay[s]
        /\ Len(replay[s]) \in Nat \ {0}
    BY <1>1, <1>3, HeadTail
  <2>2. replay[s][1].seq = pos[s] + 1 /\ pos[s] + Len(replay[s]) <= last
    BY <1>2, <2>1 DEF ExactlyOnce
  <2> QED BY <1>1, <2>1, <2>2
<1>4. ASSUME queue[s] # <<>>
      PROVE  /\ Head(queue[s]).seq <= last /\ Head(queue[s]).seq > pos[s]
             /\ ~dropped[s] /\ replay[s] = <<>> => Head(queue[s]).seq = pos[s] + 1
  <2>1. Head(queue[s]) = queue[s][1] /\ 1 \in DOMAIN queue[s]
        /\ Len(replay[s]) \in Nat
    BY <1>1, <1>4, HeadTail
  <2>2. queue[s][1].seq \in pos[s] + Len(replay[s]) + 1 .. last
    BY <1>2, <2>1 DEF ExactlyOnce
  <2>3. ~dropped[s] => queue[s][1].seq = pos[s] + Len(replay[s]) + 1
    BY <1>2, <2>1 DEF ExactlyOnce
  <2>4. replay[s] = <<>> => pos[s] + Len(replay[s]) + 1 = pos[s] + 1
    BY <1>1
  <2>5. queue[s][1].seq <= last /\ queue[s][1].seq > pos[s]
    BY <1>1, <2>1, <2>2
  <2>6. ~dropped[s] /\ replay[s] = <<>> => queue[s][1].seq = pos[s] + 1
    BY <2>3, <2>4
  <2> QED BY <2>1, <2>5, <2>6
<1> QED
  BY <1>3, <1>4

\* A frame that carries a known id leaves only known ids with the consumers.
LEMMA FrameKnown ==
  ASSUME TypeOK, IdsKnown, NEW s \in Streams, NEW id, Known(id), Frame(s, id)
  PROVE  \A c \in Consumers : Known(lastId'[c])
<1>1. \A c \in Consumers : Known(lastId[c])
  BY DEF IdsKnown, Known
<1>2. \A c \in Consumers : lastId'[c] = lastId[c] \/ lastId'[c] = id
  BY DEF Frame, TypeOK
<1> QED
  BY <1>1, <1>2, Zenon

\* The hello of a stream is known, and so is the id of what it still has to write.
LEMMA FramesKnown ==
  ASSUME IInv, IdsKnown, NEW s \in attached
  PROVE  /\ Known(helloId[s])
         /\ replay[s] # <<>> => Known(IdOf(s, Head(replay[s]).seq))
         /\ queue[s] # <<>> => Known(IdOf(s, Head(queue[s]).seq))
<1>1. helloId[s].boot <= boot /\ (Current(s) => helloId[s].seq <= last)
  BY DEF IInv, BootsPast, IdsKnown
<1>2. \A n : IdOf(s, n).boot = helloId[s].boot /\ IdOf(s, n).seq = n
  BY DEF IdOf
<1> QED
  BY <1>1, <1>2, HeadsKnown DEF Known, Current

\* Every step keeps the ids known.
LEMMA NextIds == IInv /\ OwnStreams /\ IdsKnown /\ [Next]_vars => IdsKnown'
<1> SUFFICES ASSUME IInv, OwnStreams, IdsKnown, [Next]_vars PROVE IdsKnown'
  OBVIOUS
<1> DEFINE Hellos == \A s \in attached : Current(s) => helloId[s].seq <= last
<1>1. TypeOK
  BY DEF IInv
<1>2. CASE UNCHANGED <<boot, last, lastId, attached, helloId>>
  BY <1>2 DEF IdsKnown, Current
<1>3. ASSUME NEW topic \in Topics, Publish(topic) PROVE IdsKnown'
  <2>1. /\ boot' = boot /\ last' = last + 1 /\ last \in Nat
        /\ UNCHANGED <<lastId, attached, helloId>>
    BY <1>1, <1>3 DEF Publish, TypeOK, consumer
  <2>2. \A id \in Id : id.seq <= last => id.seq <= last'
    BY <2>1 DEF Id
  <2>3. /\ \A c \in Consumers : lastId[c] \in Id
        /\ \A s \in attached : helloId[s] \in Id
    BY <1>1 DEF TypeOK
  <2> QED BY <2>1, <2>2, <2>3 DEF IdsKnown, Current
<1>4. CASE Restart
  <2>1. /\ boot' = boot + 1 /\ boot \in Nat
        /\ UNCHANGED <<lastId, attached, helloId>>
    BY <1>1, <1>4 DEF Restart, TypeOK
  <2>2. \A id \in Id : id.boot <= boot => id.boot <= boot' /\ id.boot # boot'
    BY <2>1 DEF Id
  <2>3. /\ \A c \in Consumers : lastId[c] \in Id /\ lastId[c].boot <= boot
        /\ \A s \in attached : helloId[s] \in Id /\ helloId[s].boot <= boot
    BY <1>1 DEF TypeOK, IdsKnown, IInv, BootsPast
  <2> QED BY <2>1, <2>2, <2>3 DEF IdsKnown, Current
<1>5. ASSUME NEW s \in Streams, NEW id, Known(id), Frame(s, id),
             UNCHANGED <<boot, last, attached, helloId>>
      PROVE  IdsKnown'
  <2>1. \A c \in Consumers : Known(lastId'[c])
    BY <1>1, <1>5, FrameKnown
  <2>2. Hellos'
    BY <1>5 DEF IdsKnown, Current
  <2> QED BY <1>5, <2>1, <2>2 DEF IdsKnown, Known
<1>6. ASSUME NEW s \in Streams, WriteHello(s) PROVE IdsKnown'
  <2>1. s \in attached
    BY <1>6 DEF WriteHello, OwnStreams
  <2>2. Known(helloId[s])
    BY <2>1, FramesKnown
  <2>3. Frame(s, helloId[s]) /\ UNCHANGED <<boot, last, attached, helloId>>
    BY <1>6 DEF WriteHello, ring
  <2> QED BY <1>5, <2>2, <2>3
<1>7. ASSUME NEW s \in Streams, WriteReplay(s) \/ WriteLive(s) PROVE IdsKnown'
  <2>1. s \in attached
    BY <1>7 DEF WriteReplay, WriteLive, OwnStreams
  <2>2. UNCHANGED <<boot, last, attached, helloId>>
    BY <1>7 DEF WriteReplay, WriteLive, ring
  <2>3. ASSUME NEW m, Write(s, m), Known(IdOf(s, m.seq)) PROVE IdsKnown'
    BY <1>2, <1>5, <2>2, <2>3 DEF Write
  <2>4. \/ lastId' = lastId
        \/ replay[s] # <<>> /\ Write(s, Head(replay[s]))
        \/ queue[s] # <<>> /\ Write(s, Head(queue[s]))
    BY <1>7 DEF WriteReplay, WriteLive
  <2> QED BY <1>2, <2>1, <2>2, <2>3, <2>4, FramesKnown
<1>8. ASSUME NEW s \in Streams, TickOverflow(s) \/ End(s) PROVE IdsKnown'
  <2>1. /\ UNCHANGED <<boot, last, lastId>> /\ attached' = attached \ {s}
        /\ helloId' = [helloId EXCEPT ![s] = NoId]
    BY <1>8 DEF TickOverflow, End, Detach, ring
  <2> QED BY <1>1, <2>1 DEF IdsKnown, Current, TypeOK
<1>9. ASSUME NEW c \in Consumers, NEW s \in Streams, Attach(c, s, lastId[c])
      PROVE  IdsKnown'
  <2>1. /\ UNCHANGED <<boot, last, lastId>> /\ attached' = attached \cup {s}
        /\ helloId' = [helloId EXCEPT ![s] = [boot |-> boot, seq |-> last]]
        /\ last \in Nat
    BY <1>1, <1>9 DEF Attach, Join, TypeOK
  <2> QED BY <1>1, <2>1 DEF IdsKnown, Current, TypeOK
<1>10. DropStreams \/ ForceOverflow \/ ForceGap
        \/ (\E c \in Consumers : Disconnect(c) \/ Revoke(c))
        \/ (\E s \in Streams : WriteResync(s)) \/ UNCHANGED vars
        => UNCHANGED <<boot, last, lastId, attached, helloId>>
  BY DEF DropStreams, ForceOverflow, ForceGap, Disconnect, Revoke, WriteResync,
         vars, ring, stream, consumer
<1> QED
  BY <1>2, <1>3, <1>4, <1>6, <1>7, <1>8, <1>9, <1>10 DEF Next, Handler, Connect

\* Where a stream starts for the consumer that opens it.
LEMMA JoinOpens ==
  ASSUME IInv, IdsKnown, NEW c \in Consumers, NEW s \in Streams,
         NEW held \in Prune(msgs, 0, Len(msgs)), Join(c, s, lastId[c], held)
  PROVE  conn'[c] = s /\ spc'[s] = "hello" /\ Opens(c, s)'
<1> DEFINE id  == lastId[c]
           res == Opening(held, id)
<1>1. /\ boot' = boot /\ boot \in Nat \ {0} /\ last \in Nat
      /\ id \in Id /\ id.boot \in Nat /\ id.seq \in Nat /\ lastId' = lastId
      /\ spc'[s] = "hello" /\ conn'[c] = s
      /\ helloId'[s] = [boot |-> boot, seq |-> last]
      /\ replay'[s] = res.replay /\ resync'[s] = res.resync
      /\ pos'[s] = IF res.replay = <<>> THEN last ELSE id.seq
  BY DEF Join, IInv, TypeOK, Id
<1>2. id.boot <= boot /\ (id.boot = boot => id.seq <= last)
  BY DEF IdsKnown
<1>3. helloId'[s].boot = boot /\ helloId'[s].seq = last
  BY <1>1
<1>4. held \in Seq(Message) /\ Consecutive(held, last)
  <2>1. msgs \in Seq(Message) /\ Len(msgs) \in Nat /\ last \in Nat
        /\ Consecutive(msgs, last)
    BY DEF IInv, TypeOK, RingConsecutive
  <2> QED BY <2>1, PruneConsecutive
<1>5. res.resync # "none" => res.replay = <<>>
  BY DEF Opening, Resume
<1>6. id = NoId => res.replay = <<>>
  BY DEF Opening
<1>7. res.resync = "none" /\ id # NoId =>
        id.boot = boot /\ (res.replay = <<>> => id.seq = last)
  <2> SUFFICES ASSUME res.resync = "none", id # NoId
               PROVE  id.boot = boot /\ (res.replay = <<>> => id.seq = last)
    OBVIOUS
  <2>1. id.boot = boot
    BY DEF Opening, Resume
  <2>2. CASE id.seq >= last
    BY <1>1, <1>2, <2>1, <2>2
  <2>3. CASE ~(id.seq >= last)
    <3>1. Covers(held, id.seq) /\ res.replay = After(held, id.seq)
      BY <2>1, <2>3 DEF Opening, Resume
    <3>2. Len(After(held, id.seq)) = last - id.seq
      BY <1>1, <1>4, <2>3, <3>1, AfterProperties
    <3>3. res.replay # <<>>
      BY <1>1, <2>3, <3>1, <3>2
    <3> QED BY <2>1, <3>3
  <2> QED BY <2>2, <2>3
<1>8. pos'[s] + Len(res.replay) = last
  <2>1. CASE res.replay = <<>>
    BY <1>1, <2>1
  <2>2. CASE res.replay # <<>>
    <3>1. id.seq < last /\ Covers(held, id.seq) /\ res.replay = After(held, id.seq)
      BY <1>1, <2>2 DEF Opening, Resume
    <3>2. Len(res.replay) = last - id.seq
      BY <1>1, <1>4, <3>1, AfterProperties
    <3> QED BY <1>1, <2>2, <3>2
  <2> QED BY <2>1, <2>2
<1> HIDE DEF res
<1>9. lastId'[c] = id
  BY <1>1
<1>10. id # NoId /\ res.resync = "none" => pos'[s] = id.seq
  BY <1>1, <1>7
<1> QED
  BY <1>1, <1>2, <1>3, <1>5, <1>6, <1>7, <1>8, <1>9, <1>10 DEF Opens

\* What the consumer of a stream gets of a step of its handler.
LEMMA OwnFrame ==
  ASSUME TypeOK, OwnStreams, NEW c \in Consumers, NEW s \in Streams, conn[c] = s
  PROVE  /\ \A id : Frame(s, id) => lastId'[c] = id
         /\ \A seqs : Offered(s, seqs) =>
              seen'[c] = IF Current(s) THEN seen[c] \cup seqs ELSE seen[c]
         /\ \A m : Write(s, m) =>
              /\ lastId'[c] = lastId[c] \/ lastId'[c] = IdOf(s, m.seq)
              /\ seen'[c] = IF Current(s) THEN seen[c] \cup {m.seq} ELSE seen[c]
<1>1. Connected(s) /\ owner[s] = c
  BY Owns
<1>2. \A id : Frame(s, id) => lastId'[c] = id
  BY <1>1 DEF Frame, TypeOK
<1>3. \A seqs : Offered(s, seqs) =>
        seen'[c] = IF Current(s) THEN seen[c] \cup seqs ELSE seen[c]
  BY <1>1 DEF Offered, Current, TypeOK
<1> QED
  BY <1>2, <1>3, Zenon DEF Write

\* The frames of a stream keep what it and its consumer have agreed on.
LEMMA HandlerOpens ==
  ASSUME IInv, OwnStreams, IdsKnown, NEW s \in Streams, Handler(s),
         NEW c \in Consumers, conn[c] = s, Opens(c, s), conn'[c] # NoStream
  PROVE  conn'[c] = s /\ Opens(c, s)'
<1>1. TypeOK /\ s \in attached /\ s # NoStream
  BY Owns DEF IInv
<1>2. /\ helloId[s] \in Id /\ lastId[c] \in Id /\ pos[s] \in Nat
      /\ replay[s] \in Seq(Message) /\ Len(replay[s]) \in Nat
      /\ helloId[s].seq \in Nat /\ lastId[c].seq \in Nat
      /\ helloId[s].boot \in Nat /\ lastId[c].boot \in Nat
  BY <1>1 DEF TypeOK, Id
<1>3. CASE WriteHello(s)
  <2>1. /\ boot' = boot /\ conn' = conn /\ helloId' = helloId /\ replay' = replay
        /\ resync' = resync /\ pos' = pos /\ spc[s] = "hello"
        /\ spc'[s] = IF resync[s] # "none" THEN "resync" ELSE "replay"
    BY <1>1, <1>3 DEF WriteHello, TypeOK, ring
  <2>2. lastId'[c] = helloId[s]
    BY <1>1, <1>3, OwnFrame DEF WriteHello
  <2>3. helloId[s].seq = pos[s] + Len(replay[s])
    BY <2>1 DEF Opens
  <2>4. helloId[s] = NoId => replay[s] = <<>>
    <3> SUFFICES ASSUME helloId[s] = NoId PROVE replay[s] = <<>>
      OBVIOUS
    <3>1. Len(replay[s]) = 0
      BY <1>2, <2>3 DEF NoId
    <3> QED BY <1>2, <3>1
  <2> QED
    BY <1>2, <2>1, <2>2, <2>3, <2>4 DEF Opens
<1>4. CASE WriteResync(s)
  <2>1. /\ boot' = boot /\ conn' = conn /\ helloId' = helloId /\ replay' = replay
        /\ resync' = resync /\ pos' = pos /\ lastId' = lastId
        /\ spc[s] = "resync" /\ spc'[s] = "replay"
    BY <1>1, <1>4 DEF WriteResync, TypeOK, ring
  <2>2. lastId[c] = helloId[s] /\ helloId[s].seq = pos[s] + Len(replay[s])
    BY <2>1 DEF Opens
  <2> QED
    BY <1>2, <2>1, <2>2 DEF Opens
<1>5. CASE WriteReplay(s)
  <2>1. /\ UNCHANGED <<boot, conn, helloId, resync>> /\ spc[s] = "replay"
    BY <1>5 DEF WriteReplay, ring
  <2>2. /\ lastId[c].boot = helloId[s].boot
        /\ Current(s) => lastId[c].seq <= pos[s] + Len(replay[s])
    BY <2>1 DEF Opens
  <2>3. CASE /\ replay[s] # <<>>
             /\ Write(s, Head(replay[s]))
             /\ replay' = [replay EXCEPT ![s] = Tail(@)]
             /\ pos' = [pos EXCEPT ![s] = Head(replay[s]).seq]
             /\ UNCHANGED spc
    <3>1. /\ replay'[s] = Tail(replay[s]) /\ pos'[s] = Head(replay[s]).seq
          /\ spc' = spc
      BY <1>1, <2>3 DEF TypeOK
    <3>2. /\ Len(replay'[s]) = Len(replay[s]) - 1 /\ Len(replay[s]) \in Nat \ {0}
      BY <1>2, <2>3, <3>1, HeadTail
    <3>3. Current(s) => pos'[s] = pos[s] + 1
      BY <1>1, <2>3, <3>1, HeadsKnown
    <3>4. \/ lastId'[c] = lastId[c]
          \/ lastId'[c].boot = helloId[s].boot /\ lastId'[c].seq = pos'[s]
      <4>1. lastId'[c] = lastId[c] \/ lastId'[c] = IdOf(s, Head(replay[s]).seq)
        BY <1>1, <2>3, OwnFrame
      <4> QED BY <3>1, <4>1 DEF IdOf
    <3>5. lastId'[c].boot = helloId[s].boot
      BY <2>2, <3>4
    <3>6. Current(s) => lastId'[c].seq <= pos'[s] + Len(replay'[s])
      BY <1>2, <2>2, <3>2, <3>3, <3>4
    <3>7. resync[s] # "none" => replay'[s] = <<>>
      BY <2>3 DEF Opens
    <3> QED
      BY <1>2, <2>1, <3>1, <3>5, <3>6, <3>7 DEF Opens, Current
  <2>4. CASE spc' = [spc EXCEPT ![s] = "live"] /\ UNCHANGED <<replay, pos, lastId>>
    <3>1. spc'[s] = "live" /\ replay' = replay /\ pos' = pos /\ lastId' = lastId
      BY <1>1, <2>4 DEF TypeOK
    <3> QED BY <1>2, <2>1, <2>2, <3>1 DEF Opens, Current
  <2> QED BY <1>5, <2>1, <2>3, <2>4 DEF WriteReplay
<1>6. CASE WriteLive(s)
  <2>1. /\ UNCHANGED <<boot, conn, helloId, resync, replay, spc>> /\ spc[s] = "live"
        /\ queue[s] # <<>> /\ Write(s, Head(queue[s]))
        /\ pos'[s] = Head(queue[s]).seq
    BY <1>1, <1>6 DEF WriteLive, ring, TypeOK
  <2>2. /\ lastId[c].boot = helloId[s].boot
        /\ Current(s) => lastId[c].seq <= pos[s] + Len(replay[s])
    BY <2>1 DEF Opens
  <2>3. Current(s) => pos'[s] > pos[s] /\ pos'[s] \in Nat
    <3>1. Head(queue[s]) \in Message
      BY <1>1, <2>1 DEF TypeOK
    <3>2. pos'[s] \in Nat
      BY <2>1, <3>1, MessageFacts
    <3> QED BY <1>1, <2>1, <3>2, HeadsKnown
  <2>4. \/ lastId'[c] = lastId[c]
        \/ lastId'[c].boot = helloId[s].boot /\ lastId'[c].seq = pos'[s]
    <3>1. lastId'[c] = lastId[c] \/ lastId'[c] = IdOf(s, Head(queue[s]).seq)
      BY <1>1, <2>1, OwnFrame
    <3> QED BY <2>1, <3>1 DEF IdOf
  <2>5. lastId'[c].boot = helloId[s].boot
    BY <2>2, <2>4
  <2>6. Current(s) => lastId'[c].seq <= pos'[s] + Len(replay[s])
    BY <1>2, <2>2, <2>3, <2>4
  <2> QED
    BY <1>2, <2>1, <2>5, <2>6 DEF Opens, Current
<1>7. CASE TickOverflow(s) \/ End(s)
  <2>1. conn'[c] = NoStream
    BY <1>7 DEF TickOverflow, End, Detach
  <2> QED BY <2>1
<1> QED
  BY <1>3, <1>4, <1>5, <1>6, <1>7 DEF Handler

\* A consumer that leaves its stream at no bad moment has got what it saw the
\* id of.
LEMMA LeavesInformed ==
  ASSUME TypeOK, OwnStreams, NEW c \in Consumers, NEW s \in Streams, conn[c] = s,
         Opens(c, s), Informed(c), ~AtRisk(s), lastId[c].boot = boot
  PROVE  1 .. lastId[c].seq \subseteq seen[c]
<1>1. s \in attached /\ s # NoStream /\ spc[s] # "free"
  BY Owns DEF OwnStreams
<1>2. spc[s] \in {"hello", "replay", "live"} /\ replay[s] = <<>> /\ ~dropped[s]
  <2>1. spc[s] # "resync" /\ replay[s] = <<>> /\ ~dropped[s]
    BY Zenon DEF AtRisk
  <2> QED BY <1>1, <2>1 DEF TypeOK
<1>3. CASE spc[s] = "hello"
  BY <1>3 DEF Informed
<1>4. CASE spc[s] \in {"replay", "live"}
  <2>1. Current(s) /\ lastId[c].seq <= pos[s] + Len(replay[s])
    BY <1>4 DEF Opens, Current
  <2>2. lastId[c].seq \in Nat /\ pos[s] \in Nat /\ pos[s] + Len(replay[s]) = pos[s]
    BY <1>2 DEF TypeOK, Id
  <2>3. 1 .. pos[s] \subseteq seen[c]
    BY <1>1, <1>2, <1>4, <2>1, Zenon DEF Informed
  <2> QED BY <2>1, <2>2, <2>3
<1> QED
  BY <1>2, <1>3, <1>4

\* The frames of a stream, and its end, keep its consumer informed or cut.
LEMMA HandlerInforms ==
  ASSUME IInv, OwnStreams, IdsKnown, NEW s \in Streams, Handler(s),
         NEW c \in Consumers, conn[c] = s, Opens(c, s),
         c \notin cut => Informed(c), c \notin cut'
  PROVE  Informed(c)'
<1>1. TypeOK /\ s \in attached /\ s # NoStream /\ Connected(s) /\ owner[s] = c
  BY Owns DEF IInv
<1>2. /\ helloId[s] \in Id /\ lastId[c] \in Id /\ pos[s] \in Nat
      /\ replay[s] \in Seq(Message) /\ Len(replay[s]) \in Nat
      /\ helloId[s].seq \in Nat /\ lastId[c].seq \in Nat /\ last \in Nat
  BY <1>1 DEF TypeOK, Id
<1>3. CASE WriteHello(s)
  <2>1. /\ boot' = boot /\ conn' = conn /\ helloId' = helloId /\ pos' = pos
        /\ cut' = cut /\ dropped' = dropped /\ spc[s] = "hello"
        /\ spc'[s] = IF resync[s] # "none" THEN "resync" ELSE "replay"
    BY <1>1, <1>3 DEF WriteHello, TypeOK, ring
  <2>2. Current(s) => seen'[c] = seen[c] \cup
                        (IF lastId[c] = NoId THEN 1 .. helloId[s].seq ELSE {})
    <3>1. Offered(s, IF lastId[c] = NoId THEN 1 .. helloId[s].seq ELSE {})
      BY <1>1, <1>3 DEF WriteHello
    <3> QED BY <1>1, <3>1, OwnFrame
  <2>3. Informed(c)
    BY <2>1
  <2>4. ASSUME resync[s] = "none", Current(s) PROVE 1 .. pos[s] \subseteq seen'[c]
    <3>1. CASE lastId[c] = NoId
      <4>1. helloId[s].seq = pos[s] + Len(replay[s]) /\ replay[s] = <<>>
        BY <2>1, <3>1 DEF Opens
      <4>2. helloId[s].seq = pos[s]
        BY <1>2, <4>1
      <4> QED BY <2>2, <2>4, <3>1, <4>2
    <3>2. CASE lastId[c] # NoId
      <4>1. lastId[c].boot = boot /\ lastId[c].seq = pos[s]
        BY <2>1, <2>4, <3>2 DEF Opens, Current
      <4>2. 1 .. lastId[c].seq \subseteq seen[c]
        BY <2>1, <2>3, <4>1 DEF Informed
      <4> QED BY <2>2, <2>4, <4>1, <4>2
    <3> QED BY <3>1, <3>2
  <2>5. conn'[c] = s /\ spc'[s] # "hello" /\ (spc'[s] = "replay" => resync[s] = "none")
        /\ spc'[s] # "live"
    BY <2>1
  <2>6. Current(s)' => Current(s)
    BY <2>1 DEF Current
  <2>7. pos'[s] = pos[s] /\ conn'[c] # NoStream
    BY <1>1, <2>1
  <2> QED BY <2>4, <2>5, <2>6, <2>7 DEF Informed
<1>4. CASE WriteResync(s)
  <2>1. /\ boot' = boot /\ conn' = conn /\ helloId' = helloId /\ pos' = pos
        /\ spc[s] = "resync" /\ spc'[s] = "replay"
    BY <1>1, <1>4 DEF WriteResync, TypeOK, ring
  <2>2. helloId[s].seq = pos[s] + Len(replay[s]) /\ replay[s] = <<>>
    BY <2>1 DEF Opens
  <2>3. helloId[s].seq = pos[s]
    BY <1>2, <2>2
  <2>4. Current(s) => seen'[c] = seen[c] \cup 1 .. helloId[s].seq
    <3>1. PICK seqs : seqs = 1 .. helloId[s].seq
      OBVIOUS
    <3>2. Offered(s, seqs)
      BY <1>4, <3>1 DEF WriteResync
    <3>3. Current(s) => seen'[c] = seen[c] \cup seqs
      BY <1>1, <3>2, OwnFrame
    <3> QED BY <3>1, <3>3
  <2>5. Current(s)' => Current(s)
    BY <2>1 DEF Current
  <2>6. conn'[c] = s /\ pos'[s] = pos[s]
    BY <2>1
  <2>7. Current(s)' => 1 .. pos[s] \subseteq seen'[c]
    BY <2>3, <2>4, <2>5
  <2> QED BY <1>1, <2>1, <2>6, <2>7 DEF Informed
<1>5. ASSUME NEW m, Write(s, m), Current(s) => m.seq = pos[s] + 1,
             pos'[s] = m.seq, Current(s)' <=> Current(s), conn'[c] = s, ~dropped[s],
             spc[s] \in {"replay", "live"}, spc'[s] = spc[s], c \notin cut
      PROVE  Informed(c)'
  <2>1. ASSUME Current(s) PROVE 1 .. pos'[s] \subseteq seen'[c]
    <3>1. 1 .. pos[s] \subseteq seen[c]
      BY <1>1, <1>5, <2>1, Zenon DEF Informed
    <3>2. seen'[c] = seen[c] \cup {m.seq}
      BY <1>1, <1>5, <2>1, OwnFrame, ZenonT(40)
    <3> QED BY <1>2, <1>5, <2>1, <3>1, <3>2
  <2>2. spc'[s] # "hello" /\ conn'[c] # NoStream
    BY <1>1, <1>5
  <2> QED BY <1>5, <2>1, <2>2 DEF Informed
<1>6. CASE WriteReplay(s)
  <2>1. /\ UNCHANGED <<boot, conn, helloId, dropped, cut>> /\ spc[s] = "replay"
    BY <1>6 DEF WriteReplay, ring
  <2>2. Current(s)' <=> Current(s)
    BY <2>1 DEF Current
  <2>3. CASE /\ replay[s] # <<>>
             /\ Write(s, Head(replay[s]))
             /\ replay' = [replay EXCEPT ![s] = Tail(@)]
             /\ pos' = [pos EXCEPT ![s] = Head(replay[s]).seq]
             /\ UNCHANGED spc
    <3>1. pos'[s] = Head(replay[s]).seq
      BY <1>1, <2>3 DEF TypeOK
    <3>2. Current(s) => Head(replay[s]).seq = pos[s] + 1
      BY <1>1, <2>3, HeadsKnown
    <3>3. CASE dropped[s]
      BY <1>1, <2>1, <2>3, <3>3, Zenon DEF Informed
    <3>4. CASE ~dropped[s]
      <4>1. c \notin cut /\ conn'[c] = s
        BY <2>1
      <4> HIDE DEF Informed
      <4> QED BY <1>5, <2>1, <2>2, <2>3, <3>1, <3>2, <3>4, <4>1
    <3> QED BY <3>3, <3>4
  <2>4. CASE /\ spc' = [spc EXCEPT ![s] = "live"]
             /\ UNCHANGED <<replay, pos, lastId, seen>>
    <3>1. spc'[s] = "live" /\ UNCHANGED <<pos, seen>> /\ spc'[s] # "hello"
      BY <1>1, <2>4 DEF TypeOK
    <3>2. spc[s] \in {"replay", "live"}
      BY <2>1
    <3>3. Informed(c) /\ conn'[c] = s /\ conn[c] = s
      BY <2>1
    <3> QED BY <1>1, <2>1, <2>2, <3>1, <3>2, <3>3, Zenon DEF Informed
  <2> QED BY <1>6, <2>1, <2>3, <2>4 DEF WriteReplay
<1>7. CASE WriteLive(s)
  <2>1. /\ UNCHANGED <<boot, conn, helloId, spc, dropped, cut>> /\ spc[s] = "live"
        /\ queue[s] # <<>> /\ Write(s, Head(queue[s]))
        /\ pos'[s] = Head(queue[s]).seq
    BY <1>1, <1>7 DEF WriteLive, ring, TypeOK
  <2>2. Current(s)' <=> Current(s)
    BY <2>1 DEF Current
  <2>3. replay[s] = <<>>
    BY <2>1 DEF IInv, LiveHasReplayed
  <2>4. Current(s) /\ ~dropped[s] => Head(queue[s]).seq = pos[s] + 1
    BY <1>1, <2>1, <2>3, HeadsKnown
  <2>5. CASE dropped[s]
    <3>1. spc'[s] # "hello" /\ conn'[c] = s /\ dropped'[s] /\ s # NoStream
      BY <1>1, <2>1, <2>5
    <3> QED BY <3>1, Zenon DEF Informed
  <2>6. CASE ~dropped[s]
    <3>1. c \notin cut /\ conn'[c] = s
      BY <2>1
    <3> QED BY <1>5, <2>1, <2>2, <2>4, <2>6, <3>1
  <2> QED BY <2>5, <2>6
<1>8. CASE TickOverflow(s)
  <2>1. /\ conn'[c] = NoStream /\ UNCHANGED <<boot, last, lastId>> /\ spc[s] = "live"
    BY <1>8 DEF TickOverflow, Detach, ring
  <2>2. lastId[c].boot = helloId[s].boot
    BY <2>1 DEF Opens
  <2>3. Current(s) => seen'[c] = seen[c] \cup 1 .. last
    <3>1. PICK seqs : seqs = 1 .. last
      OBVIOUS
    <3>2. Offered(s, seqs)
      BY <1>8, <3>1 DEF TickOverflow
    <3>3. Current(s) => seen'[c] = seen[c] \cup seqs
      BY <1>1, <3>2, OwnFrame
    <3> QED BY <3>1, <3>3
  <2>4. ASSUME lastId[c].boot = boot PROVE 1 .. lastId[c].seq \subseteq seen'[c]
    <3>1. lastId[c].seq <= last /\ Current(s)
      BY <2>2, <2>4 DEF IdsKnown, Current
    <3> QED BY <1>2, <2>3, <3>1
  <2>5. lastId'[c] = lastId[c] /\ boot' = boot
    BY <2>1
  <2> QED BY <2>1, <2>4, <2>5, Zenon DEF Informed
<1>9. CASE End(s)
  <2>1. /\ conn'[c] = NoStream /\ UNCHANGED <<boot, lastId, seen>> /\ cut' = Broken(s)
    BY <1>9 DEF End, Detach, ring
  <2>2. c \notin cut /\ ~AtRisk(s)
    BY <1>1, <2>1 DEF Broken
  <2>3. lastId[c].boot = boot => 1 .. lastId[c].seq \subseteq seen[c]
    BY <1>1, <2>2, LeavesInformed
  <2> QED BY <2>1, <2>3, Zenon DEF Informed
<1> QED
  BY <1>3, <1>4, <1>6, <1>7, <1>8, <1>9 DEF Handler

\* Every step keeps what the streams and their consumers have agreed on, and
\* every consumer whose connection did not break at a bad moment informed.
LEMMA NextSkip ==
  ASSUME SkipInv, [Next]_vars, NEW c \in Consumers
  PROVE  /\ conn'[c] # NoStream => Opens(c, conn[c])'
         /\ c \notin cut' => Informed(c)'
<1>1. /\ IInv /\ TypeOK /\ OwnStreams /\ IdsKnown
      /\ conn[c] # NoStream => Opens(c, conn[c])
      /\ c \notin cut => Informed(c)
  BY DEF SkipInv, IInv, StreamsOpen
<1>2. ASSUME KeptFor(c), c \notin cut' => c \notin cut
      PROVE  /\ conn'[c] # NoStream => Opens(c, conn[c])'
             /\ c \notin cut' => Informed(c)'
  <2>1. conn'[c] = conn[c]
    BY <1>2 DEF KeptFor
  <2> QED BY <1>1, <1>2, <2>1, Kept
<1>3. CASE UNCHANGED vars
  <2>1. KeptFor(c)
    BY <1>3, Zenon DEF vars, ring, stream, consumer, KeptFor
  <2>2. c \notin cut' => c \notin cut
    BY <1>3 DEF vars, consumer
  <2> QED BY <1>2, <2>1, <2>2
<1>4. ASSUME NEW topic \in Topics, Publish(topic)
      PROVE  KeptFor(c) /\ UNCHANGED cut
  <2>1. conn[c] # NoStream /\ dropped[conn[c]] => dropped'[conn[c]]
    <3>1. conn[c] # NoStream => conn[c] \in Streams
      BY <1>1 DEF TypeOK
    <3> QED BY <1>4, <3>1, Zenon DEF Publish, Offer
  <2> QED BY <1>4, <2>1, Zenon DEF Publish, consumer, KeptFor
<1>5. CASE DropStreams \/ ForceGap \/ \E d \in Consumers : Revoke(d)
  <2>1. KeptFor(c) /\ UNCHANGED cut
    BY <1>5, Zenon DEF DropStreams, ForceGap, Revoke, ring, consumer, stream, KeptFor
  <2> QED BY <1>2, <2>1
<1>6. CASE ForceOverflow
  <2>1. conn[c] # NoStream /\ dropped[conn[c]] => dropped'[conn[c]]
    <3>1. conn[c] # NoStream => conn[c] \in Streams
      BY <1>1 DEF TypeOK
    <3> QED BY <1>6, <3>1, Zenon DEF ForceOverflow
  <2>2. KeptFor(c) /\ UNCHANGED cut
    BY <1>6, <2>1, Zenon DEF ForceOverflow, ring, consumer, KeptFor
  <2> QED BY <1>2, <2>2
<1>7. CASE Restart
  <2>1. /\ boot' = boot + 1 /\ boot \in Nat
        /\ UNCHANGED <<spc, helloId, replay, resync, pos, conn, lastId>>
    BY <1>1, <1>7 DEF Restart, TypeOK
  <2>2. lastId[c].boot <= boot /\ lastId[c] \in Id
    BY <1>1 DEF IdsKnown, TypeOK
  <2>3. lastId[c].boot # boot'
    BY <2>1, <2>2 DEF Id
  <2>4. ASSUME conn[c] # NoStream PROVE ~Current(conn[c])'
    <3>1. conn[c] \in attached /\ conn[c] \in Streams
      BY <1>1, <2>4 DEF OwnStreams, TypeOK
    <3>2. helloId[conn[c]] \in Id /\ helloId[conn[c]].boot <= boot
      BY <1>1, <3>1 DEF IInv, BootsPast, TypeOK
    <3>3. helloId[conn[c]].boot # boot'
      BY <2>1, <3>2 DEF Id
    <3> QED BY <2>1, <3>3 DEF Current
  <2>5. conn'[c] # NoStream => Opens(c, conn[c])'
    BY <1>1, <2>1, <2>4, Zenon DEF Opens
  <2>6. Informed(c)'
    BY <2>1, <2>3, <2>4, Zenon DEF Informed
  <2> QED BY <2>5, <2>6
<1>8. ASSUME NEW s \in Streams, Handler(s)
      PROVE  /\ conn'[c] # NoStream => Opens(c, conn[c])'
             /\ c \notin cut' => Informed(c)'
  <2>1. CASE conn[c] = s
    <3>1. s # NoStream
      BY RingAssumption
    <3>2. Opens(c, s)
      BY <1>1, <2>1, <3>1
    <3>3. conn'[c] # NoStream => conn'[c] = s /\ Opens(c, s)'
      BY <1>1, <1>8, <2>1, <3>2, HandlerOpens
    <3>4. conn'[c] # NoStream => Opens(c, conn[c])'
      BY <3>3, Zenon
    <3>5. c \notin cut' => Informed(c)'
      BY <1>1, <1>8, <2>1, <3>2, HandlerInforms
    <3> QED BY <3>4, <3>5
  <2>2. CASE conn[c] # s
    <3>1. KeptFor(c) /\ (c \notin cut' => c \notin cut)
      BY <1>1, <1>8, <2>2, HandlerKeeps, HandlerForOne
    <3> QED BY <1>2, <3>1
  <2> QED BY <2>1, <2>2
<1>9. ASSUME NEW d \in Consumers, NEW s \in Streams, Attach(d, s, lastId[d])
      PROVE  /\ conn'[c] # NoStream => Opens(c, conn[c])'
             /\ c \notin cut' => Informed(c)'
  <2>1. PICK held \in Prune(msgs, 0, Len(msgs)) : Join(d, s, lastId[d], held)
    BY <1>9 DEF Attach
  <2>2. CASE d = c
    <3>1. conn'[c] = s /\ spc'[s] = "hello" /\ Opens(c, s)'
      BY <1>1, <2>1, <2>2, JoinOpens
    <3>2. conn'[c] # NoStream => Opens(c, conn[c])'
      BY <3>1, Zenon
    <3>3. conn[c] = NoStream /\ UNCHANGED <<boot, lastId, seen, cut>>
      BY <2>1, <2>2 DEF Join
    <3>4. c \notin cut' => Informed(c)
      BY <1>1, <3>3
    <3>5. Informed(c) => Informed(c)'
      BY <3>1, <3>3 DEF Informed
    <3> QED BY <3>2, <3>4, <3>5
  <2>3. CASE d # c
    <3>1. spc[s] = "free" /\ cut' = cut
      BY <2>1 DEF Join
    <3>2. conn[c] # NoStream => conn[c] \in Streams /\ conn[c] # s
      BY <1>1, <3>1 DEF OwnStreams, TypeOK
    <3>3. KeptFor(c)
      BY <1>1, <2>1, <2>3, <3>2, Zenon DEF Join, KeptFor, TypeOK
    <3> QED BY <1>2, <3>1, <3>3
  <2> QED BY <2>2, <2>3
<1>10. ASSUME NEW d \in Consumers, Disconnect(d)
       PROVE  /\ conn'[c] # NoStream => Opens(c, conn[c])'
              /\ c \notin cut' => Informed(c)'
  <2>1. /\ conn[d] # NoStream /\ conn' = [conn EXCEPT ![d] = NoStream]
        /\ cut' = Broken(conn[d])
        /\ UNCHANGED <<boot, lastId, seen>> /\ UNCHANGED stream
    BY <1>10 DEF Disconnect, ring
  <2>2. conn[d] \in Streams
    BY <1>1, <2>1 DEF TypeOK
  <2>3. owner[conn[d]] = d /\ Connected(conn[d])
    BY <1>1, <2>2, Owns
  <2>4. CASE d = c
    <3>1. conn'[c] = NoStream
      BY <1>1, <2>1, <2>4 DEF TypeOK
    <3>2. c \notin cut' => c \notin cut /\ ~AtRisk(conn[c])
      BY <2>1, <2>3, <2>4 DEF Broken
    <3>3. ASSUME c \notin cut', lastId[c].boot = boot
          PROVE  1 .. lastId[c].seq \subseteq seen[c]
      BY <1>1, <2>1, <2>2, <2>4, <3>2, <3>3, LeavesInformed
    <3>4. c \notin cut' => Informed(c)'
      BY <2>1, <3>1, <3>3, Zenon DEF Informed
    <3> QED BY <3>1, <3>4
  <2>5. CASE d # c
    <3>1. c \notin cut' => c \notin cut
      BY <2>1 DEF Broken
    <3>2. conn'[c] = conn[c]
      BY <1>1, <2>1, <2>5 DEF TypeOK
    <3>3. KeptFor(c)
      BY <2>1, <3>2, Zenon DEF KeptFor, stream
    <3> QED BY <1>2, <3>1, <3>3
  <2> QED BY <2>4, <2>5
<1> QED
  BY <1>2, <1>3, <1>4, <1>5, <1>6, <1>7, <1>8, <1>9, <1>10 DEF Next, Connect

\* The invariant holds of every behaviour.
LEMMA SkipInvariance == Spec => []SkipInv
<1>1. Init => SkipInv
  <2> SUFFICES ASSUME Init PROVE SkipInv
    OBVIOUS
  <2>1. IInv
    BY InitIInv
  <2>2. OwnStreams /\ StreamsOpen /\ IdsKnown
    BY DEF Init, OwnStreams, StreamsOpen, IdsKnown, NoId
  <2>3. \A c \in Consumers : Informed(c)
    BY DEF Init, Informed, NoId
  <2> QED BY <2>1, <2>2, <2>3 DEF SkipInv
<1>2. SkipInv /\ [Next]_vars => SkipInv'
  <2> SUFFICES ASSUME SkipInv, [Next]_vars PROVE SkipInv'
    OBVIOUS
  <2>1. IInv' /\ OwnStreams' /\ IdsKnown'
    BY NextIInv, NextOwn, NextIds DEF SkipInv, IInv
  <2>2. StreamsOpen' /\ \A c \in Consumers \ cut' : Informed(c)'
    BY NextSkip, Zenon DEF StreamsOpen
  <2> QED BY <2>1, <2>2, Zenon DEF SkipInv
<1> QED
  BY <1>1, <1>2, PTL DEF Spec

\* For every ring size, queue size and number of streams, and across overflows,
\* dropped streams, forced gaps and restarts: a consumer whose connection did
\* not break in one of the windows that cut records was offered, or told to seed
\* again, every message up to the id it would resume from.
THEOREM NothingSkippedUnlessCut == Spec => []SkipOnlyWhenCut
<1>1. SkipInv => SkipOnlyWhenCut
  BY DEF SkipInv, SkipOnlyWhenCut, Skipped, Informed
<1> QED
  BY <1>1, SkipInvariance, PTL


-----------------------------------------------------------------------------
(* Gaps                                                                    *)

\* A consecutive ring that does not cover a position lacks its successor.
LEMMA UncoveredIsLost ==
  ASSUME NEW held \in Seq(Message), NEW n \in Nat, Consecutive(held, n),
         NEW since \in Nat, ~Covers(held, since), NEW i \in DOMAIN held
  PROVE  held[i].seq # since + 1
<1>1. held # <<>> /\ 1 \in DOMAIN held /\ i \in Nat \ {0} /\ Len(held) \in Nat
  OBVIOUS
<1>2. held[1].seq = n - Len(held) + 1 /\ held[i].seq = n - Len(held) + i
  BY <1>1 DEF Consecutive
<1>3. ~(held[1].seq <= since + 1)
  BY <1>1 DEF Covers
<1> QED
  BY <1>1, <1>2, <1>3

\* Every step that opens a stream with a gap does so for a real one.
LEMMA NextGap == IInv /\ [Next]_vars => \A s \in Streams : OpensWithRealGap(s)
<1> SUFFICES ASSUME IInv, [Next]_vars, NEW t \in Streams,
                    spc[t] = "free", spc'[t] = "hello", resync'[t] = "gap"
             PROVE  /\ lastId[owner'[t]].seq < last
                    /\ \A i \in DOMAIN msgs' :
                         msgs'[i].seq # lastId[owner'[t]].seq + 1
  BY DEF OpensWithRealGap
<1>1. spc' # spc
  OBVIOUS
<1>2. ASSUME NEW s \in Streams, Handler(s) PROVE FALSE
  <2>1. spc'[s] # "hello" /\ (t # s => spc'[t] = spc[t])
    BY <1>1, <1>2 DEF Handler, WriteHello, WriteResync, WriteReplay, WriteLive,
                      TickOverflow, End, Detach, IInv, TypeOK
  <2> QED BY <2>1
<1>3. ASSUME NEW topic \in Topics, Publish(topic) PROVE FALSE
  BY <1>1, <1>3 DEF Publish
<1>4. ~(DropStreams \/ ForceOverflow \/ ForceGap \/ Restart
        \/ (\E c \in Consumers : Disconnect(c) \/ Revoke(c)))
  BY <1>1 DEF DropStreams, ForceOverflow, ForceGap, Restart, Disconnect, Revoke,
              stream
<1>5. ~UNCHANGED vars
  BY <1>1 DEF vars, stream
<1>6. ASSUME NEW c \in Consumers, NEW s \in Streams, Attach(c, s, lastId[c])
      PROVE  /\ lastId[owner'[t]].seq < last
             /\ \A i \in DOMAIN msgs' : msgs'[i].seq # lastId[owner'[t]].seq + 1
  <2>1. PICK held \in Prune(msgs, 0, Len(msgs)) : Join(c, s, lastId[c], held)
    BY <1>6 DEF Attach
  <2>2. /\ t = s /\ owner'[t] = c /\ msgs' = held
        /\ Opening(held, lastId[c]).resync = "gap"
    BY <2>1 DEF Join, IInv, TypeOK
  <2>3. lastId[c].seq \in Nat /\ last \in Nat
    BY DEF IInv, TypeOK, Id
  <2>4. lastId[c].seq < last /\ ~Covers(held, lastId[c].seq)
    BY <2>2, <2>3 DEF Opening, Resume
  <2>5. held \in Seq(Message) /\ Consecutive(held, last)
    <3>1. msgs \in Seq(Message) /\ Len(msgs) \in Nat /\ Consecutive(msgs, last)
      BY DEF IInv, TypeOK, RingConsecutive
    <3> QED BY <2>3, <3>1, PruneConsecutive
  <2>6. \A i \in DOMAIN held : held[i].seq # lastId[c].seq + 1
    BY <2>3, <2>4, <2>5, UncoveredIsLost
  <2> QED BY <2>2, <2>4, <2>6
<1> QED
  BY <1>2, <1>3, <1>4, <1>5, <1>6 DEF Next, Connect

\* Whatever ring size, age limit and history, a gap that a stream reports at its
\* start is a real one.
THEOREM GapsAreReal == Spec => GapIsReal
<1>1. IInv /\ [Next]_vars => [\A s \in Streams : OpensWithRealGap(s)]_vars
  BY NextGap
<1> QED
  BY <1>1, Invariance, PTL DEF Spec, GapIsReal

-----------------------------------------------------------------------------
(* Stream limits                                                           *)

\* The limits with what their proof needs: readers are finitely many.
LimitsInv == IsFiniteSet(attached) /\ StreamLimits

\* One more element makes a finite set larger by at most one.
LEMMA AddOne ==
  ASSUME NEW S, IsFiniteSet(S), NEW x
  PROVE  /\ IsFiniteSet(S \cup {x}) /\ Cardinality(S) \in Nat
         /\ Cardinality(S \cup {x}) <= Cardinality(S) + 1
         /\ Cardinality(S \cup {x}) \in Nat
<1>1. Cardinality(S) \in Nat
  BY FS_CardinalityType
<1>2. /\ IsFiniteSet(S \cup {x})
      /\ Cardinality(S \cup {x}) = IF x \in S THEN Cardinality(S) ELSE Cardinality(S) + 1
  BY FS_AddElement
<1> QED
  BY <1>1, <1>2

\* Fewer readers, the same owners: the limits still hold.
LEMMA FewerStreams ==
  ASSUME LimitsInv, TypeOK, attached' \subseteq attached,
         \A s \in attached' : owner'[s] = owner[s]
  PROVE  LimitsInv'
<1>1. /\ IsFiniteSet(attached') /\ Cardinality(attached') <= Cardinality(attached)
      /\ Cardinality(attached) \in Nat /\ Cardinality(attached') \in Nat
  BY FS_Subset, FS_CardinalityType DEF LimitsInv
<1>2. ASSUME NEW c \in Consumers PROVE Cardinality(StreamsOf(c)') <= PerSubject
  <2>1. StreamsOf(c)' \subseteq StreamsOf(c) /\ StreamsOf(c) \subseteq attached
    BY DEF StreamsOf
  <2>2. IsFiniteSet(StreamsOf(c))
    BY <2>1, FS_Subset DEF LimitsInv
  <2>3. /\ Cardinality(StreamsOf(c)') <= Cardinality(StreamsOf(c))
        /\ Cardinality(StreamsOf(c)) \in Nat /\ Cardinality(StreamsOf(c)') \in Nat
    BY <2>1, <2>2, FS_Subset, FS_CardinalityType
  <2>4. Cardinality(StreamsOf(c)) <= PerSubject
    BY DEF LimitsInv, StreamLimits
  <2> QED BY <2>3, <2>4, RingAssumption
<1>3. Cardinality(attached) <= Total
  BY DEF LimitsInv, StreamLimits
<1>4. Cardinality(attached') <= Total
  BY <1>1, <1>3, RingAssumption
<1> QED
  BY <1>1, <1>2, <1>4 DEF LimitsInv, StreamLimits

\* A stream that passes MayAttach takes its consumer and the ring to their
\* limits at most.
LEMMA JoinLimits ==
  ASSUME LimitsInv, TypeOK, NEW c \in Consumers, NEW s \in Streams, MayAttach(c),
         attached' = attached \cup {s}, owner' = [owner EXCEPT ![s] = c]
  PROVE  LimitsInv'
<1>1. /\ IsFiniteSet(attached') /\ Cardinality(attached) \in Nat
      /\ Cardinality(attached') <= Cardinality(attached) + 1
      /\ Cardinality(attached') \in Nat
  BY AddOne DEF LimitsInv
<1>2. Cardinality(attached') <= Total
  BY <1>1, RingAssumption DEF MayAttach
<1>3. ASSUME NEW d \in Consumers PROVE Cardinality(StreamsOf(d)') <= PerSubject
  <2>1. /\ StreamsOf(d) \subseteq attached
        /\ StreamsOf(d)' \subseteq attached'
        /\ \A t \in attached' : t # s => owner'[t] = owner[t]
        /\ owner'[s] = c
    BY DEF StreamsOf, TypeOK
  <2>2. IsFiniteSet(StreamsOf(d)) /\ Cardinality(StreamsOf(d)) \in Nat
    BY <2>1, FS_Subset, FS_CardinalityType DEF LimitsInv
  <2>3. CASE d = c
    <3>1. StreamsOf(d)' = StreamsOf(d) \cup {s}
      BY <2>1, <2>3 DEF StreamsOf
    <3>2. /\ Cardinality(StreamsOf(d)') <= Cardinality(StreamsOf(d)) + 1
          /\ Cardinality(StreamsOf(d)') \in Nat
      BY <2>2, <3>1, AddOne
    <3>3. Cardinality(StreamsOf(d)) < PerSubject
      BY <2>3 DEF MayAttach
    <3> QED BY <2>2, <3>2, <3>3, RingAssumption
  <2>4. CASE d # c
    <3>1. StreamsOf(d)' \subseteq StreamsOf(d)
      BY <2>1, <2>4 DEF StreamsOf
    <3>2. /\ Cardinality(StreamsOf(d)') <= Cardinality(StreamsOf(d))
          /\ Cardinality(StreamsOf(d)') \in Nat
      BY <2>2, <3>1, FS_Subset, FS_CardinalityType
    <3>3. Cardinality(StreamsOf(d)) <= PerSubject
      BY DEF LimitsInv, StreamLimits
    <3> QED BY <2>2, <3>2, <3>3, RingAssumption
  <2> QED BY <2>3, <2>4
<1> QED
  BY <1>1, <1>2, <1>3 DEF LimitsInv, StreamLimits

\* Every step keeps the limits.
LEMMA NextLimits == TypeOK /\ LimitsInv /\ [Next]_vars => LimitsInv'
<1> SUFFICES ASSUME TypeOK, LimitsInv, [Next]_vars PROVE LimitsInv'
  OBVIOUS
<1>1. CASE UNCHANGED <<attached, owner>>
  BY <1>1, FewerStreams
<1>2. ASSUME NEW s \in Streams, Handler(s) PROVE LimitsInv'
  <2>1. CASE UNCHANGED <<attached, owner>>
    BY <2>1, <1>1
  <2>2. CASE Detach(s)
    <3>1. attached' \subseteq attached /\ \A t \in attached' : owner'[t] = owner[t]
      BY <2>2 DEF Detach, TypeOK
    <3> QED BY <3>1, FewerStreams
  <2> QED BY <1>2, <2>1, <2>2 DEF Handler, WriteHello, WriteResync, WriteReplay,
                                  WriteLive, TickOverflow, End
<1>3. ASSUME NEW c \in Consumers, NEW s \in Streams, Attach(c, s, lastId[c])
      PROVE  LimitsInv'
  <2>1. /\ MayAttach(c) /\ attached' = attached \cup {s}
        /\ owner' = [owner EXCEPT ![s] = c]
    BY <1>3 DEF Attach, Join
  <2> QED BY <2>1, JoinLimits
<1>4. ASSUME NEW topic \in Topics, Publish(topic) PROVE UNCHANGED <<attached, owner>>
  BY <1>4 DEF Publish
<1>5. DropStreams \/ ForceOverflow \/ ForceGap \/ Restart
        \/ (\E c \in Consumers : Disconnect(c) \/ Revoke(c))
        => UNCHANGED <<attached, owner>>
  BY DEF DropStreams, ForceOverflow, ForceGap, Restart, Disconnect, Revoke, stream
<1>6. UNCHANGED vars => UNCHANGED <<attached, owner>>
  BY DEF vars, stream
<1> QED
  BY <1>1, <1>2, <1>3, <1>4, <1>5, <1>6 DEF Next, Connect

\* For every pair of limits, no consumer ever holds more than PerSubject streams
\* and the ring never more than Total, streams that outlive their connection
\* included.
THEOREM LimitsHold == Spec => []StreamLimits
<1>1. Init => LimitsInv
  <2> SUFFICES ASSUME Init PROVE LimitsInv
    OBVIOUS
  <2>1. attached = {} /\ \A c \in Consumers : StreamsOf(c) = {}
    BY DEF Init, StreamsOf
  <2>2. IsFiniteSet({}) /\ Cardinality({}) = 0
    BY FS_EmptySet
  <2> QED BY <2>1, <2>2, RingAssumption DEF LimitsInv, StreamLimits
<1>2. LimitsInv => StreamLimits
  BY DEF LimitsInv
<1> QED
  BY <1>1, <1>2, NextLimits, TypeCorrect, PTL DEF Spec

=============================================================================
