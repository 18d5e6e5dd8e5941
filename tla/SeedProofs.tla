----------------------------- MODULE SeedProofs -----------------------------
(***************************************************************************)
(* A client of the box that seeds itself from /state and then follows the  *)
(* stream, for every set of interface processes, datapoints and clients.   *)
(***************************************************************************)
EXTENDS Litefake, TLAPS

Message == [dp : Datapoints \cup {Nobody}, no : Nat]
Entry   == [no : Nat, confirmed : BOOLEAN]
Half    == [dp : Kept, no : Nat]

-----------------------------------------------------------------------------
(* The invariant                                                           *)

No(v) == IF v = Nobody THEN 0 ELSE v.no

\* The messages of a datapoint that came after a position, and that the last
\* of them is the newest event.
After(msgs, from, d) == {n \in from + 1 .. Len(msgs) : msgs[n].dp = d}
Latest(msgs, new, from, d) ==
  \E n \in After(msgs, from, d) :
    (\A m \in After(msgs, from, d) : m <= n) /\ msgs[n].no = new[d]

\* The value of a datapoint is stored, and no publish is half done with it.
Settled(vals, pub, new, d) ==
  /\ No(vals[d]) = new[d]
  /\ pub[IfaceOf[d]] = Nobody \/ pub[IfaceOf[d]].dp # d

SeedType ==
  /\ bootNo \in Nat
  /\ published \in Nat
  /\ ringLog \in Seq(Message)
  /\ newest \in [Datapoints -> Nat]
  /\ values \in [Kept -> Entry \cup {Nobody}]
  /\ publish \in [Ifaces -> Half \cup {Nobody}]

\* A value is behind only while the publish that brings the newest is half done.
PublishInv ==
  /\ \A i \in Ifaces : publish[i] # Nobody =>
       IfaceOf[publish[i].dp] = i /\ publish[i].no = newest[publish[i].dp]
  /\ \A d \in Kept : (publish[IfaceOf[d]] = Nobody \/ publish[IfaceOf[d]].dp # d)
       => No(values[d]) = newest[d]

\* What a client lacks of a datapoint, the stream still has to bring.
Covered(s) ==
  /\ DOMAIN s = {"pc", "at", "entries", "overlap"}
  /\ s.pc \in {"none", "position", "seeded"}
  /\ s.at.boot \in Nat /\ s.at.seq \in Nat
  /\ s.at.boot <= bootNo
  /\ s.at.boot = bootNo => s.at.seq <= Len(ringLog)
  /\ s.at.boot = bootNo /\ ~s.overlap => \A d \in Kept :
       IF After(ringLog, s.at.seq, d) # {} THEN s.pc # "none" => Latest(ringLog, newest, s.at.seq, d)
       ELSE /\ s.pc = "position" => Settled(values, publish, newest, d)
            /\ s.pc = "seeded" => No(s.entries[d]) = newest[d]

SeedInv ==
  /\ SeedType
  /\ PublishInv
  /\ DOMAIN seed = Seeders
  /\ \A c \in Seeders : Covered(seed[c])

-----------------------------------------------------------------------------
(* A message more on the ring                                              *)

LEMMA OneMore ==
  ASSUME SeedType, NEW m \in Message, ringLog' = Append(ringLog, m),
         NEW from \in Nat, from <= Len(ringLog), NEW d \in Datapoints
  PROVE  /\ After(ringLog', from, d) = After(ringLog, from, d) \cup (IF m.dp = d THEN {Len(ringLog) + 1} ELSE {})
         /\ \A n \in After(ringLog, from, d) : n <= Len(ringLog) /\ ringLog'[n] = ringLog[n]
         /\ ringLog'[Len(ringLog) + 1] = m
         /\ Len(ringLog') = Len(ringLog) + 1
<1>1. /\ Len(ringLog) \in Nat
      /\ Len(ringLog') = Len(ringLog) + 1
      /\ ringLog'[Len(ringLog) + 1] = m
      /\ \A n \in 1 .. Len(ringLog) : ringLog'[n] = ringLog[n]
  BY DEF SeedType
<1>2. \A n : n \in After(ringLog, from, d) => n \in 1 .. Len(ringLog)
  BY <1>1 DEF After
<1>3. \A n : n \in After(ringLog', from, d) <=>
               n \in After(ringLog, from, d) \cup (IF m.dp = d THEN {Len(ringLog) + 1} ELSE {})
  BY <1>1 DEF After
<1> QED
  BY <1>1, <1>2, <1>3

\* A message that is of no kept datapoint.
LEMMA AnnounceKeeps ==
  ASSUME SeedInv, ringLog' = Append(ringLog, [dp |-> Nobody, no |-> 0]),
         UNCHANGED <<bootNo, published, newest, values, publish, seed>>
  PROVE  SeedInv'
<1> DEFINE m == [dp |-> Nobody, no |-> 0]
<1>1. m \in Message /\ m.dp = Nobody /\ ringLog' = Append(ringLog, m)
  BY DEF Message
<1> HIDE DEF m
<1>2. SeedType'
  BY <1>1 DEF SeedInv, SeedType
<1>3. ASSUME NEW from \in Nat, from <= Len(ringLog), NEW d \in Kept
      PROVE  /\ After(ringLog', from, d) = After(ringLog, from, d)
             /\ Latest(ringLog, newest, from, d) => Latest(ringLog', newest', from, d)
  <2>1. d \in Datapoints /\ m.dp # d
    BY <1>1, SeedAssumption
  <2>2. SeedType
    BY DEF SeedInv
  <2>3. /\ After(ringLog', from, d) = After(ringLog, from, d) \cup (IF m.dp = d THEN {Len(ringLog) + 1} ELSE {})
        /\ \A n \in After(ringLog, from, d) : ringLog'[n] = ringLog[n]
    BY <1>1, <1>3, <2>1, <2>2, OneMore
  <2>4. After(ringLog', from, d) = After(ringLog, from, d)
    BY <2>1, <2>3
  <2> QED
    BY <2>3, <2>4 DEF Latest
<1>4. /\ \A d \in Kept : Settled(values, publish, newest, d) => Settled(values', publish', newest', d)
      /\ Len(ringLog) \in Nat /\ Len(ringLog') = Len(ringLog) + 1
  BY <1>1 DEF Settled, No, SeedInv, SeedType
<1>5. ASSUME NEW c \in Seeders
      PROVE  Covered(seed[c])'
  <2>1. Covered(seed[c]) /\ seed' = seed /\ bootNo' = bootNo
    BY DEF SeedInv
  <2>2. seed[c].at.boot = bootNo => seed[c].at.seq <= Len(ringLog')
    BY <1>4, <2>1 DEF Covered
  <2> QED
    BY <1>3, <1>4, <2>1, <2>2 DEF Covered, No
<1>6. PublishInv' /\ DOMAIN seed' = Seeders
  BY DEF SeedInv, PublishInv, No
<1> QED
  BY <1>2, <1>5, <1>6 DEF SeedInv

-----------------------------------------------------------------------------
(* The two halves of a publish                                             *)

LEMMA PublishKeeps ==
  ASSUME SeedInv, NEW e \in Datapoints, PublishEvent(e)
  PROVE  SeedInv'
<1> DEFINE i == IfaceOf[e]
           m == [dp |-> e, no |-> published + 1]
           half == IF e \in Kept THEN m ELSE Nobody
<1>1. /\ publish[i] = Nobody
      /\ ringLog' = Append(ringLog, m)
      /\ published' = published + 1
      /\ newest' = [newest EXCEPT ![e] = published + 1]
      /\ publish' = [publish EXCEPT ![i] = half]
      /\ UNCHANGED <<bootNo, values, seed>>
  BY DEF PublishEvent
<1>2. i \in Ifaces /\ m \in Message /\ half \in Half \cup {Nobody} /\ published \in Nat
  BY SeedAssumption DEF SeedInv, SeedType, Message, Half
<1>3. (e \in Kept => half # Nobody) /\ m.dp = e /\ m.no = published + 1
  BY <1>2, SeedAssumption
<1>4. SeedType'
  <2>1. ringLog' \in Seq(Message)
    BY <1>1, <1>2 DEF SeedInv, SeedType
  <2>2. newest' \in [Datapoints -> Nat] /\ publish' \in [Ifaces -> Half \cup {Nobody}]
    BY <1>1, <1>2 DEF SeedInv, SeedType
  <2> QED
    BY <1>1, <1>2, <2>1, <2>2 DEF SeedInv, SeedType
<1> HIDE DEF half, m
<1>5. /\ \A j \in Ifaces : publish'[j] = IF j = i THEN half ELSE publish[j]
      /\ \A d \in Datapoints : newest'[d] = IF d = e THEN published + 1 ELSE newest[d]
  BY <1>1, <1>2 DEF SeedInv, SeedType
<1>6. PublishInv'
  <2>1. ASSUME NEW j \in Ifaces, publish'[j] # Nobody
        PROVE  IfaceOf[publish'[j].dp] = j /\ publish'[j].no = newest'[publish'[j].dp]
    <3>1. CASE j = i
      <4>1. publish'[j] = m
        BY <1>5, <2>1, <3>1 DEF half
      <4> QED
        BY <1>2, <1>3, <1>5, <3>1, <4>1 DEF Half
    <3>2. CASE j # i
      <4>1. publish'[j] = publish[j] /\ publish[j] \in Half
        BY <1>5, <2>1, <3>2 DEF SeedInv, SeedType
      <4>2. publish[j].dp \in Datapoints /\ publish[j].dp # e
        BY <2>1, <3>2, <4>1, SeedAssumption DEF SeedInv, PublishInv, Half
      <4> QED
        BY <1>5, <2>1, <4>1, <4>2 DEF SeedInv, PublishInv
    <3> QED
      BY <3>1, <3>2
  <2>2. ASSUME NEW d \in Kept, publish'[IfaceOf[d]] = Nobody \/ publish'[IfaceOf[d]].dp # d
        PROVE  No(values'[d]) = newest'[d]
    <3>1. d \in Datapoints /\ IfaceOf[d] \in Ifaces
      BY SeedAssumption
    <3>2. d # e
      BY <1>3, <1>5, <2>2, <3>1 DEF half
    <3>3. publish[IfaceOf[d]] = Nobody \/ publish[IfaceOf[d]].dp # d
      BY <1>1, <1>5, <2>2, <3>1
    <3>4. No(values[d]) = newest[d]
      BY <3>3 DEF SeedInv, PublishInv
    <3> QED
      BY <1>1, <1>5, <3>1, <3>2, <3>4 DEF No
  <2> QED
    BY <2>1, <2>2 DEF PublishInv, No
<1>7. ASSUME NEW from \in Nat, from <= Len(ringLog), NEW d \in Kept, d # e
      PROVE  /\ After(ringLog', from, d) = After(ringLog, from, d)
             /\ Latest(ringLog, newest, from, d) => Latest(ringLog', newest', from, d)
             /\ newest'[d] = newest[d]
             /\ Settled(values, publish, newest, d) => Settled(values', publish', newest', d)
  <2>1. d \in Datapoints /\ IfaceOf[d] \in Ifaces
    BY SeedAssumption
  <2>2. /\ After(ringLog', from, d) = After(ringLog, from, d)
        /\ \A n \in After(ringLog, from, d) : ringLog'[n] = ringLog[n]
    <3>1. SeedType
      BY DEF SeedInv
    <3>2. m \in Message
      BY <1>2
    <3>3. ringLog' = Append(ringLog, m)
      BY <1>1
    <3>4. from \in Nat /\ from <= Len(ringLog) /\ d \in Datapoints
      BY <1>7, <2>1
    <3>5. /\ After(ringLog', from, d) = After(ringLog, from, d) \cup (IF m.dp = d THEN {Len(ringLog) + 1} ELSE {})
          /\ \A n \in After(ringLog, from, d) : n <= Len(ringLog) /\ ringLog'[n] = ringLog[n]
          /\ ringLog'[Len(ringLog) + 1] = m
          /\ Len(ringLog') = Len(ringLog) + 1
      BY ONLY <3>1, <3>2, <3>3, <3>4, OneMore
    <3> QED
      BY <1>3, <1>7, <3>5
  <2>3. newest'[d] = newest[d]
    BY <1>5, <1>7, <2>1
  <2>4. Latest(ringLog, newest, from, d) => Latest(ringLog', newest', from, d)
    BY <2>2, <2>3 DEF Latest
  <2>5. ASSUME Settled(values, publish, newest, d)
        PROVE  Settled(values', publish', newest', d)
    <3>1. publish'[IfaceOf[d]] = Nobody \/ publish'[IfaceOf[d]].dp # d
      BY <1>3, <1>5, <1>7, <2>1, <2>5 DEF half, Settled
    <3> QED
      BY <1>1, <2>3, <2>5, <3>1 DEF Settled, No
  <2> QED
    BY <2>2, <2>3, <2>4, <2>5
<1>8. ASSUME NEW from \in Nat, from <= Len(ringLog)
      PROVE  After(ringLog', from, e) # {} /\ Latest(ringLog', newest', from, e)
  <2> DEFINE last == Len(ringLog) + 1
  <2>1. /\ After(ringLog', from, e) = After(ringLog, from, e) \cup {last}
        /\ \A n \in After(ringLog, from, e) : n <= Len(ringLog)
        /\ ringLog'[last] = m
    BY <1>1, <1>2, <1>3, <1>8, OneMore DEF SeedInv
  <2>2. Len(ringLog) \in Nat /\ \A n \in After(ringLog, from, e) : n \in Int
    BY DEF SeedInv, SeedType, After
  <2>3. last \in After(ringLog', from, e) /\ \A n \in After(ringLog', from, e) : n <= last
    BY <2>1, <2>2
  <2>4. ringLog'[last].no = newest'[e]
    BY <1>3, <1>5, <2>1
  <2> QED
    BY <2>3, <2>4 DEF Latest
<1>9. Len(ringLog) \in Nat /\ Len(ringLog') = Len(ringLog) + 1
  BY <1>1, <1>2 DEF SeedInv, SeedType
<1>10. ASSUME NEW c \in Seeders
       PROVE  Covered(seed[c])'
  <2>1. Covered(seed[c]) /\ seed' = seed /\ bootNo' = bootNo
    BY <1>1 DEF SeedInv
  <2>2. seed[c].at.boot = bootNo => seed[c].at.seq <= Len(ringLog')
    BY <1>9, <2>1 DEF Covered
  <2> QED
    BY <1>7, <1>8, <2>1, <2>2 DEF Covered, No
<1> QED
  BY <1>1, <1>4, <1>6, <1>10 DEF SeedInv

\* The second half brings the newest value.
LEMMA StoreKeeps ==
  ASSUME SeedInv, NEW i \in Ifaces, StoreValue(i)
  PROVE  SeedInv'
<1> DEFINE e == publish[i].dp
           entry == [no |-> publish[i].no, confirmed |-> TRUE]
<1>1. /\ publish[i] \in Half /\ publish[i] # Nobody
      /\ e \in Kept /\ publish[i].no = newest[e] /\ IfaceOf[e] = i
      /\ entry \in Entry /\ entry # Nobody
  <2>1. publish[i] \in Half /\ publish[i] # Nobody
    BY DEF StoreValue, SeedInv, SeedType
  <2>2. entry \in Entry /\ e \in Kept
    BY <2>1 DEF Half, Entry
  <2> QED
    BY <2>1, <2>2, SeedAssumption DEF SeedInv, PublishInv, Entry
<1>2. /\ values' = [values EXCEPT ![e] = entry]
      /\ publish' = [publish EXCEPT ![i] = Nobody]
      /\ UNCHANGED <<bootNo, ringLog, published, newest, seed>>
      /\ entry.no = newest[e]
  BY <1>1 DEF StoreValue
<1> HIDE DEF e, entry
<1>3. SeedType'
  BY <1>1, <1>2 DEF SeedInv, SeedType
<1>4. /\ \A d \in Kept : values'[d] = IF d = e THEN entry ELSE values[d]
      /\ \A j \in Ifaces : publish'[j] = IF j = i THEN Nobody ELSE publish[j]
      /\ \A d \in Kept : d \in Datapoints /\ IfaceOf[d] \in Ifaces
  BY <1>2, SeedAssumption DEF SeedInv, SeedType
<1>5. No(values'[e]) = newest[e]
  BY <1>1, <1>2, <1>4 DEF No
<1>6. ASSUME NEW d \in Kept, d # e, publish[IfaceOf[d]] = Nobody \/ publish[IfaceOf[d]].dp # d
      PROVE  No(values'[d]) = newest[d]
  BY <1>4, <1>6 DEF No, SeedInv, PublishInv
<1>7. PublishInv'
  <2>1. ASSUME NEW j \in Ifaces, publish'[j] # Nobody
        PROVE  IfaceOf[publish'[j].dp] = j /\ publish'[j].no = newest'[publish'[j].dp]
    BY <1>2, <1>4, <2>1 DEF SeedInv, PublishInv
  <2>2. ASSUME NEW d \in Kept, publish'[IfaceOf[d]] = Nobody \/ publish'[IfaceOf[d]].dp # d
        PROVE  No(values'[d]) = newest'[d]
    <3>1. CASE d = e
      BY <1>2, <1>5, <3>1
    <3>2. CASE d # e
      <4>1. publish[IfaceOf[d]] = Nobody \/ publish[IfaceOf[d]].dp # d
        BY <1>4, <2>2, <3>2 DEF e
      <4> QED
        BY <1>2, <1>6, <3>2, <4>1
    <3> QED
      BY <3>1, <3>2
  <2> QED
    BY <2>1, <2>2 DEF PublishInv, No
<1>8. ASSUME NEW d \in Kept, Settled(values, publish, newest, d)
      PROVE  Settled(values', publish', newest', d)
  <2>1. publish'[IfaceOf[d]] = Nobody \/ publish'[IfaceOf[d]].dp # d
    BY <1>4, <1>8 DEF Settled
  <2> QED
    BY <1>7, <2>1 DEF PublishInv, Settled, No
<1>9. ASSUME NEW c \in Seeders
      PROVE  Covered(seed[c])'
  <2>1. Covered(seed[c])
    BY DEF SeedInv
  <2> QED
    BY <1>2, <1>8, <2>1 DEF Covered, No
<1> QED
  BY <1>2, <1>3, <1>7, <1>9 DEF SeedInv

-----------------------------------------------------------------------------
(* The box starts again                                                    *)

\* What a client has read belongs to an earlier boot now.
LEMMA RingKeeps ==
  ASSUME SeedInv, RestartRing
  PROVE  SeedInv'
<1>1. /\ bootNo' = bootNo + 1 /\ ringLog' = <<>>
      /\ UNCHANGED <<published, newest, values, publish, seed>>
  BY DEF RestartRing
<1>2. SeedType' /\ PublishInv'
  BY <1>1 DEF SeedInv, SeedType, PublishInv, No
<1>3. ASSUME NEW c \in Seeders
      PROVE  Covered(seed[c])'
  <2>1. Covered(seed[c]) /\ bootNo \in Nat
    BY DEF SeedInv, SeedType
  <2>2. seed[c].at.boot # bootNo' /\ seed[c].at.boot <= bootNo'
    BY <1>1, <2>1 DEF Covered
  <2> QED
    BY <1>1, <2>1, <2>2 DEF Covered
<1> QED
  BY <1>1, <1>2, <1>3 DEF SeedInv

\* A value that is restored is the same value.
LEMMA RestoreKeeps ==
  ASSUME SeedInv, RestartValues
  PROVE  SeedInv'
<1>1. /\ values' = [d \in Kept |->
           IF values[d] = Nobody THEN Nobody ELSE [values[d] EXCEPT !.confirmed = FALSE]]
      /\ UNCHANGED <<bootNo, ringLog, published, newest, publish, seed>>
  BY DEF RestartValues
<1>2. ASSUME NEW d \in Kept
      PROVE  values'[d] \in Entry \cup {Nobody} /\ No(values'[d]) = No(values[d])
  <2>1. CASE values[d] = Nobody
    BY <1>1, <2>1 DEF No
  <2>2. CASE values[d] # Nobody
    <3>1. values[d] \in Entry
      BY <2>2 DEF SeedInv, SeedType
    <3>2. values'[d] = [values[d] EXCEPT !.confirmed = FALSE]
      BY <1>1, <2>2
    <3>3. values'[d] \in Entry /\ values'[d].no = values[d].no
      BY <3>1, <3>2 DEF Entry
    <3>4. values'[d] # Nobody
      BY <3>3, SeedAssumption DEF Entry
    <3> QED
      BY <2>2, <3>3, <3>4 DEF No
  <2> QED
    BY <2>1, <2>2
<1>3. values' \in [Kept -> Entry \cup {Nobody}]
  BY <1>1, <1>2
<1>4. SeedType' /\ PublishInv'
  BY <1>1, <1>2, <1>3 DEF SeedInv, SeedType, PublishInv, No
<1>5. \A d \in Kept : Settled(values, publish, newest, d) => Settled(values', publish', newest', d)
  BY <1>1, <1>2 DEF Settled
<1>6. ASSUME NEW c \in Seeders
      PROVE  Covered(seed[c])'
  <2>1. Covered(seed[c])
    BY DEF SeedInv
  <2> QED
    BY <1>1, <1>5, <2>1 DEF Covered, No
<1> QED
  BY <1>1, <1>4, <1>6 DEF SeedInv

-----------------------------------------------------------------------------
(* The two reads of a client                                               *)

LEMMA PositionKeeps ==
  ASSUME SeedInv, NEW c \in Seeders, ReadPosition(c)
  PROVE  SeedInv'
<1> DEFINE s == [NoSeed EXCEPT !.pc = "position", !.at = Position, !.overlap = InFlight # {}]
<1>1. /\ seed' = [seed EXCEPT ![c] = s]
      /\ UNCHANGED <<bootNo, ringLog, published, newest, values, publish>>
  BY DEF ReadPosition
<1>2. /\ DOMAIN s = {"pc", "at", "entries", "overlap"}
      /\ s.pc = "position" /\ s.at.boot = bootNo /\ s.at.seq = Len(ringLog)
      /\ s.overlap <=> InFlight # {}
  BY DEF NoSeed, Position
<1> HIDE DEF s
<1>3. bootNo \in Nat /\ Len(ringLog) \in Nat
  BY DEF SeedInv, SeedType
<1>4. \A d \in Kept : After(ringLog, s.at.seq, d) = {}
  BY <1>2, <1>3 DEF After
<1>5. ASSUME InFlight = {}, NEW d \in Kept
      PROVE  Settled(values, publish, newest, d)
  <2>1. publish[IfaceOf[d]] = Nobody
    BY <1>5, SeedAssumption DEF InFlight
  <2> QED
    BY <2>1 DEF Settled, SeedInv, PublishInv
<1>6. Covered(s)
  BY <1>2, <1>3, <1>4, <1>5 DEF Covered
<1>7. /\ DOMAIN seed' = Seeders
      /\ \A k \in Seeders : seed'[k] = IF k = c THEN s ELSE seed[k]
  BY <1>1 DEF SeedInv
<1>8. SeedType' /\ PublishInv'
  BY <1>1 DEF SeedInv, SeedType, PublishInv, No
<1>9. ASSUME NEW k \in Seeders
      PROVE  Covered(seed[k])'
  <2>1. Covered(seed'[k])
    BY <1>6, <1>7 DEF SeedInv
  <2> QED
    BY <1>1, <2>1 DEF Covered, No
<1> QED
  BY <1>7, <1>8, <1>9 DEF SeedInv

LEMMA ReadKeeps ==
  ASSUME SeedInv, NEW c \in Seeders, ReadValues(c)
  PROVE  SeedInv'
<1> DEFINE s == [seed[c] EXCEPT !.pc = "seeded", !.entries = values]
<1>1. /\ seed[c].pc = "position" /\ Covered(seed[c])
      /\ seed' = [seed EXCEPT ![c] = s]
      /\ UNCHANGED <<bootNo, ringLog, published, newest, values, publish>>
  BY DEF ReadValues, SeedInv
<1>2. /\ DOMAIN s = DOMAIN seed[c]
      /\ s.pc = "seeded" /\ s.entries = values /\ s.at = seed[c].at
      /\ s.overlap = seed[c].overlap
  BY <1>1 DEF Covered
<1> HIDE DEF s
<1>3. Covered(s)
  BY <1>1, <1>2 DEF Covered, Settled
<1>4. /\ DOMAIN seed' = Seeders
      /\ \A k \in Seeders : seed'[k] = IF k = c THEN s ELSE seed[k]
  BY <1>1 DEF SeedInv
<1>5. SeedType' /\ PublishInv'
  BY <1>1 DEF SeedInv, SeedType, PublishInv, No
<1>6. ASSUME NEW k \in Seeders
      PROVE  Covered(seed[k])'
  <2>1. Covered(seed'[k])
    BY <1>3, <1>4 DEF SeedInv
  <2> QED
    BY <1>1, <2>1 DEF Covered, No
<1> QED
  BY <1>4, <1>5, <1>6 DEF SeedInv

-----------------------------------------------------------------------------
(* The specification                                                       *)

\* What a covered client holds after the stream is the newest.
LEMMA CoveredHolds ==
  ASSUME SeedInv
  PROVE  SeedComplete
<1> SUFFICES ASSUME NEW c \in SeededNow, NEW d \in Kept, ~seed[c].overlap
             PROVE  Holds(c, d) = newest[d]
  BY DEF SeedComplete
<1> DEFINE after == After(ringLog, seed[c].at.seq, d)
           last == CHOOSE n \in after : \A m \in after : m <= n
<1>1. Covered(seed[c]) /\ seed[c].pc = "seeded" /\ seed[c].at.boot = bootNo
  BY DEF SeedInv, SeededNow
<1>2. CASE after = {}
  BY <1>1, <1>2 DEF Covered, Holds, After, No
<1>3. CASE after # {}
  <2>1. PICK n \in after : (\A m \in after : m <= n) /\ ringLog[n].no = newest[d]
    BY <1>1, <1>3 DEF Covered, Latest
  <2>2. last \in after /\ \A m \in after : m <= last
    BY <2>1
  <2>3. \A m \in after : m \in Int
    BY <1>1 DEF After, Covered
  <2> HIDE DEF last
  <2>4. last = n
    BY <2>1, <2>2, <2>3
  <2> QED
    BY <1>3, <2>1, <2>4 DEF Holds, After, last
<1> QED
  BY <1>2, <1>3

\* A client that has read the position while no publish was half done holds the
\* newest value of every kept datapoint once it has followed the stream, for
\* every number of interface processes, datapoints and clients, and whatever is
\* published, restarted or taken down between its reads (handleState).
THEOREM SeedsAreComplete == Spec => []SeedComplete
<1>1. Init => SeedInv
  <2> SUFFICES ASSUME Init PROVE SeedInv
    OBVIOUS
  <2>1. SeedType /\ PublishInv
    BY SeedAssumption DEF Init, SeedInit, SeedType, PublishInv, No, Message
  <2>2. \A c \in Seeders : Covered(seed[c])
    BY DEF Init, SeedInit, NoSeed, Covered
  <2> QED
    BY <2>1, <2>2 DEF Init, SeedInit, SeedInv
<1>2. SeedInv /\ [Next]_vars => SeedInv'
  <2> SUFFICES ASSUME SeedInv, [Next]_vars PROVE SeedInv'
    OBVIOUS
  <2>1. CASE UNCHANGED <<bootNo, ringLog, published, newest, values, publish, seed>>
    BY <2>1, ZenonT(40) DEF SeedInv, SeedType, PublishInv, Covered, No
  <2>2. CASE SeedCall
    BY <2>1, <2>2, PublishKeeps, AnnounceKeeps, RingKeeps, PositionKeeps
    DEF SeedCall, SetInterfaceDown, RestartInterface, Announce
  <2>3. CASE SeedRun
    BY <2>3, StoreKeeps, RestoreKeeps, ReadKeeps DEF SeedRun, SeedStep
  <2>4. CASE RestartRest
    BY <2>1, <2>4 DEF RestartRest, RestartSubscribe
  <2> QED
    BY <2>1, <2>2, <2>3, <2>4 DEF Next, MetaCall, MetaRun, PairCall, PairRun, ProxyCall, ProxyRun,
       SysCall, BoxCall, vars, seedVars
<1>3. SeedInv => SeedComplete
  BY CoveredHolds
<1> QED
  BY <1>1, <1>2, <1>3, PTL DEF Spec
=============================================================================
