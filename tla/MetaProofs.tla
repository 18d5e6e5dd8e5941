----------------------------- MODULE MetaProofs -----------------------------
(***************************************************************************)
(* Proofs about the metadata store of Litefake, for every set of objects,  *)
(* enums and nodes, every document, every length of the log and of a       *)
(* stream's queue.                                                         *)
(***************************************************************************)
EXTENDS LitefakeProofs, SequenceTheorems, FiniteSetTheorems, NaturalsInduction,
        WellFoundedInduction, TLAPS

-----------------------------------------------------------------------------
(* The invariant                                                           *)

Event == [no : Nat, revision : Nat]

\* The history counts every event, in the order of the revisions, and the log
\* is the end of it; what came before is not newer than droppedThrough.
LogInv ==
  /\ revision \in Nat
  /\ droppedThrough \in 0 .. revision
  /\ issued \in Seq(0 .. revision)
  /\ \A i, j \in DOMAIN issued : i <= j => issued[i] <= issued[j]
  /\ log \in Seq(Event)
  /\ Len(log) <= LogMax
  /\ Len(log) <= Len(issued)
  /\ \A i \in DOMAIN log :
       /\ log[i].no = Len(issued) - Len(log) + i
       /\ log[i].revision = issued[log[i].no]
  /\ \A i \in 1 .. Len(issued) - Len(log) : issued[i] <= droppedThrough

StreamType ==
  [pc : {"free", "open", "replay", "live"}, queue : Seq(Event), killed : BOOLEAN,
   replay : Seq(Event), resync : BOOLEAN, pos : Nat, lost : BOOLEAN]

\* The events evs follow the one with the number from without a gap.
Consecutive(evs, from) == \A i \in DOMAIN evs : evs[i].no = from + i

\* A stream with k events in the history: it owes its client those after pos.
StreamOK(st, k) ==
  /\ st \in StreamType
  /\ Len(st.queue) <= MetaQueue
  /\ st.pc = "live" => st.replay = <<>>
  /\ st.pc # "free" /\ ~st.lost =>
       /\ Len(st.replay \o st.queue) = k - st.pos
       /\ Consecutive(st.replay \o st.queue, st.pos)

StreamInv ==
  /\ mstream = [s \in MetaStreams |-> mstream[s]]
  /\ \A s \in MetaStreams : StreamOK(mstream[s], Len(issued))

\* Objects and trees are maps.
AreMaps(os, ns) ==
  /\ os = [ref \in DOMAIN os |-> os[ref]]
  /\ ns = [p \in DOMAIN ns |-> ns[p]]

\* A replica with the objects os and the labels of the trees ns.
Replica(os, ns) == [objects |-> os, labels |-> Flat(ns)]

\* Every revision that can still be resumed at has an event.
RevisionsInv == \A r \in 1 .. revision : r > droppedThrough => r \in Range(issued)

MirrorInv ==
  /\ AreMaps(objects, nodes)
  /\ mirror = Replica(objects, nodes)
  /\ RevisionsInv

MetaInv ==
  /\ StoreTyped(objects, nodes)
  /\ StoreIntegral(objects, nodes)
  /\ LogInv
  /\ StreamInv
  /\ MirrorInv

-----------------------------------------------------------------------------
(* Naturals, sets of them and prefixes                                     *)

\* A set of naturals that is bounded has a greatest element.
LEMMA Greatest ==
  ASSUME NEW S \in SUBSET Nat, S # {}, NEW b \in Nat, \A x \in S : x <= b
  PROVE  \E m \in S : \A x \in S : x <= m
<1> DEFINE D == {n \in Nat : \E x \in S : n = b - x}
<1>1. PICK x \in S : TRUE
  OBVIOUS
<1>2. b - x \in D
  BY <1>1
<1>3. PICK n \in D : \A k \in D : <<k, n>> \notin OpToRel(<, Nat)
  BY <1>2, NatLessThanWellFounded, WFMin
<1>4. PICK m \in S : n = b - m
  BY <1>3
<1>5. ASSUME NEW y \in S PROVE y <= m
  <2>1. b - y \in D
    BY <1>5
  <2>2. ~(b - y < n)
    BY <2>1, <1>3 DEF OpToRel
  <2> QED
    BY <2>2, <1>4, <1>5
<1> QED
  BY <1>4, <1>5

\* A set of naturals from 1 up that holds with every number the smaller ones.
LEMMA InitialSegment ==
  ASSUME NEW n \in Nat, NEW S \in SUBSET (1 .. n),
         \A i \in S : \A j \in 1 .. i : j \in S
  PROVE  /\ Cardinality(S) \in 0 .. n
         /\ S = 1 .. Cardinality(S)
<1>1. CASE S = {}
  BY <1>1, FS_EmptySet
<1>2. CASE S # {}
  <2>1. PICK m \in S : \A x \in S : x <= m
    <3>1. S \in SUBSET Nat /\ \A x \in S : x <= n
      OBVIOUS
    <3> QED
      BY <3>1, <1>2, Greatest
  <2>2. m \in 1 .. n
    OBVIOUS
  <2>3. S = 1 .. m
    <3>1. ASSUME NEW i \in S PROVE i \in 1 .. m
      BY <2>1, <2>2
    <3>2. ASSUME NEW i \in 1 .. m PROVE i \in S
      OBVIOUS
    <3> QED
      BY <3>1, <3>2
  <2>4. Cardinality(1 .. m) = m
    BY <2>2, FS_Interval
  <2> QED
    BY <2>2, <2>3, <2>4
<1> QED
  BY <1>1, <1>2

LEMMA PrefixIndex ==
  ASSUME NEW S, NEW s \in Seq(S), NEW t \in Seq(S)
  PROVE  IsPrefix(s, t) <=> Len(s) <= Len(t) /\ \A i \in 1 .. Len(s) : s[i] = t[i]
<1>1. CASE Len(s) <= Len(t)
  <2>1. /\ Len(SubSeq(s, 1, Len(s))) = Len(s)
        /\ \A i \in 1 .. Len(s) : SubSeq(s, 1, Len(s))[i] = s[i]
        /\ SubSeq(s, 1, Len(s)) \in Seq(S)
    OBVIOUS
  <2>2. /\ Len(SubSeq(t, 1, Len(s))) = Len(s)
        /\ \A i \in 1 .. Len(s) : SubSeq(t, 1, Len(s))[i] = t[i]
        /\ SubSeq(t, 1, Len(s)) \in Seq(S)
    BY <1>1
  <2>3. SubSeq(s, 1, Len(s)) = SubSeq(t, 1, Len(s))
          <=> \A i \in 1 .. Len(s) : s[i] = t[i]
    BY <2>1, <2>2, SeqEqual
  <2> QED
    BY <1>1, <2>3 DEF IsPrefix
<1> QED
  BY <1>1 DEF IsPrefix

-----------------------------------------------------------------------------
(* Lists of children                                                       *)

\* A list without one of its elements, all different.
LEMMA RemoveProperties ==
  ASSUME NEW S, NEW s \in Seq(S), IsInjective(s), NEW i \in DOMAIN s
  PROVE  /\ RemoveAt(s, i) \in Seq(S)
         /\ IsInjective(RemoveAt(s, i))
         /\ Range(RemoveAt(s, i)) = Range(s) \ {s[i]}
<1> DEFINE r == RemoveAt(s, i)
<1>1. i \in 1 .. Len(s) /\ Len(s) \in Nat
  OBVIOUS
<1>2. /\ r \in Seq(S)
      /\ Len(r) = Len(s) - 1
      /\ \A j \in 1 .. Len(s) - 1 : r[j] = IF j < i THEN s[j] ELSE s[j + 1]
  <2> DEFINE a == SubSeq(s, 1, i - 1)
             b == SubSeq(s, i + 1, Len(s))
  <2>1. a \in Seq(S) /\ Len(a) = i - 1 /\ \A j \in 1 .. i - 1 : a[j] = s[j]
    BY <1>1
  <2>2. b \in Seq(S) /\ Len(b) = Len(s) - i /\ \A j \in 1 .. Len(s) - i : b[j] = s[i + j]
    BY <1>1
  <2>3. r = a \o b
    BY DEF RemoveAt
  <2> HIDE DEF a, b, r
  <2>4. r \in Seq(S) /\ Len(r) = Len(s) - 1
    BY <1>1, <2>1, <2>2, <2>3
  <2>5. ASSUME NEW j \in 1 .. Len(s) - 1
        PROVE  r[j] = IF j < i THEN s[j] ELSE s[j + 1]
    <3>1. CASE j < i
      BY <1>1, <2>1, <2>2, <2>3, <3>1
    <3>2. CASE j >= i
      <4>1. PICK m : m = j - (i - 1)
        OBVIOUS
      <4>2. m \in 1 .. Len(s) - i /\ j = Len(a) + m /\ i + m = j + 1
        BY <1>1, <2>1, <3>2, <4>1
      <4>3. r[j] = b[m]
        <5>1. \A x \in 1 .. Len(a) + Len(b) :
                (a \o b)[x] = IF x <= Len(a) THEN a[x] ELSE b[x - Len(a)]
          BY <2>1, <2>2, ConcatProperties, Zenon
        <5>2. j \in 1 .. Len(a) + Len(b) /\ ~(j <= Len(a)) /\ j - Len(a) = m
          <6>1. Len(a) = i - 1 /\ Len(b) = Len(s) - i
            BY <2>1, <2>2
          <6>2. PICK la, lb : la = Len(a) /\ lb = Len(b)
            OBVIOUS
          <6>3. la = i - 1 /\ lb = Len(s) - i
            BY <6>1, <6>2
          <6>4. la \in Nat /\ j - la = m
            BY <1>1, <4>1, <6>3
          <6>6. PICK n \in Nat : n = Len(s)
            BY <1>1
          <6>7. j \in 1 .. la + lb
            BY <1>1, <6>3, <6>6
          <6>5. ~(j <= la)
            BY <1>1, <3>2, <6>3
          <6> QED
            BY <6>2, <6>4, <6>5, <6>7
        <5> QED
          BY <2>3, <5>1, <5>2
      <4>4. b[m] = s[j + 1]
        BY <2>2, <4>2
      <4> QED
        BY <1>1, <3>2, <4>2, <4>3, <4>4
    <3> QED
      BY <1>1, <3>1, <3>2
  <2> QED
    BY <2>4, <2>5
<1> HIDE DEF r
<1>3. IsInjective(r)
  <2> SUFFICES ASSUME NEW j \in 1 .. Len(s) - 1, NEW k \in 1 .. Len(s) - 1, r[j] = r[k]
               PROVE  j = k
    BY <1>1, <1>2 DEF IsInjective
  <2> DEFINE up(n) == IF n < i THEN n ELSE n + 1
  <2>1. up(j) \in DOMAIN s /\ up(k) \in DOMAIN s /\ s[up(j)] = s[up(k)]
    BY <1>1, <1>2
  <2>2. up(j) = up(k)
    BY <2>1, Zenon DEF IsInjective
  <2> QED
    BY <1>1, <2>2
<1>4. ASSUME NEW x \in Range(r) PROVE x \in Range(s) \ {s[i]}
  BY <1>1, <1>2 DEF Range, IsInjective
<1>5. ASSUME NEW x \in Range(s), x # s[i] PROVE x \in Range(r)
  <2>1. PICK k \in 1 .. Len(s) : x = s[k]
    BY DEF Range
  <2>2. CASE k < i
    <3>1. k \in DOMAIN r /\ r[k] = x
      BY <1>1, <1>2, <2>1, <2>2
    <3> QED
      BY <3>1 DEF Range
  <2>3. CASE k > i
    <3>1. k - 1 \in DOMAIN r /\ r[k - 1] = x
      BY <1>1, <1>2, <2>1, <2>3
    <3> QED
      BY <3>1 DEF Range
  <2> QED
    BY <1>1, <1>5, <2>1, <2>2, <2>3
<1> QED
  BY <1>2, <1>3, <1>4, <1>5 DEF r

\* A list with one more element, wherever it goes.
LEMMA InsertProperties ==
  ASSUME NEW S, NEW s \in Seq(S), IsInjective(s), NEW e \in S, e \notin Range(s),
         NEW at, at = Absent \/ at \in Nat
  PROVE  /\ Inserted(s, e, at) \in Seq(S)
         /\ IsInjective(Inserted(s, e, at))
         /\ Range(Inserted(s, e, at)) = Range(s) \cup {e}
<1> DEFINE r == Inserted(s, e, at)
<1>1. PICK n : n = (IF at = Absent \/ at > Len(s) THEN Len(s) ELSE at) + 1
  OBVIOUS
<1>2. n \in 1 .. Len(s) + 1 /\ Len(s) \in Nat
  BY <1>1
<1>3. r = InsertAt(s, n, e)
  BY <1>1 DEF Inserted
<1>4. /\ r \in Seq(S)
      /\ Len(r) = Len(s) + 1
      /\ \A j \in 1 .. Len(s) + 1 :
           r[j] = IF j < n THEN s[j] ELSE IF j = n THEN e ELSE s[j - 1]
  <2> DEFINE a == SubSeq(s, 1, n - 1)
             b == SubSeq(s, n, Len(s))
  <2>1. a \in Seq(S) /\ Len(a) = n - 1 /\ \A j \in 1 .. n - 1 : a[j] = s[j]
    BY <1>2
  <2>2. b \in Seq(S) /\ Len(b) = Len(s) + 1 - n
        /\ \A j \in 1 .. Len(s) + 1 - n : b[j] = s[n - 1 + j]
    BY <1>2
  <2>3. r = a \o <<e>> \o b
    BY <1>3 DEF InsertAt
  <2> HIDE DEF a, b, r
  <2>4. PICK c : c = a \o <<e>>
    OBVIOUS
  <2>5. c \in Seq(S) /\ Len(c) = n /\ c[n] = e /\ \A j \in 1 .. n - 1 : c[j] = s[j]
    BY <1>2, <2>1, <2>4
  <2>6. r = c \o b
    BY <2>3, <2>4
  <2>7. r \in Seq(S) /\ Len(r) = Len(s) + 1
    BY <1>2, <2>5, <2>2, <2>6
  <2>8. ASSUME NEW j \in 1 .. Len(s) + 1
        PROVE  r[j] = IF j < n THEN s[j] ELSE IF j = n THEN e ELSE s[j - 1]
    <3>1. CASE j <= n
      BY <1>2, <2>5, <2>2, <2>6, <3>1
    <3>2. CASE j > n
      <4>1. j - n \in 1 .. Len(s) + 1 - n /\ r[j] = b[j - n]
        BY <1>2, <2>5, <2>2, <2>6, <3>2
      <4> QED
        BY <1>2, <2>2, <3>2, <4>1
    <3> QED
      BY <1>2, <3>1, <3>2
  <2> QED
    BY <2>7, <2>8
<1> HIDE DEF r
<1>5. \A j \in 1 .. Len(s) : s[j] # e
  BY DEF Range
<1>6. IsInjective(r)
  <2> SUFFICES ASSUME NEW j \in 1 .. Len(s) + 1, NEW k \in 1 .. Len(s) + 1, r[j] = r[k]
               PROVE  j = k
    BY <1>2, <1>4 DEF IsInjective
  <2> DEFINE down(m) == IF m < n THEN m ELSE m - 1
  <2>0. ASSUME NEW m \in 1 .. Len(s) + 1, m # n PROVE r[m] # e
    <3>1. CASE m < n
      <4>1. m \in 1 .. Len(s) /\ r[m] = s[m]
        BY <1>2, <1>4, <3>1
      <4> QED
        BY <4>1, <1>5
    <3>2. CASE m > n
      <4>1. m - 1 \in 1 .. Len(s) /\ r[m] = s[m - 1]
        BY <1>2, <1>4, <3>2
      <4> QED
        BY <4>1, <1>5
    <3> QED
      BY <1>2, <2>0, <3>1, <3>2
  <2>1. CASE j = n \/ k = n
    <3>1. r[n] = e
      BY <1>2, <1>4
    <3> QED
      BY <2>0, <2>1, <3>1
  <2>2. CASE j # n /\ k # n
    <3>1. down(j) \in DOMAIN s /\ down(k) \in DOMAIN s /\ s[down(j)] = s[down(k)]
      BY <1>2, <1>4, <2>2
    <3>2. down(j) = down(k)
      BY <3>1, Zenon DEF IsInjective
    <3> QED
      BY <1>2, <2>2, <3>2
  <2> QED
    BY <2>1, <2>2
<1>7. ASSUME NEW x \in Range(r) PROVE x \in Range(s) \cup {e}
  <2>1. PICK k \in 1 .. Len(s) + 1 : x = r[k]
    BY <1>2, <1>4 DEF Range
  <2>2. CASE k = n
    BY <1>4, <2>1, <2>2
  <2>3. CASE k # n
    <3>1. PICK m \in DOMAIN s : x = s[m]
      <4>1. (IF k < n THEN k ELSE k - 1) \in DOMAIN s
        BY <1>2, <2>1, <2>3
      <4> QED
        BY <1>4, <2>1, <2>3, <4>1
    <3> QED
      BY <3>1 DEF Range
  <2> QED
    BY <2>2, <2>3
<1>8. e \in Range(r)
  BY <1>2, <1>4 DEF Range
<1>9. ASSUME NEW x \in Range(s) PROVE x \in Range(r)
  <2>1. PICK k \in 1 .. Len(s) : x = s[k]
    BY DEF Range
  <2>2. CASE k < n
    <3>1. k \in DOMAIN r /\ r[k] = x
      BY <1>2, <1>4, <2>1, <2>2
    <3> QED
      BY <3>1 DEF Range
  <2>3. CASE k >= n
    <3>1. k + 1 \in DOMAIN r /\ r[k + 1] = x
      BY <1>2, <1>4, <2>1, <2>3
    <3> QED
      BY <3>1 DEF Range
  <2> QED
    BY <1>2, <2>1, <2>2, <2>3
<1> QED
  BY <1>4, <1>6, <1>7, <1>8, <1>9 DEF r

-----------------------------------------------------------------------------
(* Paths                                                                   *)

\* Every path but the empty one is a parent's with a last id.
LEMMA PathSplit ==
  ASSUME NEW S, NEW p \in Seq(S), Len(p) > 0
  PROVE  /\ Parent(p) \in Seq(S)
         /\ Len(Parent(p)) = Len(p) - 1
         /\ \A i \in 1 .. Len(p) - 1 : Parent(p)[i] = p[i]
         /\ Last(p) = p[Len(p)]
         /\ Last(p) \in S
         /\ Append(Parent(p), Last(p)) = p
<1>1. /\ Parent(p) \in Seq(S)
      /\ Len(Parent(p)) = Len(p) - 1
      /\ \A i \in 1 .. Len(p) - 1 : Parent(p)[i] = p[i]
      /\ Last(p) = p[Len(p)]
      /\ Last(p) \in S
  <2>1. Parent(p) = SubSeq(p, 1, Len(p) - 1) /\ Last(p) = p[Len(p)]
    BY DEF Parent, Front, Last
  <2>2. Len(p) \in 1 .. Len(p) /\ Len(p) \in Nat
    OBVIOUS
  <2>3. p[Len(p)] \in S
    BY <2>2
  <2>4. PICK f : f = SubSeq(p, 1, Len(p) - 1)
    OBVIOUS
  <2>5. f \in Seq(S) /\ Len(f) = Len(p) - 1 /\ \A i \in 1 .. Len(p) - 1 : f[i] = p[i]
    <3>1. PICK n \in Nat : Len(p) = n + 1 /\ Len(p) - 1 = n
      BY <2>2
    <3>2. \A i \in 1 .. n : p[i] \in S /\ 1 + i - 1 = i
      BY <3>1
    <3>3. f \in Seq(S) /\ Len(f) = (IF 1 <= n THEN n - 1 + 1 ELSE 0)
          /\ \A i \in 1 .. n - 1 + 1 : f[i] = p[1 + i - 1]
      BY <2>4, <3>1, <3>2, SubSeqProperties
    <3>4. Len(f) = n /\ n - 1 + 1 = n
      BY <3>3
    <3> QED
      BY <3>1, <3>2, <3>3, <3>4
  <2> QED
    BY <2>1, <2>3, <2>4, <2>5
<1>2. Append(Parent(p), Last(p)) \in Seq(S) /\ Len(Append(Parent(p), Last(p))) = Len(p)
  BY <1>1
<1>3. \A i \in 1 .. Len(p) : Append(Parent(p), Last(p))[i] = p[i]
  BY <1>1
<1> QED
  BY <1>1, <1>2, <1>3, SeqEqual

LEMMA AppendSplit ==
  ASSUME NEW S, NEW p \in Seq(S), NEW k \in S
  PROVE  /\ Append(p, k) \in Seq(S) /\ Len(Append(p, k)) = Len(p) + 1
         /\ Parent(Append(p, k)) = p /\ Last(Append(p, k)) = k
<1> DEFINE q == Append(p, k)
<1>1. q \in Seq(S) /\ Len(q) = Len(p) + 1 /\ q[Len(p) + 1] = k
      /\ \A i \in 1 .. Len(p) : q[i] = p[i]
  OBVIOUS
<1> HIDE DEF q
<1>2. Len(q) > 0 /\ Len(q) - 1 = Len(p)
  BY <1>1
<1>3. /\ Parent(q) \in Seq(S) /\ Len(Parent(q)) = Len(p)
      /\ \A i \in 1 .. Len(p) : Parent(q)[i] = q[i]
      /\ Last(q) = q[Len(q)]
  BY <1>1, <1>2, PathSplit
<1>4. Parent(q) = p
  BY <1>1, <1>3, SeqEqual
<1>5. Last(q) = k
  BY <1>1, <1>3
<1> QED
  BY <1>1, <1>4, <1>5 DEF q

\* What is below a node is the node itself or has its parent below it.
LEMMA BelowParent ==
  ASSUME NEW S, NEW p \in Seq(S), NEW path \in Seq(S), Len(p) > 0
  PROVE  IsPrefix(path, p) <=> path = p \/ IsPrefix(path, Parent(p))
<1>1. /\ Parent(p) \in Seq(S) /\ Len(Parent(p)) = Len(p) - 1
      /\ \A i \in 1 .. Len(p) - 1 : Parent(p)[i] = p[i]
  BY PathSplit
<1>2. IsPrefix(path, p) <=> Len(path) <= Len(p) /\ \A i \in 1 .. Len(path) : path[i] = p[i]
  BY PrefixIndex
<1>3. IsPrefix(path, Parent(p)) <=>
        Len(path) <= Len(p) - 1 /\ \A i \in 1 .. Len(path) : path[i] = Parent(p)[i]
  BY <1>1, PrefixIndex
<1>4. CASE Len(path) = Len(p)
  <2>1. IsPrefix(path, p) <=> path = p
    BY <1>2, <1>4, SeqEqual
  <2> QED
    BY <1>3, <1>4, <2>1
<1>5. CASE Len(path) # Len(p)
  <2>1. path # p
    BY <1>5
  <2> QED
    BY <1>1, <1>2, <1>3, <1>5, <2>1
<1> QED
  BY <1>4, <1>5

LEMMA BelowAppend ==
  ASSUME NEW S, NEW p \in Seq(S), NEW k \in S, NEW path \in Seq(S)
  PROVE  IsPrefix(path, Append(p, k)) <=> path = Append(p, k) \/ IsPrefix(path, p)
<1> DEFINE q == Append(p, k)
<1>1. q \in Seq(S) /\ Len(q) > 0 /\ Parent(q) = p
  BY AppendSplit
<1> HIDE DEF q
<1>2. IsPrefix(path, q) <=> path = q \/ IsPrefix(path, Parent(q))
  BY <1>1, BelowParent
<1> QED
  BY <1>1, <1>2 DEF q

\* A renamed path r is the new prefix with what followed the old one.
IsRenamed(S, p, from, to, r) ==
  /\ r \in Seq(S)
  /\ Len(r) = Len(to) + (Len(p) - Len(from))
  /\ \A i \in 1 .. Len(to) : r[i] = to[i]
  /\ \A i \in 1 .. Len(p) - Len(from) : r[Len(to) + i] = p[Len(from) + i]

LEMMA RenamedProperties ==
  ASSUME NEW S, NEW p \in Seq(S), NEW from \in Seq(S), NEW to \in Seq(S), IsPrefix(from, p)
  PROVE  IsRenamed(S, p, from, to, Renamed(p, from, to))
<1> DEFINE r == Renamed(p, from, to)
           rest == SubSeq(p, Len(from) + 1, Len(p))
<1>1. PICK n \in Nat, f \in Nat, t \in Nat :
        n = Len(p) /\ f = Len(from) /\ t = Len(to)
  OBVIOUS
<1>2. f <= n
  BY <1>1, PrefixIndex
<1>3. rest \in Seq(S) /\ Len(rest) = n - f /\ \A i \in 1 .. n - f : rest[i] = p[f + i]
  <2>1. \A i \in f + 1 .. n : p[i] \in S
    BY <1>1
  <2>2. /\ rest \in Seq(S)
        /\ Len(rest) = IF f + 1 <= n THEN n - (f + 1) + 1 ELSE 0
        /\ \A i \in 1 .. n - (f + 1) + 1 : rest[i] = p[f + 1 + i - 1]
    BY <1>1, <2>1, SubSeqProperties
  <2>3. n - (f + 1) + 1 = n - f /\ \A i \in 1 .. n - f : f + 1 + i - 1 = f + i
    BY <1>1
  <2> QED
    BY <1>1, <1>2, <2>2, <2>3
<1> HIDE DEF rest
<1>4. r = to \o rest
  BY DEF Renamed, rest
<1> HIDE DEF r
<1>5. r \in Seq(S) /\ Len(r) = t + (n - f)
  <2>1. r \in Seq(S) /\ Len(r) = Len(to) + Len(rest)
    BY <1>3, <1>4, ConcatProperties, Zenon
  <2> QED
    BY <1>1, <1>3, <2>1
<1>6. \A i \in 1 .. t + (n - f) : r[i] = IF i <= t THEN to[i] ELSE rest[i - t]
  <2>1. \A i \in 1 .. Len(to) + Len(rest) :
          (to \o rest)[i] = IF i <= Len(to) THEN to[i] ELSE rest[i - Len(to)]
    BY <1>3, ConcatProperties, Zenon
  <2> QED
    BY <1>1, <1>3, <1>4, <2>1
<1>7. \A i \in 1 .. t : r[i] = to[i]
  BY <1>2, <1>6
<1>8. ASSUME NEW i \in 1 .. n - f PROVE r[t + i] = p[f + i]
  <2>1. PICK k : k = t + i
    OBVIOUS
  <2>2. k \in 1 .. t + (n - f) /\ ~(k <= t) /\ k - t = i
    BY <1>1, <1>2, <2>1
  <2>3. r[k] = rest[i]
    BY <1>6, <2>2
  <2> QED
    BY <1>3, <2>1, <2>3
<1> QED
  BY <1>1, <1>5, <1>7, <1>8 DEF r, IsRenamed

LEMMA RenamedSelf ==
  ASSUME NEW S, NEW from \in Seq(S), NEW to \in Seq(S)
  PROVE  IsPrefix(from, from) /\ Renamed(from, from, to) = to
<1>1. IsPrefix(from, from)
  BY PrefixIndex
<1>2. PICK r : r = Renamed(from, from, to)
  OBVIOUS
<1>3. r \in Seq(S) /\ Len(r) = Len(to) + (Len(from) - Len(from))
      /\ \A i \in 1 .. Len(to) : r[i] = to[i]
  <2>1. IsRenamed(S, from, from, to, r)
    BY <1>1, <1>2, RenamedProperties, Zenon
  <2> QED
    BY <2>1 DEF IsRenamed
<1>4. Len(r) = Len(to)
  BY <1>3
<1> QED
  BY <1>1, <1>2, <1>3, <1>4, SeqEqual

LEMMA RenamedBelow ==
  ASSUME NEW S, NEW p \in Seq(S), NEW from \in Seq(S), NEW to \in Seq(S), IsPrefix(from, p)
  PROVE  IsPrefix(to, Renamed(p, from, to))
<1>1. PICK r : r = Renamed(p, from, to)
  OBVIOUS
<1>2. /\ r \in Seq(S) /\ Len(r) = Len(to) + (Len(p) - Len(from))
      /\ \A i \in 1 .. Len(to) : r[i] = to[i]
  <2>1. IsRenamed(S, p, from, to, r)
    BY <1>1, RenamedProperties, Zenon
  <2> QED
    BY <2>1 DEF IsRenamed
<1>3. Len(from) <= Len(p)
  BY PrefixIndex
<1>4. Len(to) <= Len(r)
  BY <1>2, <1>3
<1>5. IsPrefix(to, r)
  BY <1>2, <1>4, PrefixIndex
<1> QED
  BY <1>1, <1>5

LEMMA RenamedInjective ==
  ASSUME NEW S, NEW p \in Seq(S), NEW q \in Seq(S), NEW from \in Seq(S), NEW to \in Seq(S),
         IsPrefix(from, p), IsPrefix(from, q), Renamed(p, from, to) = Renamed(q, from, to)
  PROVE  p = q
<1>1. PICK r : r = Renamed(p, from, to) /\ r = Renamed(q, from, to)
  OBVIOUS
<1>2. PICK f \in Nat, t \in Nat, n \in Nat, m \in Nat :
        f = Len(from) /\ t = Len(to) /\ n = Len(p) /\ m = Len(q)
  OBVIOUS
<1>3. Len(r) = t + (n - f) /\ \A i \in 1 .. n - f : r[t + i] = p[f + i]
  <2>1. IsRenamed(S, p, from, to, r)
    BY <1>1, RenamedProperties, Zenon
  <2> QED
    BY <1>2, <2>1 DEF IsRenamed
<1>4. Len(r) = t + (m - f) /\ \A i \in 1 .. m - f : r[t + i] = q[f + i]
  <2>1. IsRenamed(S, q, from, to, r)
    BY <1>1, RenamedProperties, Zenon
  <2> QED
    BY <1>2, <2>1 DEF IsRenamed
<1>5. /\ f <= n /\ \A i \in 1 .. f : p[i] = from[i]
      /\ f <= m /\ \A i \in 1 .. f : q[i] = from[i]
  <2>1. Len(from) <= Len(p) /\ \A i \in 1 .. Len(from) : from[i] = p[i]
    BY PrefixIndex
  <2>2. Len(from) <= Len(q) /\ \A i \in 1 .. Len(from) : from[i] = q[i]
    BY PrefixIndex
  <2> QED
    BY <1>2, <2>1, <2>2
<1>6. n = m
  BY <1>2, <1>3, <1>4
<1>7. ASSUME NEW i \in 1 .. n PROVE p[i] = q[i]
  <2>1. CASE i <= f
    BY <1>2, <1>5, <2>1
  <2>2. CASE i > f
    <3>1. PICK k \in 1 .. n - f : i = f + k
      <4>1. i - f \in 1 .. n - f /\ i = f + (i - f)
        BY <1>2, <2>2
      <4> QED
        BY <4>1
    <3> QED
      BY <1>3, <1>4, <1>6, <3>1
  <2> QED
    BY <1>2, <2>1, <2>2
<1> QED
  BY <1>2, <1>6, <1>7, SeqEqual

RenamedGrows(p, from, to, k) ==
  Renamed(Append(p, k), from, to) = Append(Renamed(p, from, to), k)

LEMMA RenamedAppend ==
  ASSUME NEW S, NEW p \in Seq(S), NEW from \in Seq(S), NEW to \in Seq(S), NEW k \in S,
         IsPrefix(from, p)
  PROVE  RenamedGrows(p, from, to, k)
<1>1. PICK r, q : r = Renamed(p, from, to) /\ q = Append(p, k)
  OBVIOUS
<1>2. PICK f \in Nat, t \in Nat, n \in Nat : f = Len(from) /\ t = Len(to) /\ n = Len(p)
  OBVIOUS
<1>3. q \in Seq(S) /\ Len(q) = n + 1 /\ q[n + 1] = k /\ \A i \in 1 .. n : q[i] = p[i]
  BY <1>1, <1>2
<1>4. IsPrefix(from, q)
  BY <1>1, BelowAppend
<1>5. PICK x : x = Renamed(q, from, to)
  OBVIOUS
<1>6. /\ x \in Seq(S) /\ Len(x) = t + (n + 1 - f)
      /\ \A i \in 1 .. t : x[i] = to[i]
      /\ \A i \in 1 .. n + 1 - f : x[t + i] = q[f + i]
  <2>1. IsRenamed(S, q, from, to, x)
    BY <1>3, <1>4, <1>5, RenamedProperties, Zenon
  <2> QED
    BY <1>2, <1>3, <2>1 DEF IsRenamed
<1>7. /\ r \in Seq(S) /\ Len(r) = t + (n - f)
      /\ \A i \in 1 .. t : r[i] = to[i]
      /\ \A i \in 1 .. n - f : r[t + i] = p[f + i]
  <2>1. IsRenamed(S, p, from, to, r)
    BY <1>1, RenamedProperties, Zenon
  <2> QED
    BY <1>2, <2>1 DEF IsRenamed
<1>8. f <= n
  BY <1>2, PrefixIndex
<1>9. PICK y : y = Append(r, k)
  OBVIOUS
<1>10. PICK l \in Nat : l = t + (n - f)
  <2>1. t + (n - f) \in Nat
    BY <1>8
  <2> QED
    BY <2>1
<1>11. y \in Seq(S) /\ Len(y) = l + 1 /\ y[l + 1] = k /\ \A i \in 1 .. l : y[i] = r[i]
  BY <1>7, <1>9, <1>10
<1>12. Len(x) = Len(y)
  BY <1>2, <1>6, <1>8, <1>10, <1>11
<1>13. ASSUME NEW i \in 1 .. l + 1 PROVE x[i] = y[i]
  <2>1. CASE i <= t
    <3>1. i \in 1 .. t /\ i \in 1 .. l
      BY <1>2, <1>8, <1>10, <2>1
    <3> QED
      BY <1>6, <1>7, <1>11, <3>1
  <2>2. CASE i > t /\ i <= l
    <3>1. PICK j \in 1 .. n - f : i = t + j
      <4>1. i - t \in 1 .. n - f /\ i = t + (i - t)
        BY <1>2, <1>8, <1>10, <2>2
      <4> QED
        BY <4>1
    <3>2. j \in 1 .. n + 1 - f /\ f + j \in 1 .. n
      BY <1>2, <1>8, <3>1
    <3>3. x[i] = q[f + j] /\ y[i] = r[i] /\ r[i] = p[f + j]
      BY <1>6, <1>7, <1>11, <2>2, <3>1, <3>2
    <3> QED
      BY <1>3, <3>2, <3>3
  <2>3. CASE i = l + 1
    <3>1. PICK j : j = n + 1 - f
      OBVIOUS
    <3>2. j \in 1 .. n + 1 - f /\ i = t + j /\ f + j = n + 1
      BY <1>2, <1>8, <1>10, <2>3, <3>1
    <3>3. x[i] = q[n + 1]
      BY <1>6, <3>2
    <3> QED
      BY <1>3, <1>11, <2>3, <3>3
  <2> QED
    BY <1>10, <2>1, <2>2, <2>3
<1>14. x = y
  BY <1>6, <1>11, <1>12, <1>13, SeqEqual
<1> QED
  BY <1>1, <1>5, <1>9, <1>14 DEF RenamedGrows

-----------------------------------------------------------------------------
(* The transactions keep a sound store sound                               *)

Sound(os, ns) == StoreTyped(os, ns) /\ StoreIntegral(os, ns)

\* Every node above a node is there.
LEMMA AncestorsThere ==
  ASSUME NEW os, NEW ns, Sound(os, ns), NEW path \in Path, path # <<>>,
         NEW q \in DOMAIN ns, IsPrefix(path, q)
  PROVE  path \in DOMAIN ns
<1> DEFINE D == {n \in Nat : \E p \in DOMAIN ns : Len(p) = n /\ IsPrefix(path, p)}
<1>1. Len(q) \in D
  BY DEF Sound, StoreTyped, Path
<1>2. PICK n \in D : \A k \in D : <<k, n>> \notin OpToRel(<, Nat)
  BY <1>1, NatLessThanWellFounded, WFMin
<1>3. PICK p \in DOMAIN ns : Len(p) = n /\ IsPrefix(path, p)
  BY <1>2
<1> HIDE DEF D
<1>4. p \in Path /\ p # <<>> /\ Len(p) \in Nat /\ Len(p) > 0
  BY DEF Sound, StoreTyped, Path
<1>5. CASE p = path
  BY <1>5
<1>6. CASE p # path
  <2>1. IsPrefix(path, Parent(p))
    BY <1>3, <1>4, <1>6, BelowParent DEF Path
  <2>2. Parent(p) \in Path /\ Len(Parent(p)) = Len(p) - 1
    BY <1>4, PathSplit DEF Path
  <2>3. Len(path) <= Len(Parent(p)) /\ Len(path) > 0
    BY <2>1, <2>2, PrefixIndex DEF Path
  <2>4. Len(p) > 1
    BY <1>4, <2>2, <2>3 DEF Path
  <2>5. Parent(p) \in DOMAIN ns
    BY <2>4 DEF Sound, StoreIntegral
  <2>6. Len(p) - 1 \in D
    BY <2>1, <2>2, <2>4, <2>5, <1>4 DEF D
  <2>7. ~(Len(p) - 1 < n)
    BY <1>2, <1>3, <1>4, <2>4, <2>6 DEF OpToRel, D
  <2> QED
    BY <1>3, <1>4, <2>7
<1> QED
  BY <1>5, <1>6

\* What is written of an object is an object with paths that exist.
LEMMA PatchKeeps ==
  ASSUME NEW os, NEW ns, Sound(os, ns), NEW ref \in Refs, NEW p \in ObjectPatch,
         PatchedObject(os, ns, ref, p) # Refused
  PROVE  LET res == PatchedObject(os, ns, ref, p) IN
         /\ res.nodes = ns /\ res.events = <<>>
         /\ DOMAIN res.objects = DOMAIN os \cup {ref}
         /\ \A r \in DOMAIN os : r # ref => res.objects[r] = os[r]
         /\ res.objects[ref] \in Object
         /\ \A path \in res.objects[ref].enums : HasPath(ns, path)
<1> DEFINE res == PatchedObject(os, ns, ref, p)
           old == IF ref \in DOMAIN os THEN os[ref]
                  ELSE [name |-> Absent, enums |-> {}, meta |-> {}, orphaned |-> FALSE]
           base == IF p.replace THEN [old EXCEPT !.enums = {}, !.meta = {}] ELSE old
           meta == IF p.hasMeta THEN (base.meta \cup p.put) \ p.null ELSE base.meta
           new == [base EXCEPT
                    !.name = IF p.name = Absent THEN @ ELSE p.name,
                    !.enums = IF p.enums = Absent THEN @ ELSE p.enums,
                    !.meta = meta]
<1>1. /\ ~(ref \notin DOMAIN os /\ p.name = Absent)
      /\ ~(p.name # Absent /\ ~ValidName(p.name))
      /\ ~(p.enums # Absent /\ \E path \in p.enums : ~HasPath(ns, path))
      /\ res = Done(With(os, ref, new), ns, <<>>)
  BY DEF PatchedObject
<1>2. /\ DOMAIN old = {"name", "enums", "meta", "orphaned"}
      /\ ref \in DOMAIN os => old.name \in Labels
      /\ old.enums \in SUBSET Path /\ \A path \in old.enums : HasPath(ns, path)
      /\ old.meta \in SUBSET Namespaces /\ old.orphaned \in BOOLEAN
      /\ old = [x \in DOMAIN old |-> old[x]]
  <2>1. CASE ref \in DOMAIN os
    <3>1. old = os[ref] /\ os[ref] \in Object /\ \A path \in os[ref].enums : HasPath(ns, path)
      BY <2>1 DEF Sound, StoreTyped, StoreIntegral
    <3> QED
      BY <3>1 DEF Object
  <2>2. CASE ref \notin DOMAIN os
    BY <2>2
  <2> QED
    BY <2>1, <2>2
<1> HIDE DEF old
<1>3. /\ DOMAIN base = {"name", "enums", "meta", "orphaned"}
      /\ base.name = old.name
      /\ base.enums \in SUBSET Path /\ \A path \in base.enums : HasPath(ns, path)
      /\ base.meta \in SUBSET Namespaces /\ base.orphaned \in BOOLEAN
      /\ base = [x \in DOMAIN base |-> base[x]]
  BY <1>2
<1> HIDE DEF base
<1>4. p.name # Absent => p.name \in Labels
  BY <1>1 DEF ValidName, ObjectPatch
<1>5. p.enums # Absent => p.enums \in SUBSET Path /\ \A path \in p.enums : HasPath(ns, path)
  BY <1>1 DEF ObjectPatch
<1>6. meta \in SUBSET Namespaces
  BY <1>3 DEF ObjectPatch
<1> HIDE DEF meta
<1>7. /\ new \in Object
      /\ \A path \in new.enums : HasPath(ns, path)
  BY <1>1, <1>2, <1>3, <1>4, <1>5, <1>6 DEF Object
<1> HIDE DEF new, res
<1>8. res.nodes = ns /\ res.events = <<>> /\ res.objects = With(os, ref, new)
  BY <1>1 DEF Done
<1> QED
  BY <1>7, <1>8 DEF With, res

\* The objects of os and the trees ns apart.
ObjectsSound(os, ns) ==
  /\ DOMAIN os \subseteq Refs
  /\ \A ref \in DOMAIN os : os[ref] \in Object /\ \A p \in os[ref].enums : HasPath(ns, p)

NodeSound(ns, p) ==
  /\ p \in Path \ {<<>>}
  /\ ns[p] \in [label : Labels, kids : Seq(NodeIds)]
  /\ IsInjective(ns[p].kids)
  /\ \A id \in Range(ns[p].kids) : Append(p, id) \in DOMAIN ns
  /\ Len(p) > 1 => Parent(p) \in DOMAIN ns /\ Last(p) \in Range(ns[Parent(p)].kids)
  /\ Len(p) - 1 <= MaxDepth

LEMMA SoundParts ==
  ASSUME NEW os, NEW ns
  PROVE  Sound(os, ns) <=> ObjectsSound(os, ns) /\ \A p \in DOMAIN ns : NodeSound(ns, p)
BY DEF Sound, StoreTyped, StoreIntegral, ObjectsSound, NodeSound

LEMMA ObjectWritten ==
  ASSUME NEW os, NEW ns, Sound(os, ns), NEW ref \in Refs, NEW p \in ObjectPatch,
         NEW res, res = PatchedObject(os, ns, ref, p), res # Refused
  PROVE  Sound(res.objects, res.nodes)
<1>1. /\ res.nodes = ns /\ res.events = <<>>
      /\ DOMAIN res.objects = DOMAIN os \cup {ref}
      /\ \A r \in DOMAIN os : r # ref => res.objects[r] = os[r]
      /\ res.objects[ref] \in Object
      /\ \A path \in res.objects[ref].enums : HasPath(ns, path)
  BY PatchKeeps
<1>2. ObjectsSound(res.objects, ns)
  BY <1>1, SoundParts DEF ObjectsSound
<1> QED
  BY <1>1, <1>2, SoundParts

LEMMA ObjectGone ==
  ASSUME NEW os, NEW ns, Sound(os, ns), NEW ref,
         NEW res, res = DeletedObject(os, ns, ref), res # Refused
  PROVE  Sound(res.objects, res.nodes)
<1>1. res.nodes = ns /\ res.events = <<>> /\ res.objects = Restrict(os, DOMAIN os \ {ref})
  BY DEF DeletedObject, Done
<1>2. ObjectsSound(os, ns) /\ \A p \in DOMAIN ns : NodeSound(ns, p)
  BY SoundParts
<1>3. ObjectsSound(res.objects, ns)
  BY <1>1, <1>2 DEF ObjectsSound, Restrict
<1> QED
  BY <1>1, <1>2, <1>3, SoundParts

LEMMA ObjectOrphaned ==
  ASSUME NEW os, NEW ns, Sound(os, ns), NEW ref, NEW orphaned \in BOOLEAN,
         NEW res, res = OrphanedObject(os, ns, ref, orphaned), res # Refused
  PROVE  Sound(res.objects, res.nodes)
<1>1. /\ res.nodes = ns /\ res.events = <<>> /\ ref \in DOMAIN os
      /\ res.objects = [os EXCEPT ![ref].orphaned = orphaned]
  BY DEF OrphanedObject, Done
<1>2. ObjectsSound(os, ns) /\ \A p \in DOMAIN ns : NodeSound(ns, p)
  BY SoundParts
<1>3. PICK new : new = [os[ref] EXCEPT !.orphaned = orphaned]
  OBVIOUS
<1>4. os[ref] \in Object /\ \A p \in os[ref].enums : HasPath(ns, p)
  BY <1>1, <1>2 DEF ObjectsSound
<1>5. new \in Object /\ new.enums = os[ref].enums
  BY <1>3, <1>4 DEF Object
<1>6. DOMAIN res.objects = DOMAIN os
      /\ \A r \in DOMAIN os : res.objects[r] = IF r = ref THEN new ELSE os[r]
  BY <1>1, <1>3
<1>7. ObjectsSound(res.objects, ns)
  BY <1>2, <1>4, <1>5, <1>6 DEF ObjectsSound
<1> QED
  BY <1>1, <1>2, <1>7, SoundParts

LEMMA BulkDone ==
  ASSUME NEW os, NEW ns, Sound(os, ns), NEW set, NEW del,
         DOMAIN set \subseteq Refs, \A ref \in DOMAIN set : set[ref] \in ObjectPatch,
         NEW res, res = BulkWritten(os, ns, set, del), res # Refused
  PROVE  Sound(res.objects, res.nodes)
<1> DEFINE patched == [ref \in DOMAIN set |-> PatchedObject(os, ns, ref, set[ref])]
           all == DOMAIN os \cup DOMAIN set
<1>1. /\ \A ref \in DOMAIN set : patched[ref] # Refused
      /\ res.nodes = ns /\ res.events = <<>>
      /\ res.objects = [ref \in all \ Range(del) |->
                          IF ref \in DOMAIN set THEN patched[ref].objects[ref] ELSE os[ref]]
  BY DEF BulkWritten, Done
<1>2. ObjectsSound(os, ns) /\ \A p \in DOMAIN ns : NodeSound(ns, p)
  BY SoundParts
<1>3. \A ref \in DOMAIN set :
        /\ patched[ref].objects[ref] \in Object
        /\ \A path \in patched[ref].objects[ref].enums : HasPath(ns, path)
  <2> SUFFICES ASSUME NEW ref \in DOMAIN set
               PROVE  /\ patched[ref].objects[ref] \in Object
                      /\ \A path \in patched[ref].objects[ref].enums : HasPath(ns, path)
    OBVIOUS
  <2>1. ref \in Refs /\ set[ref] \in ObjectPatch
        /\ PatchedObject(os, ns, ref, set[ref]) # Refused
    BY <1>1
  <2> QED
    BY <2>1, PatchKeeps
<1> HIDE DEF patched
<1>4. ObjectsSound(res.objects, ns)
  BY <1>1, <1>2, <1>3 DEF ObjectsSound
<1> QED
  BY <1>1, <1>2, <1>4, SoundParts

\* Objects after a removal was allowed: they hold nothing below the path.
LEMMA MembersGone ==
  ASSUME NEW os, NEW ns, Sound(os, ns), NEW path \in Path, NEW detach,
         NEW kept, kept = MembersCheck(os, path, detach), kept # Refused
  PROVE  /\ DOMAIN kept \subseteq Refs
         /\ \A ref \in DOMAIN kept :
              /\ kept[ref] \in Object
              /\ \A p \in kept[ref].enums : HasPath(ns, p) /\ ~IsPrefix(path, p)
<1>1. ObjectsSound(os, ns)
  BY SoundParts
<1>2. CASE ObjectsUnder(os, path) = {}
  <2>1. kept = os
    BY <1>2 DEF MembersCheck
  <2>2. \A ref \in DOMAIN os : \A p \in os[ref].enums : ~IsPrefix(path, p)
    BY <1>2 DEF ObjectsUnder
  <2> QED
    BY <1>1, <2>1, <2>2 DEF ObjectsSound
<1>3. CASE ObjectsUnder(os, path) # {}
  <2>1. kept = StripPaths(os, path)
    BY <1>3 DEF MembersCheck
  <2>2. DOMAIN kept = DOMAIN os
    BY <2>1 DEF StripPaths
  <2>3. ASSUME NEW ref \in DOMAIN os
        PROVE  kept[ref] \in Object /\ \A p \in kept[ref].enums : HasPath(ns, p) /\ ~IsPrefix(path, p)
    <3>1. os[ref] \in Object /\ \A p \in os[ref].enums : HasPath(ns, p)
      BY <1>1 DEF ObjectsSound
    <3>2. kept[ref] = [os[ref] EXCEPT !.enums = {p \in os[ref].enums : ~IsPrefix(path, p)}]
      BY <2>1 DEF StripPaths
    <3>3. PICK less : less = {p \in os[ref].enums : ~IsPrefix(path, p)}
      OBVIOUS
    <3>4. less \subseteq os[ref].enums /\ \A p \in less : ~IsPrefix(path, p)
      BY <3>3
    <3>5. kept[ref] = [os[ref] EXCEPT !.enums = less]
      BY <3>2, <3>3
    <3>6. kept[ref] \in Object /\ kept[ref].enums = less
      BY <3>1, <3>4, <3>5 DEF Object
    <3> QED
      BY <3>1, <3>4, <3>6
  <2> QED
    BY <1>1, <2>2, <2>3 DEF ObjectsSound
<1> QED
  BY <1>2, <1>3

\* Objects stay sound while their paths are kept.
LEMMA ObjectsStay ==
  ASSUME NEW os, NEW ns, NEW after, ObjectsSound(os, ns),
         \A p \in DOMAIN ns : Len(p) > 1 => p \in DOMAIN after
  PROVE  ObjectsSound(os, after)
BY DEF ObjectsSound, HasPath

LEMMA OneStep ==
  ASSUME NEW e \in Enums
  PROVE  <<e>> \in Path /\ <<e>> # <<>> /\ Len(<<e>>) = 1
BY DEF Path

\* Nothing is a parent of an enum's root.
LEMMA NoRootBelow ==
  ASSUME NEW p \in Path, p # <<>>, NEW k \in NodeIds, NEW e \in Enums
  PROVE  /\ Append(p, k) \in Path
         /\ Append(p, k) # <<e>>
<1>1. Len(p) > 0 /\ Len(p) \in Nat
  BY DEF Path
<1>2. Append(p, k) \in Path /\ Len(Append(p, k)) = Len(p) + 1
  BY DEF Path
<1> QED
  BY SMTT(30), <1>1, <1>2, OneStep

LEMMA EnumMade ==
  ASSUME NEW os, NEW ns, Sound(os, ns), NEW e \in Enums, NEW name \in Labels \cup {BadName},
         NEW res, res = CreatedEnum(os, ns, e, name), res # Refused
  PROVE  Sound(res.objects, res.nodes)
<1> DEFINE new == [label |-> name, kids |-> <<>>]
<1>1. /\ <<e>> \notin DOMAIN ns /\ ValidName(name)
      /\ res.objects = os /\ res.nodes = With(ns, <<e>>, new)
     
  BY DEF CreatedEnum, Done
<1>2. new \in [label : Labels, kids : Seq(NodeIds)] /\ new.kids = <<>>
  BY <1>1 DEF ValidName
<1> HIDE DEF new
<1>3. ObjectsSound(os, ns) /\ \A p \in DOMAIN ns : NodeSound(ns, p)
  BY SoundParts
<1> DEFINE after == res.nodes
<1>4. DOMAIN after = {<<e>>} \cup DOMAIN ns /\ after[<<e>>] = new
      /\ \A p \in DOMAIN ns : after[p] = ns[p]
  BY <1>1 DEF With
<1> HIDE DEF after
<1>5. NodeSound(after, <<e>>)
  <2>1. IsInjective(<<>>) /\ Range(<<>>) = {}
    BY DEF IsInjective, Range
  <2> QED
    BY <1>2, <1>4, <2>1, OneStep, MetaAssumption DEF NodeSound
<1>6. ASSUME NEW p \in DOMAIN ns PROVE NodeSound(after, p)
  <2>1. NodeSound(ns, p) /\ after[p] = ns[p]
    BY <1>3, <1>4
  <2>2. Len(p) > 1 => Parent(p) \in DOMAIN ns /\ after[Parent(p)] = ns[Parent(p)]
    BY <1>4, <2>1 DEF NodeSound
  <2> QED
    BY <1>4, <2>1, <2>2 DEF NodeSound
<1>7. ObjectsSound(os, after)
  BY <1>3, <1>4, ObjectsStay
<1> QED
  BY <1>1, <1>4, <1>5, <1>6, <1>7, SoundParts DEF after

NewLabel(ns, path, label, after) ==
  path \in DOMAIN ns /\ label \in Labels /\ after = [ns EXCEPT ![path].label = label]

SameKids(ns, after) ==
  DOMAIN after = DOMAIN ns /\ \A p \in DOMAIN ns : after[p].kids = ns[p].kids

\* A new label changes nothing else.
LEMMA Relabelled ==
  ASSUME NEW os, NEW ns, Sound(os, ns), NEW path, NEW label, NEW after,
         NewLabel(ns, path, label, after)
  PROVE  Sound(os, after) /\ SameKids(ns, after)
<1>0. path \in DOMAIN ns /\ label \in Labels /\ after = [ns EXCEPT ![path].label = label]
  BY DEF NewLabel
<1>1. ObjectsSound(os, ns) /\ \A p \in DOMAIN ns : NodeSound(ns, p)
  BY SoundParts
<1>2. \A p \in DOMAIN ns : ns[p] \in [label : Labels, kids : Seq(NodeIds)]
  BY <1>1 DEF NodeSound
<1>3. DOMAIN after = DOMAIN ns
  BY <1>0
<1>4. \A p \in DOMAIN ns : /\ after[p] \in [label : Labels, kids : Seq(NodeIds)]
                           /\ after[p].kids = ns[p].kids
  <2> SUFFICES ASSUME NEW p \in DOMAIN ns
               PROVE  /\ after[p] \in [label : Labels, kids : Seq(NodeIds)]
                      /\ after[p].kids = ns[p].kids
    OBVIOUS
  <2>1. after[p] = IF p = path THEN [ns[p] EXCEPT !.label = label] ELSE ns[p]
    BY <1>0
  <2> QED
    BY <1>0, <1>2, <2>1
<1>5. \A p \in DOMAIN ns : NodeSound(after, p)
  BY <1>1, <1>3, <1>4 DEF NodeSound
<1>6. ObjectsSound(os, after)
  BY <1>1, <1>3, ObjectsStay
<1> QED
  BY <1>3, <1>4, <1>5, <1>6, SoundParts DEF SameKids

LEMMA EnumRenamed ==
  ASSUME NEW os, NEW ns, Sound(os, ns), NEW e \in Enums, NEW name \in Labels \cup {BadName},
         NEW res, res = PatchedEnum(os, ns, e, name), res # Refused
  PROVE  Sound(res.objects, res.nodes)
<1>1. /\ <<e>> \in DOMAIN ns /\ name \in Labels
      /\ res.objects = os /\ res.nodes = [ns EXCEPT ![<<e>>].label = name]
     
  BY DEF PatchedEnum, Done, ValidName
<1>2. NewLabel(ns, <<e>>, name, res.nodes)
  BY <1>1 DEF NewLabel
<1>3. Sound(os, res.nodes)
  BY <1>2, Relabelled, Zenon
<1> QED
  BY <1>1, <1>3

\* A tree without the node at path, all below it, and its parent's mention of it.
Cut(ns, path, after) ==
  /\ DOMAIN after = DOMAIN ns \ Below(ns, path)
  /\ \A p \in DOMAIN after :
       /\ after[p] \in [label : Labels, kids : Seq(NodeIds)]
       /\ IsInjective(after[p].kids)
       /\ Range(after[p].kids) = Range(ns[p].kids) \ {id \in NodeIds : Append(p, id) = path}

LEMMA CutSound ==
  ASSUME NEW os, NEW ns, Sound(os, ns), NEW path \in DOMAIN ns, NEW detach,
         NEW kept, kept = MembersCheck(os, path, detach), kept # Refused,
         NEW after, Cut(ns, path, after)
  PROVE  Sound(kept, after)
<1>1. ObjectsSound(os, ns) /\ \A p \in DOMAIN ns : NodeSound(ns, p)
  BY SoundParts
<1>2. path \in Path /\ path # <<>>
  BY <1>1 DEF NodeSound
<1>3. \A p \in DOMAIN ns : p \in DOMAIN after <=> ~IsPrefix(path, p)
  BY DEF Below, Cut
<1>4. ObjectsSound(kept, after)
  BY <1>2, <1>3, MembersGone DEF ObjectsSound, HasPath
<1>5. ASSUME NEW p \in DOMAIN after PROVE NodeSound(after, p)
  <2>1. p \in DOMAIN ns /\ NodeSound(ns, p) /\ ~IsPrefix(path, p) /\ p \in Path /\ Len(p) > 0
    BY <1>1, <1>3 DEF NodeSound, Path, Cut
  <2>4. \A q \in DOMAIN after :
          /\ after[q] \in [label : Labels, kids : Seq(NodeIds)]
          /\ IsInjective(after[q].kids)
          /\ Range(after[q].kids) = Range(ns[q].kids) \ {id \in NodeIds : Append(q, id) = path}
    BY DEF Cut
  <2>2. ASSUME NEW id \in Range(after[p].kids) PROVE Append(p, id) \in DOMAIN after
    <3>1. id \in NodeIds
      BY <2>2, <2>4 DEF Range
    <3>2. Append(p, id) \in DOMAIN ns /\ Append(p, id) # path
      BY <2>1, <2>2, <2>4, <3>1 DEF NodeSound
    <3>3. ~IsPrefix(path, Append(p, id))
      BY <1>2, <2>1, <3>1, <3>2, BelowAppend DEF Path
    <3> QED
      BY <1>3, <3>2, <3>3
  <2>3. ASSUME Len(p) > 1
        PROVE  Parent(p) \in DOMAIN after /\ Last(p) \in Range(after[Parent(p)].kids)
    <3>1. Parent(p) \in DOMAIN ns /\ Last(p) \in Range(ns[Parent(p)].kids)
      BY <2>1, <2>3 DEF NodeSound
    <3>2. ~IsPrefix(path, Parent(p))
      BY <1>2, <2>1, BelowParent DEF Path
    <3>3. Parent(p) \in DOMAIN after
      BY <1>3, <3>1, <3>2
    <3>4. Append(Parent(p), Last(p)) = p
      BY <2>1, PathSplit DEF Path
    <3>5. p # path
      BY <1>2, <2>1, BelowParent DEF Path
    <3> QED
      BY <2>4, <3>1, <3>3, <3>4, <3>5
  <2> QED
    BY <2>1, <2>2, <2>3, <2>4 DEF NodeSound
<1> QED
  BY <1>4, <1>5, SoundParts

LEMMA EnumGone ==
  ASSUME NEW os, NEW ns, Sound(os, ns), NEW e \in Enums, NEW detach,
         NEW res, res = DeletedEnum(os, ns, e, detach), res # Refused
  PROVE  Sound(res.objects, res.nodes)
<1>1. PICK kept : kept = MembersCheck(os, <<e>>, detach)
  OBVIOUS
<1>2. /\ <<e>> \in DOMAIN ns /\ kept # Refused
      /\ res.objects = kept /\ res.nodes = Restrict(ns, DOMAIN ns \ Below(ns, <<e>>))
     
  BY <1>1 DEF DeletedEnum, Done
<1>3. PICK after : after = res.nodes
  OBVIOUS
<1>4. DOMAIN after = DOMAIN ns \ Below(ns, <<e>>)
      /\ \A p \in DOMAIN after : after[p] = ns[p]
  BY <1>2, <1>3 DEF Restrict
<1>5. ASSUME NEW p \in DOMAIN after
      PROVE  /\ after[p] \in [label : Labels, kids : Seq(NodeIds)]
             /\ IsInjective(after[p].kids)
             /\ Range(after[p].kids) = Range(ns[p].kids) \ {id \in NodeIds : Append(p, id) = <<e>>}
  <2>1. NodeSound(ns, p) /\ after[p] = ns[p]
    BY <1>4, SoundParts
  <2>2. \A id \in NodeIds : Append(p, id) # <<e>>
    BY <2>1, NoRootBelow DEF NodeSound
  <2> QED
    BY <2>1, <2>2 DEF NodeSound
<1>6. Sound(kept, after)
  <2>1. Cut(ns, <<e>>, after)
    BY <1>4, <1>5, Zenon DEF Cut
  <2> QED
    BY <1>1, <1>2, <2>1, CutSound, Zenon
<1> QED
  BY <1>2, <1>3, <1>6

\* Where a node is among its siblings.
LEMMA IndexFound ==
  ASSUME NEW ns, NEW path \in DOMAIN ns, \A p \in DOMAIN ns : NodeSound(ns, p), Len(path) > 1
  PROVE  /\ Parent(path) \in DOMAIN ns /\ Last(path) \in NodeIds
         /\ Append(Parent(path), Last(path)) = path
         /\ Parent(path) \in Path /\ Parent(path) # <<>>
         /\ IndexOf(ns, path) \in DOMAIN ns[Parent(path)].kids
         /\ ns[Parent(path)].kids[IndexOf(ns, path)] = Last(path)
         /\ IndexOf(ns, path) \in Nat \ {0}
<1>1. NodeSound(ns, path) /\ Parent(path) \in DOMAIN ns
      /\ Last(path) \in Range(ns[Parent(path)].kids)
  BY DEF NodeSound
<1>2. NodeSound(ns, Parent(path))
  BY <1>1
<1>3. \E i \in DOMAIN ns[Parent(path)].kids : ns[Parent(path)].kids[i] = Last(path)
  BY <1>1 DEF Range
<1>4. /\ IndexOf(ns, path) \in DOMAIN ns[Parent(path)].kids
      /\ ns[Parent(path)].kids[IndexOf(ns, path)] = Last(path)
  BY <1>3 DEF IndexOf
<1>5. PICK kids \in Seq(NodeIds) : kids = ns[Parent(path)].kids
  BY <1>2 DEF NodeSound
<1>6. Last(path) \in NodeIds /\ IndexOf(ns, path) \in Nat \ {0}
  BY <1>4, <1>5
<1>7. Append(Parent(path), Last(path)) = path
  <2>1. path \in Seq(Enums \cup NodeIds) /\ Len(path) > 0
    BY <1>1 DEF NodeSound, Path
  <2> QED
    BY <2>1, PathSplit
<1> QED
  BY <1>1, <1>2, <1>4, <1>6, <1>7 DEF NodeSound

LEMMA NodeGone ==
  ASSUME NEW os, NEW ns, Sound(os, ns), NEW path \in DOMAIN ns, NEW detach,
         NEW res, res = DeletedNode(os, ns, path, detach), res # Refused
  PROVE  Sound(res.objects, res.nodes)
<1>1. PICK kept, owner, i, less : /\ kept = MembersCheck(os, path, detach)
                                  /\ owner = Parent(path) /\ i = IndexOf(ns, path)
                                  /\ less = RemoveAt(ns[owner].kids, i)
  OBVIOUS
<1>2. /\ Len(path) > 1 /\ kept # Refused
      /\ res.objects = kept
      /\ res.nodes = Restrict([ns EXCEPT ![owner].kids = less], DOMAIN ns \ Below(ns, path))
     
  BY <1>1 DEF DeletedNode, Done, HasPath
<1>3. \A p \in DOMAIN ns : NodeSound(ns, p)
  BY SoundParts
<1>4. /\ owner \in DOMAIN ns /\ Last(path) \in NodeIds /\ Append(owner, Last(path)) = path
      /\ i \in DOMAIN ns[owner].kids /\ ns[owner].kids[i] = Last(path)
      /\ owner \in Path
  BY <1>1, <1>2, <1>3, IndexFound
<1>5. PICK after : after = res.nodes
  OBVIOUS
<1>6. DOMAIN after = DOMAIN ns \ Below(ns, path)
      /\ \A p \in DOMAIN after :
           after[p] = IF p = owner THEN [ns[owner] EXCEPT !.kids = less] ELSE ns[p]
  BY <1>2, <1>4, <1>5 DEF Restrict
<1>7. /\ less \in Seq(NodeIds) /\ IsInjective(less)
      /\ Range(less) = Range(ns[owner].kids) \ {Last(path)}
  <2>1. ns[owner].kids \in Seq(NodeIds) /\ IsInjective(ns[owner].kids)
    BY <1>3, <1>4 DEF NodeSound
  <2> QED
    BY <1>1, <1>4, <2>1, RemoveProperties
<1>8. ASSUME NEW p \in DOMAIN after
      PROVE  /\ after[p] \in [label : Labels, kids : Seq(NodeIds)]
             /\ IsInjective(after[p].kids)
             /\ Range(after[p].kids) = Range(ns[p].kids) \ {id \in NodeIds : Append(p, id) = path}
  <2>1. p \in DOMAIN ns /\ NodeSound(ns, p) /\ p \in Path
    BY <1>3, <1>6 DEF NodeSound
  <2>2. \A id \in NodeIds : Append(p, id) = path <=> p = owner /\ id = Last(path)
    BY SMTT(30), <1>1, <1>4, <2>1, AppendSplit DEF Path
  <2>3. CASE p = owner
    <3>1. after[p] = [ns[owner] EXCEPT !.kids = less] /\ NodeSound(ns, owner)
      BY <1>6, <2>1, <2>3
    <3>2. after[p] \in [label : Labels, kids : Seq(NodeIds)] /\ after[p].kids = less
      BY <1>7, <3>1 DEF NodeSound
    <3> QED
      BY <1>4, <1>7, <2>2, <2>3, <3>2
  <2>4. CASE p # owner
    <3>1. after[p] = ns[p] /\ {id \in NodeIds : Append(p, id) = path} = {}
      BY <1>6, <2>2, <2>4
    <3> QED
      BY <2>1, <3>1 DEF NodeSound
  <2> QED
    BY <2>3, <2>4
<1>9. Sound(kept, after)
  <2>1. Cut(ns, path, after)
    BY <1>6, <1>8, Zenon DEF Cut
  <2> QED
    BY <1>1, <1>2, <2>1, CutSound, Zenon
<1> QED
  BY <1>2, <1>5, <1>9

\* A tree whose lists of children change: after has the nodes of ns.
SameNodes(ns, after) ==
  /\ DOMAIN after = DOMAIN ns
  /\ \A p \in DOMAIN ns :
       /\ after[p] \in [label : Labels, kids : Seq(NodeIds)]
       /\ IsInjective(after[p].kids)

\* Only the children of the node at path are others.
NewKids(ns, path, kids, after) ==
  /\ SameNodes(ns, after)
  /\ after[path].kids = kids
  /\ \A p \in DOMAIN ns : p # path => after[p].kids = ns[p].kids

\* The nodes of ns have their types and lists without repetition.
Listed(ns) ==
  \A p \in DOMAIN ns : ns[p] \in [label : Labels, kids : Seq(NodeIds)]
                        /\ IsInjective(ns[p].kids)

LEMMA KidsReplaced ==
  ASSUME NEW ns, Listed(ns), NEW path \in DOMAIN ns, NEW kids \in Seq(NodeIds),
         IsInjective(kids), NEW after, after = [ns EXCEPT ![path].kids = kids]
  PROVE  NewKids(ns, path, kids, after)
<1>1. \A p \in DOMAIN ns : ns[p] \in [label : Labels, kids : Seq(NodeIds)]
                           /\ IsInjective(ns[p].kids)
  BY DEF Listed
<1>2. DOMAIN after = DOMAIN ns
  OBVIOUS
<1>3. ASSUME NEW p \in DOMAIN ns
      PROVE  /\ after[p] \in [label : Labels, kids : Seq(NodeIds)]
             /\ IsInjective(after[p].kids)
             /\ after[p].kids = IF p = path THEN kids ELSE ns[p].kids
  <2>1. after[p] = IF p = path THEN [ns[p] EXCEPT !.kids = kids] ELSE ns[p]
    OBVIOUS
  <2>2. after[p] \in [label : Labels, kids : Seq(NodeIds)]
        /\ after[p].kids = IF p = path THEN kids ELSE ns[p].kids
    BY <1>1, <2>1
  <2> QED
    BY <1>1, <2>2
<1> QED
  BY <1>2, <1>3 DEF SameNodes, NewKids

LEMMA NodeMade ==
  ASSUME NEW os, NEW ns, Sound(os, ns), NEW e, NEW parent \in DOMAIN ns, NEW id \in NodeIds,
         NEW name \in Labels \cup {BadName}, NEW at, at = Absent \/ at \in Nat,
         NEW res, res = CreatedNode(os, ns, e, parent, id, name, at), res # Refused
  PROVE  Sound(res.objects, res.nodes)
<1>1. PICK path, more, wide, new :
        /\ path = Append(parent, id)
        /\ more = Inserted(ns[parent].kids, id, at)
        /\ wide = [ns EXCEPT ![parent].kids = more]
        /\ new = [label |-> name, kids |-> <<>>]
  OBVIOUS
<1>2. /\ name \in Labels /\ Len(parent) <= MaxDepth /\ id \notin Range(ns[parent].kids)
      /\ res.objects = os /\ res.nodes = With(wide, path, new)
     
  <2>1. /\ name \in Labels /\ ~(Len(parent) > MaxDepth) /\ id \notin Range(ns[parent].kids)
        /\ res.objects = os /\ res.nodes = With(wide, path, new)
       
    BY <1>1 DEF CreatedNode, Done, ValidName
  <2>2. Len(parent) \in Nat /\ MaxDepth \in Nat
    BY SoundParts, MetaAssumption DEF NodeSound, Path
  <2> QED
    BY <2>1, <2>2
<1>3. ObjectsSound(os, ns) /\ \A p \in DOMAIN ns : NodeSound(ns, p)
  BY SoundParts
<1>4. /\ more \in Seq(NodeIds) /\ IsInjective(more)
      /\ Range(more) = Range(ns[parent].kids) \cup {id}
  <2>1. ns[parent].kids \in Seq(NodeIds) /\ IsInjective(ns[parent].kids)
    BY <1>3 DEF NodeSound
  <2> QED
    BY <1>1, <1>2, <2>1, InsertProperties
<1>5. /\ SameNodes(ns, wide) /\ wide[parent].kids = more
      /\ \A p \in DOMAIN ns : p # parent => wide[p].kids = ns[p].kids
  <2>1. Listed(ns)
    BY <1>3 DEF Listed, NodeSound
  <2>2. NewKids(ns, parent, more, wide)
    BY <1>1, <1>4, <2>1, KidsReplaced, Zenon
  <2> QED
    BY <2>2 DEF NewKids
<1>6. /\ parent \in Path /\ Len(parent) \in Nat /\ Len(parent) > 0
      /\ path \in Path /\ Len(path) = Len(parent) + 1
      /\ Parent(path) = parent /\ Last(path) = id
  <2>1. parent \in Path /\ Len(parent) \in Nat /\ Len(parent) > 0
    BY <1>3 DEF NodeSound, Path
  <2> QED
    BY <1>1, <2>1, AppendSplit DEF Path
<1>7. path \notin DOMAIN ns
  <2>1. Len(path) > 1
    BY <1>6
  <2> QED
    BY <1>2, <1>3, <1>6, <2>1 DEF NodeSound
<1>8. PICK after : after = res.nodes
  OBVIOUS
<1>9. /\ DOMAIN after = {path} \cup DOMAIN ns /\ after[path] = new
      /\ \A p \in DOMAIN ns : after[p] = wide[p]
  BY <1>2, <1>5, <1>7, <1>8 DEF With, SameNodes
<1>10. NodeSound(after, path)
  <2>1. IsInjective(<<>>) /\ Range(<<>>) = {} /\ <<>> \in Seq(NodeIds)
    BY DEF IsInjective, Range
  <2>2. new \in [label : Labels, kids : Seq(NodeIds)] /\ new.kids = <<>>
    BY <1>1, <1>2
  <2>3. Parent(path) \in DOMAIN after /\ Last(path) \in Range(after[Parent(path)].kids)
    BY <1>4, <1>5, <1>6, <1>9
  <2>4. Len(path) - 1 <= MaxDepth /\ path # <<>>
    BY <1>2, <1>6
  <2> QED
    BY <1>6, <1>9, <2>1, <2>2, <2>3, <2>4 DEF NodeSound
<1>11. ASSUME NEW p \in DOMAIN ns PROVE NodeSound(after, p)
  <2>1. NodeSound(ns, p) /\ after[p] \in [label : Labels, kids : Seq(NodeIds)]
        /\ IsInjective(after[p].kids)
    BY <1>3, <1>5, <1>9 DEF SameNodes
  <2>2. ASSUME NEW q \in DOMAIN ns
        PROVE  Range(after[q].kids) = Range(ns[q].kids) \cup (IF q = parent THEN {id} ELSE {})
    <3>1. CASE q = parent
      BY <1>4, <1>5, <1>9, <3>1
    <3>2. CASE q # parent
      BY <1>5, <1>9, <3>2
    <3> QED
      BY <3>1, <3>2
  <2>3. \A k \in Range(after[p].kids) : Append(p, k) \in DOMAIN after
    <3> SUFFICES ASSUME NEW k \in Range(after[p].kids) PROVE Append(p, k) \in DOMAIN after
      OBVIOUS
    <3>1. CASE k \in Range(ns[p].kids)
      BY <1>9, <2>1, <3>1 DEF NodeSound
    <3>2. CASE k \notin Range(ns[p].kids)
      <4>1. Range(after[p].kids) = Range(ns[p].kids) \cup (IF p = parent THEN {id} ELSE {})
        BY <2>2
      <4>2. p = parent /\ k = id
        BY <3>2, <4>1
      <4> QED
        BY <1>1, <1>9, <4>2
    <3> QED
      BY <3>1, <3>2
  <2>4. Len(p) > 1 => Parent(p) \in DOMAIN after /\ Last(p) \in Range(after[Parent(p)].kids)
    BY <1>9, <2>1, <2>2 DEF NodeSound
  <2> QED
    BY <2>1, <2>3, <2>4 DEF NodeSound
<1>12. ObjectsSound(os, after)
  BY <1>3, <1>9, ObjectsStay
<1> QED
  BY <1>2, <1>8, <1>9, <1>10, <1>11, <1>12, SoundParts

\* No node is deeper than the depth of the subtree says.
LEMMA DepthCounts ==
  ASSUME NEW os, NEW ns, Sound(os, ns), NEW path \in DOMAIN ns, NEW q \in Below(ns, path)
  PROVE  Len(q) - Len(path) + 1 <= SubtreeDepth(ns, path)
<1> DEFINE lengths == {Len(p) - Len(path) + 1 : p \in Below(ns, path)}
<1>1. \A p \in DOMAIN ns : /\ p \in Path /\ Len(p) \in Nat /\ Len(p) - 1 <= MaxDepth
                           /\ Len(p) > 0
  BY SoundParts DEF NodeSound, Path
<1>2. ASSUME NEW p \in Below(ns, path)
      PROVE  /\ Len(p) - Len(path) + 1 \in Nat
             /\ Len(p) - Len(path) + 1 <= MaxDepth + 1
  <2>1. Len(path) <= Len(p) /\ p \in DOMAIN ns
    BY <1>1, PrefixIndex DEF Below, Path
  <2> QED
    BY <1>1, <2>1, MetaAssumption
<1>3. lengths \in SUBSET Nat /\ lengths # {} /\ \A x \in lengths : x <= MaxDepth + 1
  BY <1>2
<1>4. MaxDepth + 1 \in Nat
  BY MetaAssumption
<1>5. \E m \in lengths : \A x \in lengths : x <= m
  <2> HIDE DEF lengths
  <2> QED
    BY <1>3, <1>4, Greatest
<1>6. \A x \in lengths : x <= SubtreeDepth(ns, path)
  BY <1>5 DEF SubtreeDepth
<1> QED
  BY <1>6

\* The trees after the lists of children have been brought up to date for a
\* move of the node at path, to become the child id of the node at to.
Placed(ns, path, to, id, placed) ==
  /\ SameNodes(ns, placed)
  /\ \A p \in DOMAIN ns :
       Range(placed[p].kids) = IF p = Parent(path) THEN Range(ns[p].kids) \ {id}
                               ELSE IF p = to THEN Range(ns[p].kids) \cup {id}
                               ELSE Range(ns[p].kids)

\* What patchNode tests before a move.
MayMove(ns, path, to, id) ==
  /\ path \in DOMAIN ns /\ Len(path) > 1 /\ id = Last(path)
  /\ to \in DOMAIN ns /\ to # Parent(path)
  /\ ~IsPrefix(path, Append(to, id))
  /\ ~TooDeep(ns, path, to)
  /\ id \notin Range(ns[to].kids)

\* Every node ends up under a name of its own.
Apart(ns, from, to) ==
  \A p, q \in DOMAIN ns : Renamed(p, from, to) = Renamed(q, from, to) => p = q

\* The name target that the moved node gets.
NewName(ns, path, to, id, target) ==
  /\ target \in Path /\ Len(target) = Len(to) + 1 /\ Parent(target) = to
  /\ Last(target) = id
  /\ Apart(ns, path, target)

LEMMA MovedApart ==
  ASSUME NEW os, NEW ns, Sound(os, ns), NEW path, NEW to, NEW id, MayMove(ns, path, to, id),
         NEW target, target = Append(to, id)
  PROVE  NewName(ns, path, to, id, target)
<1>1. \A p \in DOMAIN ns : NodeSound(ns, p)
  BY SoundParts
<1>2. path \in Path /\ to \in Path /\ Last(path) \in NodeIds
  <2>1. path \in DOMAIN ns /\ to \in DOMAIN ns /\ Len(path) > 1
    BY DEF MayMove
  <2>2. NodeSound(ns, path) /\ NodeSound(ns, to)
    BY <1>1, <2>1
  <2>3. Last(path) \in NodeIds
    BY <1>1, <2>1, IndexFound
  <2> QED
    BY <2>2, <2>3 DEF NodeSound
<1>3. target \in Path /\ Len(target) = Len(to) + 1 /\ Parent(target) = to /\ Last(target) = id
  BY <1>2, AppendSplit DEF Path, MayMove
<1>4. Len(target) > 1 /\ target # <<>>
  <2>1. Len(to) > 0 /\ Len(to) \in Nat
    BY <1>1 DEF NodeSound, MayMove, Path
  <2>2. Len(target) > 1
    BY <1>3, <2>1
  <2> QED
    BY <2>2
<1>5. target \notin DOMAIN ns
  BY <1>1, <1>3, <1>4 DEF MayMove, NodeSound
<1>6. \A q \in DOMAIN ns : ~IsPrefix(target, q)
  BY <1>3, <1>4, <1>5, AncestorsThere
<1>7. ASSUME NEW p \in DOMAIN ns, NEW q \in DOMAIN ns,
             Renamed(p, path, target) = Renamed(q, path, target)
      PROVE  p = q
  <2>1. p \in Path /\ q \in Path
    BY <1>1 DEF NodeSound
  <2>2. IsPrefix(path, p) => IsPrefix(target, Renamed(p, path, target))
    BY <1>2, <1>3, <2>1, RenamedBelow DEF Path
  <2>3. IsPrefix(path, q) => IsPrefix(target, Renamed(q, path, target))
    BY <1>2, <1>3, <2>1, RenamedBelow DEF Path
  <2>4. CASE IsPrefix(path, p) /\ IsPrefix(path, q)
    BY <1>2, <1>3, <1>7, <2>1, <2>4, RenamedInjective DEF Path
  <2>5. CASE ~IsPrefix(path, p)
    <3>1. Renamed(p, path, target) = p
      BY <2>5 DEF Renamed
    <3>2. ~IsPrefix(path, q)
      BY <1>6, <1>7, <2>3, <3>1
    <3> QED
      BY <1>7, <3>1, <3>2 DEF Renamed
  <2>6. CASE ~IsPrefix(path, q)
    <3>1. Renamed(q, path, target) = q
      BY <2>6 DEF Renamed
    <3>2. ~IsPrefix(path, p)
      BY <1>6, <1>7, <2>2, <3>1
    <3> QED
      BY <1>7, <3>1, <3>2 DEF Renamed
  <2> QED
    BY <2>4, <2>5, <2>6
<1> QED
  BY <1>3, <1>7 DEF Apart, NewName

Relocated(ns, from, to, after) ==
  /\ DOMAIN after = {Renamed(p, from, to) : p \in DOMAIN ns}
  /\ \A p \in DOMAIN ns : after[Renamed(p, from, to)] = ns[p]

LEMMA RelocateValues ==
  ASSUME NEW ns, NEW from, NEW to, Apart(ns, from, to),
         NEW after, after = Relocate(ns, from, to)
  PROVE  Relocated(ns, from, to, after)
<1>1. DOMAIN after = {Renamed(p, from, to) : p \in DOMAIN ns}
  BY DEF Relocate
<1>2. ASSUME NEW p \in DOMAIN ns PROVE after[Renamed(p, from, to)] = ns[p]
  <2>1. PICK q : q = Renamed(p, from, to)
    OBVIOUS
  <2>2. q \in DOMAIN after
    BY <1>1, <2>1
  <2>3. after[q] = ns[CHOOSE x \in DOMAIN ns : Renamed(x, from, to) = q]
    BY <2>1 DEF Relocate
  <2>4. (CHOOSE x \in DOMAIN ns : Renamed(x, from, to) = q) = p
    BY <2>1 DEF Apart
  <2> QED
    BY <2>1, <2>3, <2>4
<1> QED
  BY <1>1, <1>2 DEF Relocated

\* What becomes of a node in a move.
LEMMA MovedNode ==
  ASSUME NEW os, NEW ns, Sound(os, ns), NEW path, NEW to, NEW id, MayMove(ns, path, to, id),
         NEW target, target = Append(to, id), NEW placed, Placed(ns, path, to, id, placed),
         NEW after, after = Relocate(placed, path, target), NEW p \in DOMAIN ns
  PROVE  /\ Renamed(p, path, target) \in DOMAIN after
         /\ NodeSound(after, Renamed(p, path, target))
         /\ Len(p) > 1 => Len(Renamed(p, path, target)) > 1
<1> DEFINE ren(q) == Renamed(q, path, target)
           owner == Parent(path)
<1>1. \A q \in DOMAIN ns : NodeSound(ns, q) /\ q \in Path /\ Len(q) \in Nat /\ Len(q) > 0
  BY SoundParts DEF NodeSound, Path
<1>2. /\ path \in DOMAIN ns /\ to \in DOMAIN ns /\ to # owner /\ Len(path) > 1
      /\ ~IsPrefix(path, target) /\ ~TooDeep(ns, path, to)
  BY DEF MayMove
<1>3. /\ owner \in DOMAIN ns /\ id \in NodeIds /\ Append(owner, id) = path
  BY <1>1, <1>2, IndexFound DEF MayMove
<1>4. /\ target \in Path /\ Len(target) = Len(to) + 1 /\ Parent(target) = to
      /\ Last(target) = id
      /\ Apart(ns, path, target)
  <2>1. NewName(ns, path, to, id, target)
    BY MovedApart, Zenon
  <2> QED
    BY <2>1 DEF NewName
<1>5. DOMAIN placed = DOMAIN ns
  BY DEF Placed, SameNodes
<1>6. /\ DOMAIN after = {ren(q) : q \in DOMAIN ns}
      /\ \A q \in DOMAIN ns : after[ren(q)] = placed[q]
  <2>1. Apart(placed, path, target)
    BY <1>4, <1>5 DEF Apart
  <2>2. Relocated(placed, path, target, after)
    BY <2>1, RelocateValues, Zenon
  <2> QED
    BY <1>5, <2>2 DEF Relocated
<1>7. /\ \A q \in DOMAIN ns : /\ placed[q] \in [label : Labels, kids : Seq(NodeIds)]
                              /\ IsInjective(placed[q].kids)
      /\ \A q \in DOMAIN ns :
           Range(placed[q].kids) = IF q = owner THEN Range(ns[q].kids) \ {id}
                                   ELSE IF q = to THEN Range(ns[q].kids) \cup {id}
                                   ELSE Range(ns[q].kids)
  BY DEF Placed, SameNodes
<1>8. ~IsPrefix(path, to) /\ to # path
  <2>1. IsPrefix(path, target) <=> path = target \/ IsPrefix(path, to)
    BY <1>1, <1>2, <1>3, BelowAppend DEF Path
  <2>2. IsPrefix(path, path)
    BY <1>1, <1>2, RenamedSelf DEF Path
  <2> QED
    BY <1>2, <2>1, <2>2
<1>9. ren(path) = target /\ IsPrefix(path, path)
  BY <1>1, <1>2, <1>4, RenamedSelf DEF Path
<1>10. \A q : ~IsPrefix(path, q) => ren(q) = q
  BY DEF Renamed
<1>11. ASSUME IsPrefix(path, p)
       PROVE  /\ ren(p) \in Path /\ Len(ren(p)) = Len(target) + (Len(p) - Len(path))
              /\ Len(path) <= Len(p)
  <2>1. IsRenamed(Enums \cup NodeIds, p, path, target, ren(p))
    BY <1>1, <1>2, <1>4, <1>11, RenamedProperties DEF Path
  <2>2. Len(path) <= Len(p)
    BY <1>1, <1>2, <1>11, PrefixIndex DEF Path
  <2> QED
    BY <2>1, <2>2 DEF IsRenamed, Path
<1> HIDE DEF ren
<1>12. /\ ren(p) \in Path \ {<<>>} /\ Len(ren(p)) - 1 <= MaxDepth
       /\ Len(p) > 1 => Len(ren(p)) > 1
  <2>1. CASE ~IsPrefix(path, p)
    <3>1. ren(p) = p /\ NodeSound(ns, p)
      BY <1>1, <1>10, <2>1
    <3> QED
      BY <3>1 DEF NodeSound
  <2>2. CASE IsPrefix(path, p)
    <3>1. Len(p) - Len(path) + 1 <= SubtreeDepth(ns, path)
      BY <1>2, <2>2, DepthCounts DEF Below
    <3>2. PICK d : d = SubtreeDepth(ns, path)
      OBVIOUS
    <3>3. ~(Len(to) - 1 + d > MaxDepth)
      BY <1>2, <3>2 DEF TooDeep
    <3>4. d \in Int
      <4> DEFINE lengths == {Len(q) - Len(path) + 1 : q \in Below(ns, path)}
      <4>1. \E m \in lengths : \A x \in lengths : x <= m
        <5>1. \A q \in Below(ns, path) : Len(q) - Len(path) + 1 \in Nat
                                         /\ Len(q) - Len(path) + 1 <= MaxDepth + 1
          <6> SUFFICES ASSUME NEW q \in Below(ns, path)
                       PROVE  Len(q) - Len(path) + 1 \in Nat
                              /\ Len(q) - Len(path) + 1 <= MaxDepth + 1
            OBVIOUS
          <6>1. q \in DOMAIN ns /\ Len(path) <= Len(q) /\ Len(q) - 1 <= MaxDepth
            BY <1>1, <1>2, PrefixIndex DEF Below, Path, NodeSound
          <6> QED
            BY <1>1, <1>2, <6>1, MetaAssumption
        <5>2. lengths \in SUBSET Nat /\ lengths # {} /\ \A x \in lengths : x <= MaxDepth + 1
          BY <1>2, <1>9, <5>1 DEF Below
        <5>3. MaxDepth + 1 \in Nat
          BY MetaAssumption
        <5> HIDE DEF lengths
        <5> QED
          BY <5>2, <5>3, Greatest
      <4>2. d \in lengths /\ \A q \in lengths : q \in Int
        BY <1>1, <1>2, <3>2, <4>1 DEF SubtreeDepth, Below
      <4> QED
        BY <4>2
    <3>5. Len(ren(p)) - 1 <= MaxDepth /\ Len(ren(p)) > 1
      BY <1>1, <1>2, <1>4, <1>11, <2>2, <3>1, <3>2, <3>3, <3>4, MetaAssumption
    <3> QED
      BY <1>11, <2>2, <3>5
  <2> QED
    BY <2>1, <2>2
<1>13. ASSUME NEW k \in Range(placed[p].kids)
       PROVE  Append(ren(p), k) \in DOMAIN after
  <2>1. k \in NodeIds
    BY <1>7, <1>13 DEF Range
  <2>2. CASE p = to /\ k = id
    <3>1. ren(p) = p
      BY <1>8, <1>10, <2>2
    <3> QED
      BY <1>2, <1>6, <1>9, <2>2, <3>1
  <2>3. CASE ~(p = to /\ k = id)
    <3>1. k \in Range(ns[p].kids) /\ ~(p = owner /\ k = id)
      BY <1>7, <2>3
    <3>2. Append(p, k) \in DOMAIN ns
      BY <1>1, <3>1 DEF NodeSound
    <3>3. Append(p, k) # path
      <4>1. Parent(Append(p, k)) = p /\ Last(Append(p, k)) = k
        BY <1>1, <2>1, AppendSplit DEF Path
      <4> QED
        BY <3>1, <4>1 DEF MayMove
    <3>4. Append(ren(p), k) = ren(Append(p, k))
      <4>1. CASE IsPrefix(path, p)
        <5>1. /\ p \in Seq(Enums \cup NodeIds) /\ path \in Seq(Enums \cup NodeIds)
              /\ target \in Seq(Enums \cup NodeIds)
          BY <1>1, <1>2, <1>4 DEF Path
        <5>3. k \in Enums \cup NodeIds
          BY <2>1
        <5>2. RenamedGrows(p, path, target, k)
          BY <4>1, <5>1, <5>3, RenamedAppend, Zenon
        <5> QED
          BY <5>2 DEF ren, RenamedGrows
      <4>2. CASE ~IsPrefix(path, p)
        <5>1. ~IsPrefix(path, Append(p, k))
          BY <1>1, <1>2, <2>1, <3>3, <4>2, BelowAppend DEF Path
        <5> QED
          BY <1>10, <4>2, <5>1
      <4> QED
        BY <4>1, <4>2
    <3> QED
      BY <1>6, <3>2, <3>4
  <2> QED
    BY <2>2, <2>3
<1>14. ASSUME Len(ren(p)) > 1
       PROVE  Parent(ren(p)) \in DOMAIN after /\ Last(ren(p)) \in Range(after[Parent(ren(p))].kids)
  <2>1. CASE p = path
    <3>1. Parent(ren(p)) = to /\ Last(ren(p)) = id /\ ren(to) = to
      BY <1>4, <1>8, <1>9, <1>10, <2>1
    <3>2. id \in Range(placed[to].kids)
      BY <1>2, <1>7
    <3>3. after[to] = placed[to] /\ to \in DOMAIN after
      BY <1>2, <1>6, <3>1
    <3> QED
      BY <3>1, <3>2, <3>3
  <2>2. CASE p # path
    <3>1. Len(p) > 1
      <4>1. CASE ~IsPrefix(path, p)
        BY <1>10, <1>14, <4>1
      <4>2. CASE IsPrefix(path, p)
        BY <1>1, <1>2, <1>11, <4>2
      <4> QED
        BY <4>1, <4>2
    <3>2. Parent(p) \in DOMAIN ns /\ Last(p) \in Range(ns[Parent(p)].kids)
      BY <1>1, <3>1 DEF NodeSound
    <3>3. Append(Parent(p), Last(p)) = p /\ Last(p) \in NodeIds
      BY <1>1, <3>1, IndexFound
    <3>4. ~(Parent(p) = owner /\ Last(p) = id)
      BY <1>3, <2>2, <3>3
    <3>5. Last(p) \in Range(placed[Parent(p)].kids)
      BY <1>7, <3>2, <3>4
    <3>6. ren(p) = Append(ren(Parent(p)), Last(p)) /\ ren(Parent(p)) \in Path
      <4>1. CASE IsPrefix(path, p)
        <5>1. IsPrefix(path, Parent(p))
          BY <1>1, <1>2, <2>2, <4>1, BelowParent DEF Path
        <5>2. ren(Append(Parent(p), Last(p))) = Append(ren(Parent(p)), Last(p))
          <6>1. PICK q, k : q = Parent(p) /\ k = Last(p)
            OBVIOUS
          <6>2. /\ q \in Seq(Enums \cup NodeIds) /\ path \in Seq(Enums \cup NodeIds)
                /\ target \in Seq(Enums \cup NodeIds)
            BY <1>1, <1>2, <1>4, <3>2, <6>1 DEF Path
          <6>4. k \in Enums \cup NodeIds
            BY <3>3, <6>1
          <6>3. RenamedGrows(q, path, target, k)
            BY <5>1, <6>1, <6>2, <6>4, RenamedAppend, Zenon
          <6> QED
            BY <6>1, <6>3 DEF ren, RenamedGrows
        <5>3. IsRenamed(Enums \cup NodeIds, Parent(p), path, target, ren(Parent(p)))
          BY <1>1, <1>2, <1>4, <3>2, <5>1, RenamedProperties DEF Path, ren
        <5> QED
          BY <3>3, <5>2, <5>3 DEF IsRenamed, Path
      <4>2. CASE ~IsPrefix(path, p)
        <5>1. ~IsPrefix(path, Parent(p))
          BY <1>1, <1>2, <4>2, BelowParent DEF Path
        <5>2. ren(p) = p /\ ren(Parent(p)) = Parent(p)
          BY <1>10, <4>2, <5>1
        <5> QED
          BY <1>1, <3>2, <3>3, <5>2
      <4> QED
        BY <4>1, <4>2
    <3>7. Parent(ren(p)) = ren(Parent(p)) /\ Last(ren(p)) = Last(p)
      BY <3>3, <3>6, AppendSplit DEF Path
    <3> QED
      BY <1>6, <3>2, <3>5, <3>7
  <2> QED
    BY <2>1, <2>2
<1>15. after[ren(p)] = placed[p] /\ ren(p) \in DOMAIN after
  BY <1>6
<1>16. NodeSound(after, ren(p))
  BY <1>7, <1>12, <1>13, <1>14, <1>15 DEF NodeSound
<1> QED
  BY <1>12, <1>15, <1>16 DEF ren

LEMMA MovedSound ==
  ASSUME NEW os, NEW ns, Sound(os, ns), NEW path, NEW to, NEW id, MayMove(ns, path, to, id),
         NEW target, target = Append(to, id), NEW placed, Placed(ns, path, to, id, placed),
         NEW after, after = Relocate(placed, path, target)
  PROVE  Sound(RewritePaths(os, path, target), after)
<1>1. ObjectsSound(os, ns) /\ \A p \in DOMAIN ns : NodeSound(ns, p)
  BY SoundParts
<1>2. \A p \in DOMAIN ns : /\ Renamed(p, path, target) \in DOMAIN after
                           /\ NodeSound(after, Renamed(p, path, target))
                           /\ Len(p) > 1 => Len(Renamed(p, path, target)) > 1
  BY MovedNode, Zenon
<1>3. \A q \in DOMAIN after : \E p \in DOMAIN ns : q = Renamed(p, path, target)
  BY DEF Relocate, Placed, SameNodes
<1>4. \A q \in DOMAIN after : NodeSound(after, q)
  BY <1>2, <1>3
<1>5. \A p \in DOMAIN ns : Renamed(p, path, target) \in Path
  BY <1>2 DEF NodeSound
<1>6. PICK moved : moved = RewritePaths(os, path, target)
  OBVIOUS
<1>7. ASSUME NEW ref \in DOMAIN os
      PROVE  moved[ref] \in Object /\ \A p \in moved[ref].enums : HasPath(after, p)
  <2>1. PICK paths : paths = {Renamed(p, path, target) : p \in os[ref].enums}
    OBVIOUS
  <2>2. os[ref] \in Object /\ \A p \in os[ref].enums : p \in DOMAIN ns /\ Len(p) > 1
    BY <1>1 DEF ObjectsSound, HasPath
  <2>3. paths \in SUBSET Path /\ \A p \in paths : HasPath(after, p)
    BY <1>2, <1>5, <2>1, <2>2 DEF HasPath
  <2>4. moved[ref] = [os[ref] EXCEPT !.enums = paths]
    BY <1>6, <2>1 DEF RewritePaths
  <2>5. moved[ref] \in Object /\ moved[ref].enums = paths
    BY <2>2, <2>3, <2>4 DEF Object
  <2> QED
    BY <2>3, <2>5
<1>8. DOMAIN moved = DOMAIN os
  BY <1>6 DEF RewritePaths
<1>9. ObjectsSound(moved, after)
  BY <1>1, <1>7, <1>8 DEF ObjectsSound
<1> QED
  BY <1>4, <1>6, <1>9, SoundParts

\* A node that only gets another place among its siblings.
LEMMA ReplacedSound ==
  ASSUME NEW os, NEW ns, Sound(os, ns), NEW placed, SameNodes(ns, placed),
         \A p \in DOMAIN ns : Range(placed[p].kids) = Range(ns[p].kids)
  PROVE  Sound(os, placed)
<1>1. ObjectsSound(os, ns) /\ \A p \in DOMAIN ns : NodeSound(ns, p)
  BY SoundParts
<1>2. DOMAIN placed = DOMAIN ns
  BY DEF SameNodes
<1>3. ASSUME NEW p \in DOMAIN ns PROVE NodeSound(placed, p)
  <2>1. NodeSound(ns, p) /\ placed[p] \in [label : Labels, kids : Seq(NodeIds)]
        /\ IsInjective(placed[p].kids)
    BY <1>1 DEF SameNodes
  <2> QED
    BY <1>2, <2>1 DEF NodeSound
<1>4. ObjectsSound(os, placed)
  BY <1>1, <1>2, ObjectsStay
<1> QED
  BY <1>2, <1>3, <1>4, SoundParts


Placing(ns, path, owner, id, to, at, less, placed) ==
  /\ path \in DOMAIN ns /\ Len(path) > 1 /\ owner = Parent(path) /\ id = Last(path)
  /\ to \in DOMAIN ns
  /\ to # owner => id \notin Range(ns[to].kids)
  /\ at = Absent \/ at \in Nat
  /\ less = [ns EXCEPT ![owner].kids = RemoveAt(@, IndexOf(ns, path))]
  /\ placed = [less EXCEPT ![to].kids = Inserted(@, id, at)]

PlacedWell(ns, owner, id, to, placed) ==
  /\ SameNodes(ns, placed)
  /\ \A p \in DOMAIN ns :
       Range(placed[p].kids) = IF p = owner /\ owner # to THEN Range(ns[p].kids) \ {id}
                               ELSE IF p = to THEN Range(ns[p].kids) \cup {id}
                               ELSE Range(ns[p].kids)

\* The lists of children in a patch: the node leaves one and enters another, or
\* the same again.
LEMMA PlacedKids ==
  ASSUME NEW os, NEW ns, Sound(os, ns), NEW path, NEW owner, NEW id, NEW to, NEW at,
         NEW less, NEW placed, Placing(ns, path, owner, id, to, at, less, placed)
  PROVE  PlacedWell(ns, owner, id, to, placed)
<1>0. /\ path \in DOMAIN ns /\ Len(path) > 1 /\ owner = Parent(path) /\ id = Last(path)
      /\ to \in DOMAIN ns
      /\ to # owner => id \notin Range(ns[to].kids)
      /\ at = Absent \/ at \in Nat
      /\ less = [ns EXCEPT ![owner].kids = RemoveAt(@, IndexOf(ns, path))]
      /\ placed = [less EXCEPT ![to].kids = Inserted(@, id, at)]
  BY DEF Placing
<1>1. \A p \in DOMAIN ns : NodeSound(ns, p)
  BY SoundParts
<1>2. /\ owner \in DOMAIN ns /\ id \in NodeIds
      /\ IndexOf(ns, path) \in DOMAIN ns[owner].kids /\ ns[owner].kids[IndexOf(ns, path)] = id
      /\ id \in Range(ns[owner].kids)
  BY <1>0, <1>1, IndexFound DEF NodeSound
<1>3. PICK fewer : fewer = RemoveAt(ns[owner].kids, IndexOf(ns, path))
  OBVIOUS
<1>4. Listed(ns)
  BY <1>1 DEF Listed, NodeSound
<1>5. /\ fewer \in Seq(NodeIds) /\ IsInjective(fewer)
      /\ Range(fewer) = Range(ns[owner].kids) \ {id}
  <2>1. ns[owner].kids \in Seq(NodeIds) /\ IsInjective(ns[owner].kids)
    BY <1>1, <1>2 DEF NodeSound
  <2> QED
    BY <1>2, <1>3, <2>1, RemoveProperties
<1>6. less = [ns EXCEPT ![owner].kids = fewer]
  BY <1>0, <1>3
<1>7. NewKids(ns, owner, fewer, less)
  BY <1>2, <1>4, <1>5, <1>6, KidsReplaced, Zenon
<1>8. Listed(less) /\ DOMAIN less = DOMAIN ns
  BY <1>7 DEF NewKids, SameNodes, Listed
<1>9. PICK more : more = Inserted(less[to].kids, id, at)
  OBVIOUS
<1>10. less[to].kids \in Seq(NodeIds) /\ IsInjective(less[to].kids) /\ id \notin Range(less[to].kids)
  <2>1. less[to].kids = IF to = owner THEN fewer ELSE ns[to].kids
    BY <1>0, <1>7 DEF NewKids
  <2>2. less[to].kids \in Seq(NodeIds) /\ IsInjective(less[to].kids)
    BY <1>0, <1>8 DEF Listed
  <2> QED
    BY <1>0, <1>5, <2>1, <2>2
<1>11. /\ more \in Seq(NodeIds) /\ IsInjective(more)
       /\ Range(more) = Range(less[to].kids) \cup {id}
  BY <1>0, <1>2, <1>9, <1>10, InsertProperties
<1>12. placed = [less EXCEPT ![to].kids = more]
  BY <1>0, <1>9
<1>13. to \in DOMAIN less
  BY <1>0, <1>8
<1>14. NewKids(less, to, more, placed)
  BY <1>8, <1>11, <1>12, <1>13, KidsReplaced, Zenon
<1>15. SameNodes(ns, placed)
  BY <1>8, <1>14 DEF NewKids, SameNodes
<1>16. ASSUME NEW p \in DOMAIN ns
       PROVE  Range(placed[p].kids) = IF p = owner /\ owner # to THEN Range(ns[p].kids) \ {id}
                                      ELSE IF p = to THEN Range(ns[p].kids) \cup {id}
                                      ELSE Range(ns[p].kids)
  <2>1. /\ p # owner => less[p].kids = ns[p].kids
        /\ p # to => placed[p].kids = less[p].kids
        /\ less[owner].kids = fewer /\ placed[to].kids = more
    BY <1>0, <1>2, <1>7, <1>8, <1>14 DEF NewKids
  <2>2. CASE p = owner /\ owner # to
    BY <1>5, <2>1, <2>2
  <2>3. CASE p = to /\ owner # to
    BY <1>11, <2>1, <2>3
  <2>4. CASE p = to /\ owner = to
    BY <1>2, <1>5, <1>11, <2>1, <2>4
  <2>5. CASE p # owner /\ p # to
    BY <2>1, <2>5
  <2> QED
    BY <2>2, <2>3, <2>4, <2>5
<1> QED
  BY <1>15, <1>16 DEF PlacedWell

\* The steps of a patch of a node, by the names that patchNode gives them.
PatchSteps(os, ns, path, name, parent, at, res, id, to, target, label, named, less, spot, placed) ==
  /\ res = PatchedNode(os, ns, path, name, parent, at) /\ res # Refused
  /\ id = Last(path)
  /\ to = IF parent = Absent THEN Parent(path) ELSE parent
  /\ target = Append(to, id)
  /\ label = IF name = Absent THEN ns[path].label ELSE name
  /\ named = [ns EXCEPT ![path].label = label]
  /\ less = [named EXCEPT ![Parent(path)].kids = RemoveAt(@, IndexOf(ns, path))]
  /\ spot = IF at = Absent THEN IndexOf(ns, path) - 1 ELSE at
  /\ placed = [less EXCEPT ![to].kids = Inserted(@, id, spot)]

PatchTests(ns, path, name, id, to, target) ==
  /\ HasPath(ns, path) /\ (name # Absent => ValidName(name))
  /\ ParentOK(ns, path[1], to)
  /\ target # path => /\ ~IsPrefix(path, target) /\ ~TooDeep(ns, path, to)
                      /\ id \notin Range(ns[to].kids)

PatchResult(os, res, path, at, target, named, placed) ==
  /\ res.objects = IF target # path THEN RewritePaths(os, path, target) ELSE os
  /\ res.nodes = IF target # path THEN Relocate(placed, path, target)
                 ELSE IF at # Absent THEN placed ELSE named
 

\* The events of a patch.
PatchTold(ns, path, at, target, label) ==
  (IF target # path THEN <<[kind |-> "node.moved", from |-> path, to |-> target]>> ELSE <<>>)
  \o (IF \/ label # ns[path].label
         \/ ~(target # path) /\ at \notin {Absent, IndexOf(ns, path) - 1}
      THEN <<[kind |-> "node.updated", path |-> target, label |-> label]>> ELSE <<>>)

\* What a patch of a node tests, makes of the trees, and tells.
LEMMA PatchParts ==
  ASSUME NEW os, NEW ns, NEW path, NEW name, NEW parent, NEW at,
         NEW res, NEW id, NEW to, NEW target, NEW label, NEW named, NEW less, NEW spot, NEW placed,
         PatchSteps(os, ns, path, name, parent, at, res, id, to, target, label, named, less, spot, placed)
  PROVE  /\ PatchTests(ns, path, name, id, to, target)
         /\ PatchResult(os, res, path, at, target, named, placed)
         /\ res.events = PatchTold(ns, path, at, target, label)
<1> DEFINE moved   == target # path
           index   == IndexOf(ns, path)
           updated == label # ns[path].label \/ (~moved /\ at \notin {Absent, index - 1})
           movedEv == [kind |-> "node.moved", from |-> path, to |-> target]
           patched == [kind |-> "node.updated", path |-> target, label |-> label]
           one     == IF moved THEN <<movedEv>> ELSE <<>>
           two     == IF updated THEN <<patched>> ELSE <<>>
           refused == \/ ~HasPath(ns, path)
                      \/ name # Absent /\ ~ValidName(name)
                      \/ ~ParentOK(ns, path[1], to)
                      \/ moved /\ IsPrefix(path, target)
                      \/ moved /\ TooDeep(ns, path, to)
                      \/ moved /\ id \in Range(ns[to].kids)
           objs    == IF moved THEN RewritePaths(os, path, target) ELSE os
           trees   == IF moved THEN Relocate(placed, path, target)
                      ELSE IF at # Absent THEN placed ELSE named
           toT     == IF parent = Absent THEN Parent(path) ELSE parent
           targetT == Append(toT, Last(path))
           labelT  == IF name = Absent THEN ns[path].label ELSE name
           namedT  == [ns EXCEPT ![path].label = labelT]
           lessT   == [namedT EXCEPT ![Parent(path)].kids = RemoveAt(@, IndexOf(ns, path))]
           spotT   == IF at = Absent THEN IndexOf(ns, path) - 1 ELSE at
           placedT == [lessT EXCEPT ![toT].kids = Inserted(@, Last(path), spotT)]
<1>0. /\ id = Last(path) /\ to = toT /\ target = targetT /\ label = labelT /\ named = namedT
      /\ placed = placedT /\ res = PatchedNode(os, ns, path, name, parent, at) /\ res # Refused
  <2>1. id = Last(path) /\ to = toT /\ label = labelT /\ spot = spotT
    BY Zenon DEF PatchSteps
  <2>2. target = targetT /\ named = namedT
    <3> HIDE DEF toT, labelT, spotT
    <3> QED
      BY <2>1, Zenon DEF PatchSteps
  <2>3. less = lessT
    <3> HIDE DEF namedT
    <3> QED
      BY <2>2, Zenon DEF PatchSteps
  <2>4. placed = placedT
    <3> HIDE DEF toT, spotT, lessT
    <3> QED
      BY <2>1, <2>3, Zenon DEF PatchSteps
  <2>5. res = PatchedNode(os, ns, path, name, parent, at) /\ res # Refused
    BY Zenon DEF PatchSteps
  <2> HIDE DEF toT, labelT, spotT, lessT, targetT, namedT, placedT
  <2> QED
    BY <2>1, <2>2, <2>4, <2>5, Zenon
<1> DEFINE movedT   == targetT # path
           updatedT == labelT # ns[path].label \/ (~movedT /\ at \notin {Absent, index - 1})
           oneT     == IF movedT
                       THEN <<[kind |-> "node.moved", from |-> path, to |-> targetT]>>
                       ELSE <<>>
           twoT     == IF updatedT
                       THEN <<[kind |-> "node.updated", path |-> targetT, label |-> labelT]>>
                       ELSE <<>>
           refusedT == \/ ~HasPath(ns, path)
                       \/ name # Absent /\ ~ValidName(name)
                       \/ ~ParentOK(ns, path[1], toT)
                       \/ movedT /\ IsPrefix(path, targetT)
                       \/ movedT /\ TooDeep(ns, path, toT)
                       \/ movedT /\ Last(path) \in Range(ns[toT].kids)
           resT     == IF refusedT THEN Refused
                       ELSE Done(IF movedT THEN RewritePaths(os, path, targetT) ELSE os,
                                 IF movedT THEN Relocate(placedT, path, targetT)
                                 ELSE IF at # Absent THEN placedT ELSE namedT,
                                 oneT \o twoT)
<1>10. PatchedNode(os, ns, path, name, parent, at) = resT
  BY Zenon DEF PatchedNode
<1>11. resT = IF refused THEN Refused ELSE Done(objs, trees, one \o two)
  <2> HIDE DEF toT, labelT, targetT, namedT, placedT
  <2> QED
    BY <1>0, Zenon
<1>1. res = IF refused THEN Refused ELSE Done(objs, trees, one \o two)
  <2> HIDE DEF resT, refused, objs, trees, one, two
  <2> QED
    BY <1>0, <1>10, <1>11
<1>2. ~refused /\ res = Done(objs, trees, one \o two)
  <2> HIDE DEF refused, objs, trees, one, two
  <2> QED
    BY <1>0, <1>1
<1>3. PatchTests(ns, path, name, id, to, target)
  BY <1>2, Zenon DEF PatchTests
<1>4. res.objects = objs /\ res.nodes = trees /\ res.events = one \o two
  <2> HIDE DEF objs, trees, one, two
  <2> QED
    BY <1>2 DEF Done
<1>6. PatchResult(os, res, path, at, target, named, placed)
  BY <1>4, Zenon DEF PatchResult
<1>7. res.events = PatchTold(ns, path, at, target, label)
  BY <1>4, Zenon DEF PatchTold
<1> QED
  BY <1>3, <1>6, <1>7

LEMMA NodePatched ==
  ASSUME NEW os, NEW ns, Sound(os, ns), NEW path \in DOMAIN ns,
         NEW name \in Labels \cup {BadName, Absent}, NEW parent,
         NEW at, at = Absent \/ at \in Nat,
         NEW res, res = PatchedNode(os, ns, path, name, parent, at), res # Refused
  PROVE  Sound(res.objects, res.nodes)
<1>1. PICK id, to, label, spot, owner :
        /\ id = Last(path)
        /\ owner = Parent(path)
        /\ to = IF parent = Absent THEN Parent(path) ELSE parent
        /\ label = IF name = Absent THEN ns[path].label ELSE name
        /\ spot = IF at = Absent THEN IndexOf(ns, path) - 1 ELSE at
  OBVIOUS
<1>2. PICK target, named :
        /\ target = Append(to, id)
        /\ named = [ns EXCEPT ![path].label = label]
  OBVIOUS
<1>3. PICK less : less = [named EXCEPT ![Parent(path)].kids = RemoveAt(@, IndexOf(ns, path))]
  OBVIOUS
<1>4. PICK placed : placed = [less EXCEPT ![to].kids = Inserted(@, id, spot)]
  OBVIOUS
<1>50. PatchSteps(os, ns, path, name, parent, at, res, id, to, target, label, named, less, spot, placed)
  BY <1>1, <1>2, <1>3, <1>4, Zenon DEF PatchSteps
<1>51. /\ PatchTests(ns, path, name, id, to, target)
       /\ PatchResult(os, res, path, at, target, named, placed)
  BY <1>50, PatchParts, Zenon
<1>5. /\ HasPath(ns, path) /\ (name # Absent => ValidName(name))
      /\ ParentOK(ns, path[1], to)
      /\ target # path => /\ ~IsPrefix(path, target) /\ ~TooDeep(ns, path, to)
                          /\ id \notin Range(ns[to].kids)
      /\ res.objects = IF target # path THEN RewritePaths(os, path, target) ELSE os
      /\ res.nodes = IF target # path THEN Relocate(placed, path, target)
                     ELSE IF at # Absent THEN placed ELSE named
     
  BY <1>51, Zenon DEF PatchTests, PatchResult
<1>6. \A p \in DOMAIN ns : NodeSound(ns, p)
  BY SoundParts
<1>7. Len(path) > 1 /\ to \in DOMAIN ns
  BY <1>5 DEF HasPath, ParentOK
<1>8. /\ owner \in DOMAIN ns /\ id \in NodeIds /\ Append(owner, id) = path
      /\ IndexOf(ns, path) \in Nat \ {0} /\ id \in Range(ns[owner].kids)
  <2>1. /\ owner \in DOMAIN ns /\ id \in NodeIds /\ Append(owner, id) = path
        /\ IndexOf(ns, path) \in Nat \ {0}
    BY <1>1, <1>6, <1>7, IndexFound
  <2>2. id \in Range(ns[owner].kids)
    BY <1>1, <1>6, <1>7 DEF NodeSound
  <2> QED
    BY <2>1, <2>2
<1>9. label \in Labels
  BY <1>1, <1>5, <1>6 DEF NodeSound, ValidName
<1>10. /\ Sound(os, named)
       /\ DOMAIN named = DOMAIN ns
       /\ \A p \in DOMAIN ns : named[p].kids = ns[p].kids
  <2>1. named = [ns EXCEPT ![path].label = label]
    BY <1>2
  <2>2. NewLabel(ns, path, label, named)
    BY <1>9, <2>1 DEF NewLabel
  <2>3. Sound(os, named) /\ SameKids(ns, named)
    BY <2>2, Relabelled, Zenon
  <2> QED
    BY <2>3 DEF SameKids
<1>11. IndexOf(ns, path) = IndexOf(named, path)
  BY <1>1, <1>8, <1>10 DEF IndexOf
<1>12. spot = Absent \/ spot \in Nat
  BY <1>1, <1>8
<1>13. to = owner => target = path
  BY <1>2, <1>8
<1>14. to # owner => target # path
  <2>1. owner \in Path /\ to \in Path
    BY <1>6, <1>7, <1>8 DEF NodeSound
  <2> QED
    BY SMTT(30), <1>2, <1>8, <2>1, AppendSplit DEF Path
<1>15. to # owner => id \notin Range(named[to].kids)
  BY <1>5, <1>7, <1>10, <1>14
<1>16. /\ SameNodes(named, placed)
       /\ \A p \in DOMAIN named :
            Range(placed[p].kids) = IF p = owner /\ owner # to THEN Range(named[p].kids) \ {id}
                                    ELSE IF p = to THEN Range(named[p].kids) \cup {id}
                                    ELSE Range(named[p].kids)
  <2>1. path \in DOMAIN named /\ to \in DOMAIN named
    BY <1>7, <1>10
  <2>2. less = [named EXCEPT ![owner].kids = RemoveAt(@, IndexOf(named, path))]
    BY <1>1, <1>3, <1>11
  <2>3. Placing(named, path, owner, id, to, spot, less, placed)
    BY <1>1, <1>4, <1>7, <1>12, <1>15, <2>1, <2>2, Zenon DEF Placing
  <2>4. PlacedWell(named, owner, id, to, placed)
    BY <1>10, <2>3, PlacedKids, Zenon
  <2> QED
    BY <2>4, Zenon DEF PlacedWell
<1>17. CASE to = owner
  <2>1. \A p \in DOMAIN named : Range(placed[p].kids) = Range(named[p].kids)
    BY <1>8, <1>10, <1>16, <1>17
  <2>2. Sound(os, placed)
    BY <1>10, <1>16, <2>1, ReplacedSound, Zenon
  <2> QED
    BY <1>5, <1>10, <1>13, <1>17, <2>2
<1>18. CASE to # owner
  <2>1. Placed(named, path, to, id, placed)
    BY <1>1, <1>16, <1>18 DEF Placed
  <2>2. TooDeep(ns, path, to) <=> TooDeep(named, path, to)
    BY <1>10 DEF TooDeep, SubtreeDepth, Below
  <2>3. MayMove(named, path, to, id)
    BY <1>1, <1>2, <1>5, <1>7, <1>10, <1>14, <1>15, <1>18, <2>2 DEF MayMove
  <2>4. Sound(RewritePaths(os, path, target), Relocate(placed, path, target))
    BY <1>2, <1>10, <2>1, <2>3, MovedSound, Zenon
  <2> QED
    BY <1>5, <1>14, <1>18, <2>4
<1> QED
  BY <1>17, <1>18

-----------------------------------------------------------------------------
(* Publishing                                                              *)

\* The events that are logged before the log is cut, by the names of publishLocked.
Logging(n, rev, full, over) ==
  /\ full = log \o Fresh(n, rev)
  /\ over = IF Len(full) > LogMax THEN Len(full) - LogMax ELSE 0

\* full is the end of the history evs, which counts and dates its events.
EndOf(full, evs) ==
  /\ full \in Seq(Event)
  /\ Len(full) <= Len(evs)
  /\ \A i \in DOMAIN full : /\ full[i].no = Len(evs) - Len(full) + i
                            /\ full[i].revision = evs[full[i].no]

LEMMA FreshEvents ==
  ASSUME LogInv, NEW n \in Nat
  PROVE  /\ Fresh(n, revision + 1) \in Seq(Event)
         /\ Len(Fresh(n, revision + 1)) = n
         /\ \A i \in 1 .. n : Fresh(n, revision + 1)[i]
                                = [no |-> Len(issued) + i, revision |-> revision + 1]
<1>1. revision \in Nat /\ Len(issued) \in Nat
  BY DEF LogInv
<1>2. \A i \in 1 .. n : [no |-> Len(issued) + i, revision |-> revision + 1] \in Event
  BY <1>1 DEF Event
<1> QED
  BY <1>2 DEF Fresh

\* The history evs after n events of the next revision, and what the log holds
\* of it before it is cut.
Logged(n, full, over, evs) ==
  /\ evs \in Seq(0 .. revision + 1) /\ Len(evs) = Len(issued) + n
  /\ \A i, j \in DOMAIN evs : i <= j => evs[i] <= evs[j]
  /\ \A i \in DOMAIN issued : evs[i] = issued[i]
  /\ EndOf(full, evs) /\ Len(full) = Len(log) + n
  /\ over \in 0 .. Len(full) /\ Len(full) - over <= LogMax

LEMMA LoggedEvents ==
  ASSUME LogInv, NEW n \in Nat, NEW full, NEW over, Logging(n, revision + 1, full, over),
         NEW evs, evs = issued \o [i \in 1 .. n |-> revision + 1]
  PROVE  Logged(n, full, over, evs)
<1> DEFINE new == [i \in 1 .. n |-> revision + 1]
<1>1. revision \in Nat /\ issued \in Seq(0 .. revision) /\ log \in Seq(Event) /\ LogMax \in Nat
      /\ \A i, j \in DOMAIN issued : i <= j => issued[i] <= issued[j]
  BY MetaAssumption DEF LogInv
<1>2. issued \in Seq(0 .. revision + 1) /\ new \in Seq(0 .. revision + 1) /\ Len(new) = n
  BY <1>1
<1>3. PICK k \in Nat, l \in Nat : k = Len(issued) /\ l = Len(log)
  BY <1>1
<1>4. /\ evs \in Seq(0 .. revision + 1) /\ Len(evs) = k + n
      /\ \A i \in 1 .. k + n : evs[i] = IF i <= k THEN issued[i] ELSE revision + 1
  BY <1>2, <1>3
<1>5. \A i \in 1 .. k : issued[i] \in 0 .. revision
  BY <1>1, <1>3
<1>6. ASSUME NEW i \in 1 .. k + n, NEW j \in 1 .. k + n, i <= j PROVE evs[i] <= evs[j]
  <2>1. CASE j <= k
    <3>1. i \in DOMAIN issued /\ j \in DOMAIN issued
      BY <1>1, <1>3, <1>6, <2>1
    <3>2. i <= k
      BY <1>3, <1>6, <2>1
    <3> QED
      BY <1>1, <1>4, <1>6, <2>1, <3>1, <3>2
  <2>2. CASE i <= k /\ j > k
    BY <1>1, <1>3, <1>4, <1>5, <2>2
  <2>3. CASE i > k
    BY <1>1, <1>3, <1>4, <1>6, <2>3
  <2> QED
    BY <1>3, <2>1, <2>2, <2>3
<1>7. PICK fresh : fresh = Fresh(n, revision + 1)
  OBVIOUS
<1>8. /\ fresh \in Seq(Event) /\ Len(fresh) = n
      /\ \A i \in 1 .. n : fresh[i] = [no |-> k + i, revision |-> revision + 1]
  BY <1>3, <1>7, FreshEvents
<1>9. full = log \o fresh /\ over = IF Len(full) > LogMax THEN Len(full) - LogMax ELSE 0
  BY <1>7 DEF Logging
<1>10. /\ full \in Seq(Event) /\ Len(full) = l + n
       /\ \A i \in 1 .. l + n : full[i] = IF i <= l THEN log[i] ELSE fresh[i - l]
  <2>1. log \in Seq(Event) /\ fresh \in Seq(Event) /\ Len(log) = l /\ Len(fresh) = n
    BY <1>1, <1>3, <1>8
  <2>2. \A i \in 1 .. Len(log) + Len(fresh) :
          (log \o fresh)[i] = IF i <= Len(log) THEN log[i] ELSE fresh[i - Len(log)]
    BY <2>1, ConcatProperties, Zenon
  <2>3. log \o fresh \in Seq(Event) /\ Len(log \o fresh) = Len(log) + Len(fresh)
    BY <2>1, ConcatProperties, Zenon
  <2> QED
    BY <1>9, <2>1, <2>2, <2>3
<1>11. l <= k /\ \A i \in 1 .. l : log[i].no = k - l + i /\ log[i].revision = issued[log[i].no]
  <2>1. l <= k /\ DOMAIN log = 1 .. l
    BY <1>1, <1>3 DEF LogInv
  <2>2. \A i \in DOMAIN log : /\ log[i].no = Len(issued) - Len(log) + i
                              /\ log[i].revision = issued[log[i].no]
    BY Zenon DEF LogInv
  <2> QED
    BY <1>3, <2>1, <2>2, Zenon
<1>12. ASSUME NEW i \in 1 .. l + n
       PROVE  full[i].no = k - l + i /\ full[i].revision = evs[full[i].no]
  <2>1. CASE i <= l
    <3>1. full[i] = log[i] /\ full[i].no = k - l + i /\ full[i].revision = issued[full[i].no]
      BY <1>10, <1>11, <2>1
    <3>2. k - l + i \in 1 .. k
      BY <1>3, <1>11, <2>1
    <3> QED
      BY <1>4, <3>1, <3>2
  <2>2. CASE i > l
    <3>1. i - l \in 1 .. n
      BY <1>3, <2>2
    <3>2. full[i] = [no |-> k + (i - l), revision |-> revision + 1]
      <4>1. fresh[i - l] = [no |-> k + (i - l), revision |-> revision + 1]
        BY <1>8, <3>1, Zenon
      <4>2. ~(i <= l)
        BY <1>3, <2>2
      <4>3. full[i] = fresh[i - l]
        BY <1>10, <4>2, Zenon
      <4> QED
        BY <4>1, <4>3, Zenon
    <3>3. k + (i - l) = k - l + i /\ k + (i - l) \in 1 .. k + n /\ ~(k + (i - l) <= k)
      BY <1>3, <2>2, <3>1
    <3> QED
      BY <1>4, <3>2, <3>3
  <2>3. i <= l \/ i > l
    OBVIOUS
  <2> QED
    BY <2>1, <2>2, <2>3, Zenon
<1>13. EndOf(full, evs)
  <2>1. \A i \in 1 .. l + n : k - l + i = k + n - (l + n) + i
    BY <1>3
  <2>2. Len(full) <= Len(evs) /\ DOMAIN full = 1 .. l + n
    BY <1>3, <1>4, <1>10, <1>11
  <2>3. \A i \in 1 .. l + n : full[i].no = k + n - (l + n) + i
    BY <1>12, <2>1
  <2>4. Len(full) = l + n /\ Len(evs) = k + n /\ full \in Seq(Event)
    BY <1>4, <1>10
  <2>5. ASSUME NEW i \in DOMAIN full
        PROVE  full[i].no = Len(evs) - Len(full) + i /\ full[i].revision = evs[full[i].no]
    <3>1. i \in 1 .. l + n
      BY <2>2
    <3>2. full[i].no = k + n - (l + n) + i /\ full[i].revision = evs[full[i].no]
      BY <1>12, <2>3, <3>1, Zenon
    <3> QED
      BY SMTT(30), <2>4, <3>2
  <2> QED
    BY <2>2, <2>4, <2>5, Zenon DEF EndOf
<1>14. over \in 0 .. Len(full) /\ Len(full) - over <= LogMax
  BY <1>1, <1>9, <1>10
<1>15. DOMAIN evs = 1 .. k + n /\ DOMAIN issued = 1 .. k
  BY <1>1, <1>3, <1>4
<1>16. \A i \in DOMAIN issued : evs[i] = issued[i]
  BY <1>3, <1>4, <1>15
<1> QED
  BY <1>3, <1>4, <1>6, <1>10, <1>13, <1>14, <1>15, <1>16 DEF Logged

\* What the log forgets is remembered in droppedThrough.
LEMMA TrimmedKnown ==
  ASSUME LogInv, NEW full, NEW over, NEW top \in Nat, revision <= top,
         \A i \in 1 .. over : full[i].revision \in 0 .. top
  PROVE  /\ TrimmedThrough(full, over) \in 0 .. top
         /\ droppedThrough <= TrimmedThrough(full, over)
         /\ \A i \in 1 .. over : full[i].revision <= TrimmedThrough(full, over)
<1> DEFINE revs == {droppedThrough} \cup {full[i].revision : i \in 1 .. over}
<1>1. revision \in Nat /\ droppedThrough \in 0 .. revision
  BY DEF LogInv
<1>2. droppedThrough \in 0 .. top
  BY <1>1
<1>3. revs \in SUBSET (0 .. top) /\ revs # {}
  BY <1>2
<1>4. \E r \in revs : \A q \in revs : q <= r
  <2> HIDE DEF revs
  <2>1. revs \in SUBSET Nat /\ \A x \in revs : x <= top
    BY <1>3
  <2> QED
    BY <1>3, <2>1, Greatest
<1>5. TrimmedThrough(full, over) \in revs /\ \A q \in revs : q <= TrimmedThrough(full, over)
  BY <1>4 DEF TrimmedThrough
<1> QED
  BY <1>3, <1>5

LEMMA LogPublished ==
  ASSUME LogInv, NEW n \in Nat, PublishMeta(n, revision + 1), revision' = revision + 1
  PROVE  LogInv' /\ droppedThrough <= droppedThrough'
<1>1. PICK full : full = log \o Fresh(n, revision + 1)
  OBVIOUS
<1>2. PICK over : over = IF Len(full) > LogMax THEN Len(full) - LogMax ELSE 0
  OBVIOUS
<1>3. /\ log' = SubSeq(full, over + 1, Len(full))
      /\ droppedThrough' = TrimmedThrough(full, over)
      /\ issued' = issued \o [i \in 1 .. n |-> revision + 1]
  BY <1>1, <1>2, Zenon DEF PublishMeta
<1>4. Logging(n, revision + 1, full, over)
  BY <1>1, <1>2 DEF Logging
<1>5. /\ issued' \in Seq(0 .. revision + 1) /\ Len(issued') = Len(issued) + n
      /\ \A i, j \in DOMAIN issued' : i <= j => issued'[i] <= issued'[j]
      /\ \A i \in DOMAIN issued : issued'[i] = issued[i]
      /\ EndOf(full, issued') /\ Len(full) = Len(log) + n
      /\ over \in 0 .. Len(full) /\ Len(full) - over <= LogMax
  <2>1. PICK evs : evs = issued'
    OBVIOUS
  <2>2. Logged(n, full, over, evs)
    BY <1>3, <1>4, <2>1, LoggedEvents, Zenon
  <2> QED
    BY <2>1, <2>2 DEF Logged
<1>6. /\ revision \in Nat /\ Len(issued) \in Nat /\ Len(log) \in Nat /\ droppedThrough \in Nat
      /\ Len(log) <= Len(issued)
      /\ \A i \in 1 .. Len(issued) - Len(log) : issued[i] <= droppedThrough
      /\ \A i \in 1 .. Len(issued) : issued[i] \in Nat
  BY DEF LogInv
<1>7. PICK k \in Nat, l \in Nat : k = Len(issued) /\ l = Len(log)
  BY <1>6
<1>8. /\ full \in Seq(Event) /\ Len(full) = l + n /\ over \in 0 .. l + n
      /\ Len(issued') = k + n
      /\ \A i \in 1 .. l + n : full[i].no = k - l + i /\ full[i].revision = issued'[k - l + i]
  <2>1. \A i \in 1 .. l + n : k + n - (l + n) + i = k - l + i
    BY <1>7
  <2>2. full \in Seq(Event) /\ Len(full) = l + n /\ Len(issued') = k + n
    BY <1>5, <1>7 DEF EndOf
  <2>3. DOMAIN full = 1 .. l + n
    BY <2>2
  <2>4. \A i \in DOMAIN full : /\ full[i].no = Len(issued') - Len(full) + i
                               /\ full[i].revision = issued'[full[i].no]
    BY <1>5, Zenon DEF EndOf
  <2>5. \A i \in 1 .. l + n : full[i].no = k - l + i /\ full[i].revision = issued'[full[i].no]
    <3> SUFFICES ASSUME NEW i \in 1 .. l + n
                 PROVE  full[i].no = k - l + i /\ full[i].revision = issued'[full[i].no]
      OBVIOUS
    <3>1. full[i].no = Len(issued') - Len(full) + i /\ full[i].revision = issued'[full[i].no]
      BY <2>3, <2>4, Zenon
    <3>2. full[i].no = k + n - (l + n) + i
      BY <2>2, <3>1
    <3> QED
      BY <2>1, <3>1, <3>2, Zenon
  <2> QED
    BY <1>5, <2>2, <2>5
<1>9. /\ log' \in Seq(Event) /\ Len(log') = l + n - over
      /\ \A i \in 1 .. l + n - over : log'[i] = full[over + i]
  <2>1. over + 1 \in 1 .. l + n + 1 /\ l + n \in Nat
    BY <1>7, <1>8
  <2>2. log' = SubSeq(full, over + 1, l + n)
    BY <1>3, <1>8
  <2>3. l + n - (over + 1) + 1 = l + n - over /\ \A i \in 1 .. l + n - over : over + 1 + i - 1 = over + i
    BY <1>7, <1>8
  <2>4. /\ SubSeq(full, over + 1, l + n) \in Seq(Event)
        /\ Len(SubSeq(full, over + 1, l + n)) = l + n - (over + 1) + 1
        /\ \A i \in 1 .. l + n - (over + 1) + 1 :
             SubSeq(full, over + 1, l + n)[i] = full[over + 1 + i - 1]
    <3>1. PICK m \in Int, e \in Int : m = over + 1 /\ e = l + n
      BY <1>8
    <3>2. m \in 1 .. Len(full) + 1 /\ e \in m - 1 .. Len(full) /\ full \in Seq(Event)
      BY <1>8, <3>1
    <3>3. \A i \in m .. e : full[i] \in Event
      BY <3>2
    <3>4. /\ SubSeq(full, m, e) \in Seq(Event)
          /\ Len(SubSeq(full, m, e)) = IF m <= e THEN e - m + 1 ELSE 0
          /\ \A i \in 1 .. e - m + 1 : SubSeq(full, m, e)[i] = full[m + i - 1]
      BY <3>3, SubSeqProperties
    <3>5. (IF m <= e THEN e - m + 1 ELSE 0) = e - m + 1
      BY <3>2
    <3>6. over + 1 = m /\ l + n = e
      BY <3>1
    <3>7. SubSeq(full, over + 1, l + n) = SubSeq(full, m, e)
      BY <3>6, Zenon
    <3>8. l + n - (over + 1) + 1 = e - m + 1
          /\ \A i \in 1 .. e - m + 1 : over + 1 + i - 1 = m + i - 1
      BY <3>6
    <3> QED
      BY <3>4, <3>5, <3>7, <3>8
  <2> QED
    BY <2>2, <2>3, <2>4
<1>10. \A i \in DOMAIN log' : /\ log'[i].no = Len(issued') - Len(log') + i
                              /\ log'[i].revision = issued'[log'[i].no]
  <2> SUFFICES ASSUME NEW i \in 1 .. l + n - over
               PROVE  /\ log'[i].no = Len(issued') - Len(log') + i
                      /\ log'[i].revision = issued'[log'[i].no]
    <3>1. DOMAIN log' = 1 .. l + n - over
      BY <1>7, <1>8, <1>9
    <3> QED
      BY <3>1, Zenon
  <2>0. over \in 0 .. l + n
    BY <1>8
  <2>1. over + i \in 1 .. l + n /\ k - l + (over + i) = (k + n) - (l + n - over) + i
    BY <2>0
  <2>2. log'[i].no = k - l + (over + i) /\ log'[i].revision = issued'[k - l + (over + i)]
    BY <1>8, <1>9, <2>1
  <2> QED
    BY <1>8, <1>9, <2>1, <2>2
<1>11. \A i \in 1 .. over : full[i].revision \in 0 .. revision + 1
  <2> SUFFICES ASSUME NEW i \in 1 .. over PROVE full[i].revision \in 0 .. revision + 1
    OBVIOUS
  <2>1. i \in 1 .. l + n /\ k - l + i \in 1 .. k + n
    BY SMTT(30), <1>6, <1>7, <1>8
  <2>2. issued'[k - l + i] \in 0 .. revision + 1
    <3>1. PICK evs : evs = issued'
      OBVIOUS
    <3>2. evs \in Seq(0 .. revision + 1) /\ Len(evs) = k + n
      BY <1>5, <1>8, <3>1
    <3>3. evs[k - l + i] \in 0 .. revision + 1
      BY <2>1, <3>2
    <3> QED
      BY <3>1, <3>3
  <2> QED
    BY <1>8, <2>1, <2>2
<1>12. /\ droppedThrough' \in 0 .. revision + 1
       /\ droppedThrough <= droppedThrough'
       /\ \A i \in 1 .. over : full[i].revision <= droppedThrough'
  <2>1. revision + 1 \in Nat /\ revision <= revision + 1
    BY <1>6
  <2> QED
    BY <1>3, <1>11, <2>1, TrimmedKnown
<1>13. \A i \in 1 .. Len(issued') - Len(log') : issued'[i] <= droppedThrough'
  <2> SUFFICES ASSUME NEW i \in 1 .. k - l + over PROVE issued'[i] <= droppedThrough'
    <3>1. (k + n) - (l + n - over) = k - l + over
      BY <1>7, <1>8
    <3> QED
      BY <1>8, <1>9, <3>1
  <2>1. CASE i <= k - l
    <3>1. i \in 1 .. k /\ i \in 1 .. k - l
      BY <1>6, <1>7, <1>8, <2>1
    <3>2. issued \in Seq(0 .. revision) /\ i \in DOMAIN issued
      BY <1>7, <3>1 DEF LogInv
    <3>3. issued[i] <= droppedThrough /\ issued'[i] = issued[i] /\ issued[i] \in Nat
      BY <1>5, <1>6, <1>7, <3>1, <3>2
    <3>4. droppedThrough' \in Nat
      BY <1>6, <1>12
    <3> QED
      BY <1>6, <1>12, <3>3, <3>4
  <2>2. CASE i > k - l
    <3>1. PICK j : j = i - (k - l)
      OBVIOUS
    <3>2. j \in 1 .. over /\ j \in 1 .. l + n /\ k - l + j = i
      BY <1>7, <1>8, <2>2, <3>1
    <3> QED
      BY <1>8, <1>12, <3>2
  <2> QED
    BY <1>7, <2>1, <2>2
<1>14. LogInv'
  BY <1>5, <1>6, <1>7, <1>8, <1>9, <1>10, <1>12, <1>13 DEF LogInv
<1> QED
  BY <1>12, <1>14

\* Two sequences of numbered events in a row.
LEMMA JoinedEvents ==
  ASSUME NEW s \in Seq(Event), NEW t \in Seq(Event), NEW from \in Nat, NEW to \in Nat,
         Len(s) = to - from, Consecutive(s, from), Consecutive(t, to)
  PROVE  Len(s \o t) = to + Len(t) - from /\ Consecutive(s \o t, from)
<1>0. Len(s) \in Nat /\ Len(t) \in Nat
  OBVIOUS
<1>1. PICK a \in Nat, b \in Nat : a = Len(s) /\ b = Len(t)
  BY <1>0, Zenon
<1>2. PICK st : st = s \o t
  OBVIOUS
<1>3. /\ st \in Seq(Event) /\ Len(st) = a + b
      /\ \A i \in 1 .. a + b : st[i] = IF i <= a THEN s[i] ELSE t[i - a]
  <2>1. /\ s \o t \in Seq(Event) /\ Len(s \o t) = Len(s) + Len(t)
        /\ \A i \in 1 .. Len(s) + Len(t) :
             (s \o t)[i] = IF i <= Len(s) THEN s[i] ELSE t[i - Len(s)]
    BY ConcatProperties, Zenon
  <2> QED
    BY <1>1, <1>2, <2>1
<1>4. ASSUME NEW i \in 1 .. a + b PROVE st[i].no = from + i
  <2>1. CASE i <= a
    <3>1. i \in DOMAIN s /\ st[i] = s[i]
      <4>1. i \in 1 .. a
        BY <1>1, <2>1
      <4>2. DOMAIN s = 1 .. a
        BY <1>1
      <4> QED
        BY <1>3, <2>1, <4>1, <4>2
    <3> QED
      BY <3>1 DEF Consecutive
  <2>2. CASE i > a
    <3>1. i - a \in DOMAIN t /\ st[i] = t[i - a]
      BY <1>1, <1>3, <2>2
    <3>2. to + (i - a) = from + i
      BY <1>1
    <3> QED
      BY <3>1, <3>2 DEF Consecutive
  <2>3. i <= a \/ i > a
    OBVIOUS
  <2> QED
    BY <2>1, <2>2, <2>3, Zenon
<1>5. DOMAIN st = 1 .. a + b /\ Len(st) = to + Len(t) - from
  BY <1>1, <1>3
<1> QED
  BY <1>2, <1>4, <1>5, Zenon DEF Consecutive

LEMMA StreamParts ==
  ASSUME NEW st \in StreamType, NEW k, Len(st.queue) <= MetaQueue,
         st.pc = "live" => st.replay = <<>>,
         st.pc # "free" /\ ~st.lost => /\ Len(st.replay \o st.queue) = k - st.pos
                                       /\ Consecutive(st.replay \o st.queue, st.pos)
  PROVE  StreamOK(st, k)
BY DEF StreamOK

LEMMA StreamOffered ==
  ASSUME LogInv, NEW n \in Nat, NEW st, StreamOK(st, Len(issued)),
         NEW new, new = Fresh(n, revision + 1)
  PROVE  StreamOK(Offered(st, new), Len(issued) + n)
<1>1. PICK k \in Nat, q \in Nat : k = Len(issued) /\ q = Len(st.queue)
  BY DEF LogInv, StreamOK, StreamType
<1>2. MetaQueue \in Nat
  BY MetaAssumption
<1>3. /\ new \in Seq(Event) /\ Len(new) = n
      /\ \A i \in 1 .. n : new[i] = [no |-> k + i, revision |-> revision + 1]
  BY <1>1, FreshEvents
<1>4. /\ st \in StreamType /\ q <= MetaQueue
      /\ st.pc = "live" => st.replay = <<>>
      /\ st.pc # "free" /\ ~st.lost =>
           /\ Len(st.replay \o st.queue) = k - st.pos
           /\ Consecutive(st.replay \o st.queue, st.pos)
  BY <1>1, Zenon DEF StreamOK
<1>5. st.queue \in Seq(Event) /\ st.replay \in Seq(Event) /\ st.pos \in Nat /\ st.lost \in BOOLEAN
  BY <1>4 DEF StreamType
<1>6. PICK room \in Int : room = MetaQueue - q
  BY <1>2
<1>7. PICK m \in 0 .. n : m = IF room < n THEN room ELSE n
  <2>1. room \in Nat
    BY <1>2, <1>4, <1>6
  <2> QED
    BY <2>1
<1>8. PICK some : some = SubSeq(new, 1, m)
  OBVIOUS
<1>9. some \in Seq(Event) /\ Len(some) = m /\ m <= room /\ (room >= n => some = new)
  BY <1>3, <1>6, <1>7, <1>8
<1>10. Offered(st, new) = [st EXCEPT !.queue = st.queue \o some, !.lost = st.lost \/ n > room]
  <2>1. MetaQueue - Len(st.queue) = room /\ Len(new) = n
    BY <1>1, <1>3, <1>6
  <2> QED
    BY <1>7, <1>8, <2>1, Zenon DEF Offered
<1>11. PICK queue, lost : queue = st.queue \o some /\ lost = (st.lost \/ n > room)
  OBVIOUS
<1>12. queue \in Seq(Event) /\ Len(queue) <= MetaQueue /\ lost \in BOOLEAN
  <2>1. queue \in Seq(Event) /\ Len(queue) = q + m
    <3>1. st.queue \in Seq(Event) /\ some \in Seq(Event) /\ Len(some) = m /\ Len(st.queue) = q
      BY <1>1, <1>5, <1>9
    <3>2. /\ st.queue \o some \in Seq(Event)
          /\ Len(st.queue \o some) = Len(st.queue) + Len(some)
      BY <3>1, ConcatProperties, Zenon
    <3> QED
      BY <1>11, <3>1, <3>2, Zenon
  <2>2. q + m <= MetaQueue
    BY <1>2, <1>6, <1>9
  <2>3. lost \in BOOLEAN
    BY <1>11
  <2> QED
    BY <2>1, <2>2, <2>3
<1>13. PICK now : now = Offered(st, new)
  OBVIOUS
<1>14. /\ now \in StreamType /\ now.queue = queue /\ now.lost = lost
       /\ now.pos = st.pos /\ now.pc = st.pc /\ now.replay = st.replay
  <2>1. now = [st EXCEPT !.queue = queue, !.lost = lost]
    BY <1>10, <1>11, <1>13
  <2> QED
    BY <1>4, <1>12, <2>1 DEF StreamType
<1>15. ASSUME now.pc # "free", ~now.lost
       PROVE  /\ Len(now.replay \o now.queue) = (k + n) - now.pos
              /\ Consecutive(now.replay \o now.queue, now.pos)
  <2>1. ~st.lost /\ ~(n > room)
    BY <1>11, <1>14, <1>15
  <2>2. queue = st.queue \o new
    BY <1>7, <1>9, <1>11, <2>1
  <2>3. PICK owed : owed = st.replay \o st.queue
    OBVIOUS
  <2>4. owed \in Seq(Event) /\ Len(owed) = k - st.pos
        /\ Consecutive(owed, st.pos)
    <3>1. st.pc # "free" /\ owed \in Seq(Event)
      BY <1>5, <1>14, <1>15, <2>3
    <3>2. /\ Len(st.replay \o st.queue) = k - st.pos
          /\ Consecutive(st.replay \o st.queue, st.pos)
      BY <1>4, <2>1, <3>1, Zenon
    <3> QED
      BY <2>3, <3>1, <3>2, Zenon
  <2>5. now.replay \o now.queue = owed \o new
    <3>1. now.replay \o now.queue = st.replay \o (st.queue \o new)
      BY <1>14, <2>2, Zenon
    <3>2. st.replay \o (st.queue \o new) = (st.replay \o st.queue) \o new
      <4>1. PICK a \in Seq(Event), b \in Seq(Event), c \in Seq(Event) :
              a = st.replay /\ b = st.queue /\ c = new
        BY <1>3, <1>5
      <4>2. (a \o b) \o c = a \o (b \o c)
        BY SMTT(30), ConcatAssociative
      <4> QED
        BY <4>1, <4>2, Zenon
    <3> QED
      BY <2>3, <3>1, <3>2, Zenon
  <2>6. Consecutive(new, k)
    <3>1. DOMAIN new = 1 .. n
      BY <1>3
    <3>2. ASSUME NEW i \in 1 .. n PROVE new[i].no = k + i
      <4>1. new[i] = [no |-> k + i, revision |-> revision + 1]
        BY <1>3, Zenon
      <4> QED
        BY <4>1
    <3> QED
      BY <3>1, <3>2, Zenon DEF Consecutive
  <2>7. Len(owed \o new) = k + Len(new) - st.pos /\ Consecutive(owed \o new, st.pos)
    <3>1. PICK from \in Nat : from = st.pos
      BY <1>5
    <3>2. Consecutive(owed, from) /\ Len(owed) = k - from /\ owed \in Seq(Event)
          /\ new \in Seq(Event)
      BY <1>3, <2>4, <3>1
    <3>3. Len(owed \o new) = k + Len(new) - from /\ Consecutive(owed \o new, from)
      BY <2>6, <3>2, JoinedEvents, ZenonT(40)
    <3> QED
      BY <3>1, <3>3, Zenon
  <2>8. st.pos \in Nat /\ now.pos = st.pos /\ Len(new) = n
    BY <1>3, <1>5, <1>14
  <2>9. Len(owed \o new) = (k + n) - st.pos
    BY <2>7, <2>8
  <2> QED
    BY <2>5, <2>7, <2>8, <2>9, Zenon
<1>16. Len(now.queue) <= MetaQueue
       /\ (now.pc = "live" => now.replay = <<>>)
  BY <1>4, <1>5, <1>12, <1>14
<1> QED
  <2>1. StreamOK(now, k + n)
    <3>1. now.pc # "free" /\ ~now.lost => /\ Len(now.replay \o now.queue) = (k + n) - now.pos
                                          /\ Consecutive(now.replay \o now.queue, now.pos)
      BY <1>15, Zenon
    <3>2. now \in StreamType
      BY <1>14
    <3> QED
      BY <1>16, <3>1, <3>2, StreamParts, Zenon
  <2> QED
    BY <1>1, <1>13, <2>1, Zenon

LEMMA StreamWaits ==
  ASSUME LogInv, NEW n \in Nat, NEW st, StreamOK(st, Len(issued)), st.pc = "free"
  PROVE  StreamOK(st, Len(issued) + n)
<1>1. Len(issued) \in Nat
  BY DEF LogInv
<1> QED
  BY <1>1 DEF StreamOK, StreamType

LEMMA StreamsPublished ==
  ASSUME LogInv, StreamInv, NEW n \in Nat, PublishMeta(n, revision + 1)
  PROVE  StreamInv'
<1>1. \A s \in MetaStreams : StreamOK(mstream[s], Len(issued))
  BY DEF StreamInv
<1>2. Len(issued') = Len(issued) + n
  <2>1. issued' = issued \o [i \in 1 .. n |-> revision + 1]
    BY Zenon DEF PublishMeta
  <2>2. issued \in Seq(Nat) /\ revision \in Nat
    BY DEF LogInv
  <2> QED
    BY <2>1, <2>2
<1>3. PICK new : new = Fresh(n, revision + 1)
  OBVIOUS
<1>4. mstream' = [s \in MetaStreams |->
                    IF s \in Subs THEN Offered(mstream[s], new) ELSE mstream[s]]
  BY <1>3, Zenon DEF PublishMeta
<1>5. ASSUME NEW s \in MetaStreams PROVE StreamOK(mstream'[s], Len(issued) + n)
  <2>1. CASE s \in Subs
    <3>1. mstream'[s] = Offered(mstream[s], new)
      BY <1>4, <2>1
    <3> QED
      BY <1>1, <1>3, <3>1, StreamOffered
  <2>2. CASE s \notin Subs
    <3>1. mstream'[s] = mstream[s] /\ mstream[s].pc = "free"
      BY <1>4, <2>2 DEF Subs
    <3> QED
      BY <1>1, <3>1, StreamWaits
  <2> QED
    BY <2>1, <2>2
<1>6. mstream' = [s \in MetaStreams |-> mstream'[s]]
  BY <1>4
<1>7. /\ mstream' = [s \in MetaStreams |-> mstream'[s]]
      /\ \A s \in MetaStreams : StreamOK(mstream'[s], Len(issued'))
  BY <1>2, <1>5, <1>6
<1> QED
  BY <1>7 DEF StreamInv

-----------------------------------------------------------------------------
(* Replicas                                                                *)

\* f is what a replica is after each of the first n events.
IsReplay(f, rep, evs, n) ==
  f = [i \in 0 .. n |-> IF i = 0 THEN rep ELSE Applied(f[i - 1], evs[i])]

\* There is one for every number of events: from a least one that there is none
\* for, the one before it could be continued.
LEMMA ReplayExists ==
  ASSUME NEW rep, NEW evs, NEW n \in Nat
  PROVE  \E f : IsReplay(f, rep, evs, n)
<1> DEFINE none == {k \in Nat : ~ \E f : IsReplay(f, rep, evs, k)}
<1>1. SUFFICES ASSUME none # {} PROVE FALSE
  OBVIOUS
<1>2. PICK k \in none : \A j \in none : k <= j
  <2>1. PICK k \in none : \A j \in none : ~(<<j, k>> \in OpToRel(<, Nat))
    BY <1>1, NatLessThanWellFounded, WFMin
  <2>2. k \in Nat /\ \A j \in none : j \in Nat
    OBVIOUS
  <2> HIDE DEF none
  <2>3. \A j \in none : k <= j
    <3> SUFFICES ASSUME NEW j \in none PROVE k <= j
      OBVIOUS
    <3>1. j \in Nat /\ ~(j < k)
      BY <2>1, <2>2 DEF OpToRel
    <3> QED
      BY <2>2, <3>1
  <2> QED
    BY <2>3
<1>3. k \in Nat /\ ~ \E f : IsReplay(f, rep, evs, k)
  BY <1>2
<1>4. CASE k = 0
  <2> DEFINE f == [i \in 0 .. 0 |-> rep]
  <2>1. IsReplay(f, rep, evs, 0)
    BY DEF IsReplay
  <2> QED
    BY <1>3, <1>4, <2>1
<1>5. CASE k # 0
  <2>1. k - 1 \in Nat /\ k - 1 \notin none
    <3> HIDE DEF none
    <3> QED
      BY <1>2, <1>3, <1>5
  <2>2. PICK f : IsReplay(f, rep, evs, k - 1)
    BY <2>1
  <2> DEFINE g == [i \in 0 .. k |-> IF i = k THEN Applied(f[k - 1], evs[k]) ELSE f[i]]
  <2>3. ASSUME NEW i \in 0 .. k
        PROVE  g[i] = IF i = 0 THEN rep ELSE Applied(g[i - 1], evs[i])
    <3>1. CASE i = k
      <4>1. g[k] = Applied(f[k - 1], evs[k]) /\ g[k - 1] = f[k - 1]
        BY <1>3, <1>5
      <4> QED
        BY <1>5, <3>1, <4>1
    <3>2. CASE i # k
      <4>1. i \in 0 .. k - 1 /\ g[i] = f[i]
        BY <1>3, <3>2
      <4>2. f[i] = IF i = 0 THEN rep ELSE Applied(f[i - 1], evs[i])
        BY <2>2, <4>1 DEF IsReplay
      <4>3. i # 0 => g[i - 1] = f[i - 1]
        BY <1>3, <4>1
      <4> QED
        BY <4>1, <4>2, <4>3
    <3> QED
      BY <3>1, <3>2
  <2> HIDE DEF g
  <2>4. g = [i \in 0 .. k |-> g[i]]
    BY DEF g
  <2>5. IsReplay(g, rep, evs, k)
    BY <2>3, <2>4 DEF IsReplay
  <2> QED
    BY <1>3, <2>5
<1> QED
  BY <1>4, <1>5

\* The stations of a replica on its way through the events.
LEMMA ReplayStations ==
  ASSUME NEW rep, NEW evs, Len(evs) \in Nat
  PROVE  \E f : /\ f[0] = rep
                /\ \A i \in 1 .. Len(evs) : f[i] = Applied(f[i - 1], evs[i])
                /\ AfterEvents(rep, evs) = f[Len(evs)]
<1> DEFINE n == Len(evs)
           f == CHOOSE f : f = [i \in 0 .. n |-> IF i = 0 THEN rep ELSE Applied(f[i - 1], evs[i])]
<1>1. \E g : g = [i \in 0 .. n |-> IF i = 0 THEN rep ELSE Applied(g[i - 1], evs[i])]
  <2>1. PICK g : IsReplay(g, rep, evs, n)
    BY ReplayExists
  <2> QED
    BY <2>1 DEF IsReplay
<1>2. f = [i \in 0 .. n |-> IF i = 0 THEN rep ELSE Applied(f[i - 1], evs[i])]
  BY <1>1
<1>3. AfterEvents(rep, evs) = f[n]
  BY DEF AfterEvents
<1> HIDE DEF f
<1>4. f[0] = rep /\ \A i \in 1 .. n : f[i] = Applied(f[i - 1], evs[i])
  <2>1. \A i \in 0 .. n : f[i] = IF i = 0 THEN rep ELSE Applied(f[i - 1], evs[i])
    BY <1>2
  <2> QED
    BY <2>1
<1> QED
  BY <1>3, <1>4

-----------------------------------------------------------------------------
(* What the events of a transaction tell                                   *)

\* The events, at most two, lead a replica of the trees ns to one of the trees
\* after and leave its objects alone.
LeadsTo(os, ns, evs, after) ==
  \/ evs = <<>> /\ after = ns
  \/ \E e : evs = <<e>> /\ Applied(Replica(os, ns), e) = Replica(os, after)
  \/ \E e, f : /\ evs = <<e, f>>
               /\ Applied(Applied(Replica(os, ns), e), f) = Replica(os, after)

\* What is known of a transaction's result: it has maps, and its events tell what
\* it did to the trees.
Tells(os, ns, res) ==
  /\ AreMaps(res.objects, res.nodes)
  /\ LeadsTo(os, ns, res.events, res.nodes)

\* The event e sets the label of one node, which may be new.
SetsLabel(ns, e, after) ==
  /\ e.kind \in {"enum.created", "enum.updated", "node.created", "node.updated"}
  /\ DOMAIN after = {e.path} \cup DOMAIN ns
  /\ \A p \in DOMAIN after : after[p].label = IF p = e.path THEN e.label ELSE ns[p].label

LEMMA LabelSet ==
  ASSUME NEW os, NEW ns, NEW e, NEW after, SetsLabel(ns, e, after)
  PROVE  Applied(Replica(os, ns), e) = Replica(os, after)
<1> DEFINE new == With(Flat(ns), e.path, e.label)
<1>1. DOMAIN new = DOMAIN after /\ \A p \in DOMAIN after : new[p] = after[p].label
  BY DEF With, Flat, SetsLabel
<1>2. new = Flat(after)
  <2>1. new = [p \in DOMAIN new |-> new[p]]
    BY DEF With
  <2> HIDE DEF new
  <2> QED
    BY <1>1, <2>1 DEF Flat
<1>3. Applied(Replica(os, ns), e) = [Replica(os, ns) EXCEPT !.labels = new]
  BY DEF Applied, Replica, SetsLabel
<1> HIDE DEF new
<1> QED
  BY <1>2, <1>3 DEF Replica

\* The event e takes a path and all below it.
TakesLabels(ns, e, after) ==
  /\ e.kind \in {"enum.deleted", "node.deleted"}
  /\ DOMAIN after = DOMAIN ns \ Below(ns, e.path)
  /\ \A p \in DOMAIN after : after[p].label = ns[p].label

LEMMA LabelsGone ==
  ASSUME NEW os, NEW ns, NEW e, NEW after, TakesLabels(ns, e, after)
  PROVE  Applied(Replica(os, ns), e) = Replica(os, after)
<1> DEFINE flat == Flat(ns)
           new  == Restrict(flat, DOMAIN flat \ Below(flat, e.path))
<1>1. DOMAIN flat = DOMAIN ns /\ \A p \in DOMAIN ns : flat[p] = ns[p].label
  BY DEF Flat
<1>2. new = Flat(after)
  BY <1>1 DEF Flat, Below, Restrict, TakesLabels
<1>3. Applied(Replica(os, ns), e) = [Replica(os, ns) EXCEPT !.labels = new]
  BY DEF Applied, Replica, TakesLabels
<1> HIDE DEF new
<1> QED
  BY <1>2, <1>3 DEF Replica

\* An event of a move renames every path.
MovesLabels(ns, from, to, after) ==
  /\ Apart(ns, from, to)
  /\ DOMAIN after = {Renamed(p, from, to) : p \in DOMAIN ns}
  /\ \A p \in DOMAIN ns : after[Renamed(p, from, to)].label = ns[p].label

LEMMA LabelsMoved ==
  ASSUME NEW os, NEW ns, NEW from, NEW to, NEW after, MovesLabels(ns, from, to, after)
  PROVE  Applied(Replica(os, ns), [kind |-> "node.moved", from |-> from, to |-> to])
           = Replica(os, after)
<1> DEFINE flat == Flat(ns)
           new  == Relocate(flat, from, to)
<1>1. DOMAIN flat = DOMAIN ns /\ \A p \in DOMAIN ns : flat[p] = ns[p].label
  BY DEF Flat
<1>2. Apart(flat, from, to)
  BY <1>1 DEF Apart, MovesLabels
<1>3. new = [q \in DOMAIN new |-> new[q]]
  BY DEF Relocate
<1>4. Applied(Replica(os, ns), [kind |-> "node.moved", from |-> from, to |-> to])
        = [Replica(os, ns) EXCEPT !.labels = new]
  BY DEF Applied, Replica
<1>5. Relocated(flat, from, to, new)
  <2> HIDE DEF flat
  <2> QED
    BY <1>2, RelocateValues
<1> HIDE DEF new
<1>6. DOMAIN new = DOMAIN after /\ \A p \in DOMAIN ns : new[Renamed(p, from, to)] = ns[p].label
  BY <1>1, <1>5 DEF Relocated, MovesLabels
<1>7. \A q \in DOMAIN after : new[q] = after[q].label
  BY <1>6 DEF MovesLabels
<1>8. new = Flat(after)
  BY <1>3, <1>6, <1>7 DEF Flat
<1> QED
  BY <1>4, <1>8 DEF Replica

LEMMA ObjectWriteTells ==
  ASSUME NEW os, NEW ns, AreMaps(os, ns), NEW ref, NEW p,
         NEW res, res = PatchedObject(os, ns, ref, p), res # Refused
  PROVE  Tells(os, ns, res)
<1>1. /\ res.nodes = ns /\ res.events = <<>>
      /\ \E v : res.objects = With(os, ref, v)
  BY DEF PatchedObject, Done
<1>2. \A v : With(os, ref, v) = [r \in DOMAIN With(os, ref, v) |-> With(os, ref, v)[r]]
  BY DEF With
<1> QED
  BY <1>1, <1>2 DEF Tells, AreMaps, LeadsTo

LEMMA ObjectDeleteTells ==
  ASSUME NEW os, NEW ns, AreMaps(os, ns), NEW ref,
         NEW res, res = DeletedObject(os, ns, ref), res # Refused
  PROVE  Tells(os, ns, res)
<1>1. res.nodes = ns /\ res.events = <<>> /\ res.objects = Restrict(os, DOMAIN os \ {ref})
  BY DEF DeletedObject, Done
<1>2. res.objects = [r \in DOMAIN res.objects |-> res.objects[r]]
  BY <1>1 DEF Restrict
<1> QED
  BY <1>1, <1>2 DEF Tells, AreMaps, LeadsTo

LEMMA OrphanedTells ==
  ASSUME NEW os, NEW ns, AreMaps(os, ns), NEW ref, NEW orphaned,
         NEW res, res = OrphanedObject(os, ns, ref, orphaned), res # Refused
  PROVE  Tells(os, ns, res)
<1>1. res.nodes = ns /\ res.events = <<>> /\ res.objects = [os EXCEPT ![ref].orphaned = orphaned]
  BY DEF OrphanedObject, Done
<1>2. res.objects = [r \in DOMAIN res.objects |-> res.objects[r]]
  BY <1>1
<1> QED
  BY <1>1, <1>2 DEF Tells, AreMaps, LeadsTo

LEMMA BulkTells ==
  ASSUME NEW os, NEW ns, AreMaps(os, ns), NEW set, NEW del,
         NEW res, res = BulkWritten(os, ns, set, del), res # Refused
  PROVE  Tells(os, ns, res)
<1>1. /\ res.nodes = ns /\ res.events = <<>>
      /\ res.objects = [r \in DOMAIN res.objects |-> res.objects[r]]
  BY DEF BulkWritten, Done
<1> QED
  BY <1>1 DEF Tells, AreMaps, LeadsTo

LEMMA EnumCreateTells ==
  ASSUME NEW os, NEW ns, AreMaps(os, ns), NEW e, NEW name,
         NEW res, res = CreatedEnum(os, ns, e, name), res # Refused
  PROVE  Tells(os, ns, res)
<1> DEFINE ev == [kind |-> "enum.created", path |-> <<e>>, label |-> name]
<1>1. /\ res.objects = os /\ res.events = <<ev>>
      /\ res.nodes = With(ns, <<e>>, [label |-> name, kids |-> <<>>])
  BY DEF CreatedEnum, Done
<1>2. PICK path, node : path = <<e>> /\ node = [label |-> name, kids |-> <<>>]
  OBVIOUS
<1>3. /\ DOMAIN res.nodes = {path} \cup DOMAIN ns
      /\ \A p \in DOMAIN res.nodes : res.nodes[p] = IF p = path THEN node ELSE ns[p]
      /\ res.nodes = [p \in DOMAIN res.nodes |-> res.nodes[p]]
  BY <1>1, <1>2 DEF With
<1>4. node.label = name
  BY <1>2
<1>5. Applied(Replica(os, ns), ev) = Replica(os, res.nodes)
  <2>1. ev.kind = "enum.created" /\ ev.path = path /\ ev.label = name
    BY <1>2
  <2> HIDE DEF ev
  <2>2. SetsLabel(ns, ev, res.nodes)
    BY <1>3, <1>4, <2>1 DEF SetsLabel
  <2> QED
    BY <2>2, LabelSet
<1> QED
  BY <1>1, <1>3, <1>5 DEF Tells, AreMaps, LeadsTo

LEMMA EnumPatchTells ==
  ASSUME NEW os, NEW ns, Sound(os, ns), AreMaps(os, ns), NEW e, NEW name,
         NEW res, res = PatchedEnum(os, ns, e, name), res # Refused
  PROVE  Tells(os, ns, res)
<1> DEFINE ev == [kind |-> "enum.updated", path |-> <<e>>, label |-> name]
<1>1. /\ res.objects = os /\ res.events = <<ev>> /\ <<e>> \in DOMAIN ns
      /\ res.nodes = [ns EXCEPT ![<<e>>].label = name]
  BY DEF PatchedEnum, Done
<1>2. PICK path : path = <<e>>
  OBVIOUS
<1>3. /\ DOMAIN res.nodes = DOMAIN ns
      /\ \A p \in DOMAIN ns :
           res.nodes[p] = IF p = path THEN [ns[p] EXCEPT !.label = name] ELSE ns[p]
      /\ res.nodes = [p \in DOMAIN res.nodes |-> res.nodes[p]]
  BY <1>1, <1>2
<1>4. [ns[path] EXCEPT !.label = name].label = name
  <2>1. ns[path] \in [label : Labels, kids : Seq(NodeIds)]
    BY <1>1, <1>2, SoundParts DEF NodeSound
  <2> QED
    BY <2>1
<1>5. Applied(Replica(os, ns), ev) = Replica(os, res.nodes)
  <2>1. ev.kind = "enum.updated" /\ ev.path = path /\ ev.label = name
    BY <1>2
  <2>2. DOMAIN res.nodes = {path} \cup DOMAIN ns
    BY <1>1, <1>2, <1>3
  <2>3. \A p \in DOMAIN res.nodes : res.nodes[p].label = IF p = path THEN name ELSE ns[p].label
    BY <1>3, <1>4
  <2> HIDE DEF ev
  <2>4. SetsLabel(ns, ev, res.nodes)
    BY <2>1, <2>2, <2>3 DEF SetsLabel
  <2> QED
    BY <2>4, LabelSet
<1> QED
  BY <1>1, <1>3, <1>5 DEF Tells, AreMaps, LeadsTo

\* The objects stay a map when a path goes.
LEMMA MembersMap ==
  ASSUME NEW os, os = [ref \in DOMAIN os |-> os[ref]], NEW path, NEW detach,
         NEW kept, kept = MembersCheck(os, path, detach), kept # Refused
  PROVE  kept = [ref \in DOMAIN kept |-> kept[ref]]
<1>1. kept = os \/ kept = StripPaths(os, path)
  BY DEF MembersCheck
<1>2. StripPaths(os, path) = [ref \in DOMAIN StripPaths(os, path) |-> StripPaths(os, path)[ref]]
  BY DEF StripPaths
<1> QED
  BY <1>1, <1>2

LEMMA EnumDeleteTells ==
  ASSUME NEW os, NEW ns, AreMaps(os, ns), NEW e, NEW detach,
         NEW res, res = DeletedEnum(os, ns, e, detach), res # Refused
  PROVE  Tells(os, ns, res)
<1> DEFINE ev == [kind |-> "enum.deleted", path |-> <<e>>]
<1>1. PICK kept : kept = MembersCheck(os, <<e>>, detach)
  OBVIOUS
<1>2. /\ kept # Refused /\ res.objects = kept /\ res.events = <<ev>>
      /\ res.nodes = Restrict(ns, DOMAIN ns \ Below(ns, <<e>>))
  BY <1>1 DEF DeletedEnum, Done
<1>3. /\ DOMAIN res.nodes = DOMAIN ns \ Below(ns, <<e>>)
      /\ \A p \in DOMAIN res.nodes : res.nodes[p] = ns[p]
      /\ res.nodes = [p \in DOMAIN res.nodes |-> res.nodes[p]]
  BY <1>2 DEF Restrict
<1>4. \A X : Applied(Replica(X, ns), ev) = Replica(X, res.nodes)
  <2>1. ev.kind = "enum.deleted" /\ ev.path = <<e>>
    OBVIOUS
  <2> HIDE DEF ev
  <2>2. TakesLabels(ns, ev, res.nodes)
    BY <1>3, <2>1 DEF TakesLabels
  <2> QED
    BY <2>2, LabelsGone
<1>5. kept = [ref \in DOMAIN kept |-> kept[ref]]
  BY <1>1, <1>2, MembersMap DEF AreMaps
<1> QED
  BY <1>2, <1>3, <1>4, <1>5 DEF Tells, AreMaps, LeadsTo

LEMMA NodeDeleteTells ==
  ASSUME NEW os, NEW ns, Sound(os, ns), AreMaps(os, ns), NEW path \in DOMAIN ns, NEW detach,
         NEW res, res = DeletedNode(os, ns, path, detach), res # Refused
  PROVE  Tells(os, ns, res)
<1> DEFINE ev == [kind |-> "node.deleted", path |-> path]
<1>1. PICK kept, owner, less : /\ kept = MembersCheck(os, path, detach) /\ owner = Parent(path)
                               /\ less = RemoveAt(ns[owner].kids, IndexOf(ns, path))
  OBVIOUS
<1>2. /\ kept # Refused /\ res.objects = kept /\ res.events = <<ev>>
      /\ res.nodes = Restrict([ns EXCEPT ![owner].kids = less], DOMAIN ns \ Below(ns, path))
  BY <1>1 DEF DeletedNode, Done
<1>3. /\ DOMAIN res.nodes = DOMAIN ns \ Below(ns, path)
      /\ \A p \in DOMAIN res.nodes :
           res.nodes[p] = IF p = owner THEN [ns[p] EXCEPT !.kids = less] ELSE ns[p]
      /\ res.nodes = [p \in DOMAIN res.nodes |-> res.nodes[p]]
  BY <1>2 DEF Restrict
<1>4. \A p \in DOMAIN res.nodes : res.nodes[p].label = ns[p].label
  <2> SUFFICES ASSUME NEW p \in DOMAIN res.nodes PROVE res.nodes[p].label = ns[p].label
    OBVIOUS
  <2>1. ns[p] \in [label : Labels, kids : Seq(NodeIds)]
    BY <1>3, SoundParts DEF NodeSound
  <2> QED
    BY <1>3, <2>1
<1>5. \A X : Applied(Replica(X, ns), ev) = Replica(X, res.nodes)
  <2>1. ev.kind = "node.deleted" /\ ev.path = path
    OBVIOUS
  <2> HIDE DEF ev
  <2>2. TakesLabels(ns, ev, res.nodes)
    BY <1>3, <1>4, <2>1 DEF TakesLabels
  <2> QED
    BY <2>2, LabelsGone
<1>6. kept = [ref \in DOMAIN kept |-> kept[ref]]
  BY <1>1, <1>2, MembersMap DEF AreMaps
<1> QED
  BY <1>2, <1>3, <1>5, <1>6 DEF Tells, AreMaps, LeadsTo

LEMMA NodeCreateTells ==
  ASSUME NEW os, NEW ns, Sound(os, ns), AreMaps(os, ns), NEW e, NEW parent \in DOMAIN ns,
         NEW id, NEW name, NEW at,
         NEW res, res = CreatedNode(os, ns, e, parent, id, name, at), res # Refused
  PROVE  Tells(os, ns, res)
<1> DEFINE ev == [kind |-> "node.created", path |-> Append(parent, id), label |-> name]
<1>1. PICK path, more, wide, new :
        /\ path = Append(parent, id)
        /\ more = Inserted(ns[parent].kids, id, at)
        /\ wide = [ns EXCEPT ![parent].kids = more]
        /\ new = [label |-> name, kids |-> <<>>]
  OBVIOUS
<1>2. res.objects = os /\ res.events = <<ev>> /\ res.nodes = With(wide, path, new)
  BY <1>1 DEF CreatedNode, Done
<1>3. /\ DOMAIN res.nodes = {path} \cup DOMAIN ns
      /\ \A p \in DOMAIN res.nodes : res.nodes[p] = IF p = path THEN new ELSE wide[p]
      /\ res.nodes = [p \in DOMAIN res.nodes |-> res.nodes[p]]
  BY <1>1, <1>2 DEF With
<1>4. \A p \in DOMAIN ns : wide[p].label = ns[p].label
  <2> SUFFICES ASSUME NEW p \in DOMAIN ns PROVE wide[p].label = ns[p].label
    OBVIOUS
  <2>1. ns[p] \in [label : Labels, kids : Seq(NodeIds)]
    BY SoundParts DEF NodeSound
  <2>2. wide[p] = IF p = parent THEN [ns[p] EXCEPT !.kids = more] ELSE ns[p]
    BY <1>1
  <2> QED
    BY <2>1, <2>2
<1>5. new.label = name
  BY <1>1
<1>6. Applied(Replica(os, ns), ev) = Replica(os, res.nodes)
  <2>1. ev.kind = "node.created" /\ ev.path = path /\ ev.label = name
    BY <1>1
  <2>2. \A p \in DOMAIN res.nodes : res.nodes[p].label = IF p = path THEN name ELSE ns[p].label
    BY <1>3, <1>4, <1>5
  <2> HIDE DEF ev
  <2>3. SetsLabel(ns, ev, res.nodes)
    BY <1>3, <2>1, <2>2 DEF SetsLabel
  <2> QED
    BY <2>3, LabelSet
<1> QED
  BY <1>2, <1>3, <1>6 DEF Tells, AreMaps, LeadsTo

LEMMA TwoEvents ==
  ASSUME NEW d, NEW e
  PROVE  <<d>> \o <<e>> = <<d, e>>
<1>1. <<d>> \in Seq({d, e}) /\ <<e>> \in Seq({d, e}) /\ <<d, e>> \in Seq({d, e})
  OBVIOUS
<1>2. PICK s : s = <<d>> \o <<e>>
  OBVIOUS
<1>3. s \in Seq({d, e}) /\ Len(s) = 2 /\ s[1] = d /\ s[2] = e
  BY <1>1, <1>2
<1>4. \A i \in 1 .. 2 : s[i] = <<d, e>>[i]
  BY <1>3
<1> QED
  BY <1>1, <1>2, <1>3, <1>4, SeqEqual

\* The trees after differ from ns in lists of children only.
SameLabels(ns, after) ==
  /\ after = [p \in DOMAIN ns |-> after[p]]
  /\ \A p \in DOMAIN ns : \E l, k : after[p] = [label |-> l, kids |-> k] /\ ns[p].label = l

KidsSet(mid, path, kids, after) == after = [mid EXCEPT ![path].kids = kids]

LEMMA KidsKeepLabels ==
  ASSUME NEW ns, NEW mid, SameLabels(ns, mid), NEW path, NEW kids, NEW after,
         KidsSet(mid, path, kids, after)
  PROVE  SameLabels(ns, after)
<1>0. after = [mid EXCEPT ![path].kids = kids]
  BY DEF KidsSet
<1>1. DOMAIN mid = DOMAIN ns
  BY DEF SameLabels
<1>2. after = [p \in DOMAIN ns |-> after[p]]
  BY <1>0, <1>1
<1>3. ASSUME NEW p \in DOMAIN ns
      PROVE  \E l, k : after[p] = [label |-> l, kids |-> k] /\ ns[p].label = l
  <2>1. PICK l, k : mid[p] = [label |-> l, kids |-> k] /\ ns[p].label = l
    BY DEF SameLabels
  <2>2. after[p] = IF p = path THEN [mid[p] EXCEPT !.kids = kids] ELSE mid[p]
    BY <1>0, <1>1
  <2>3. [mid[p] EXCEPT !.kids = kids] = [label |-> l, kids |-> kids]
    BY <2>1
  <2> QED
    BY <2>1, <2>2, <2>3
<1> QED
  BY <1>2, <1>3 DEF SameLabels

\* The trees of a patch: one label is set, then only children change.
LEMMA PatchLabels ==
  ASSUME NEW os, NEW ns, Sound(os, ns), NEW path, NEW name, NEW parent, NEW at,
         NEW res, NEW id, NEW to, NEW target, NEW label, NEW named, NEW less, NEW spot, NEW placed,
         PatchSteps(os, ns, path, name, parent, at, res, id, to, target, label, named, less, spot, placed)
  PROVE  /\ SameLabels(named, named) /\ SameLabels(named, placed)
         /\ DOMAIN named = DOMAIN ns
         /\ \A p \in DOMAIN ns : named[p].label = IF p = path THEN label ELSE ns[p].label
<1>0. PICK owner, index : /\ named = [ns EXCEPT ![path].label = label]
                           /\ less = [named EXCEPT ![owner].kids = RemoveAt(@, index)]
                           /\ placed = [less EXCEPT ![to].kids = Inserted(@, id, spot)]
  BY Zenon DEF PatchSteps
<1>1. DOMAIN named = DOMAIN ns /\ named = [p \in DOMAIN named |-> named[p]]
  BY <1>0
<1>2. ASSUME NEW p \in DOMAIN ns
      PROVE  \E l, k : /\ named[p] = [label |-> l, kids |-> k]
                       /\ l = IF p = path THEN label ELSE ns[p].label
  <2>1. PICK l, k : ns[p] = [label |-> l, kids |-> k]
    <3>1. ns[p] \in [label : Labels, kids : Seq(NodeIds)]
      BY SoundParts DEF NodeSound
    <3> QED
      BY <3>1
  <2>2. named[p] = IF p = path THEN [ns[p] EXCEPT !.label = label] ELSE ns[p]
    BY <1>0
  <2>3. [ns[p] EXCEPT !.label = label] = [label |-> label, kids |-> k]
    BY <2>1
  <2>4. ns[p].label = l
    BY <2>1
  <2> QED
    BY <2>1, <2>2, <2>3, <2>4
<1>3. \A p \in DOMAIN ns : named[p].label = IF p = path THEN label ELSE ns[p].label
  <2> SUFFICES ASSUME NEW p \in DOMAIN ns
               PROVE  named[p].label = IF p = path THEN label ELSE ns[p].label
    OBVIOUS
  <2>1. PICK l, k : /\ named[p] = [label |-> l, kids |-> k]
                    /\ l = IF p = path THEN label ELSE ns[p].label
    BY <1>2
  <2> QED
    BY <2>1
<1>4. SameLabels(named, named)
  BY <1>1, <1>2 DEF SameLabels
<1>5. PICK fewer, more : fewer = RemoveAt(named[owner].kids, index)
                         /\ more = Inserted(less[to].kids, id, spot)
  OBVIOUS
<1>6. KidsSet(named, owner, fewer, less)
  BY <1>0, <1>5 DEF KidsSet
<1>7. KidsSet(less, to, more, placed)
  BY <1>0, <1>5 DEF KidsSet
<1>8. SameLabels(named, less)
  BY <1>4, <1>6, KidsKeepLabels
<1>9. SameLabels(named, placed)
  BY <1>7, <1>8, KidsKeepLabels
<1> QED
  BY <1>1, <1>3, <1>4, <1>9

\* A list is as it was when an element goes back where it was taken from.
LEMMA PutBack ==
  ASSUME NEW S, NEW s \in Seq(S), NEW i \in DOMAIN s, i - 1 # Absent
  PROVE  Inserted(RemoveAt(s, i), s[i], i - 1) = s
<1>1. i \in 1 .. Len(s) /\ Len(s) \in Nat
  OBVIOUS
<1> DEFINE r == RemoveAt(s, i)
<1>2. /\ r \in Seq(S)
      /\ Len(r) = Len(s) - 1
      /\ \A j \in 1 .. Len(s) - 1 : r[j] = IF j < i THEN s[j] ELSE s[j + 1]
  <2> DEFINE a == SubSeq(s, 1, i - 1)
             b == SubSeq(s, i + 1, Len(s))
  <2>1. a \in Seq(S) /\ Len(a) = i - 1 /\ \A j \in 1 .. i - 1 : a[j] = s[j]
    BY <1>1
  <2>2. b \in Seq(S) /\ Len(b) = Len(s) - i /\ \A j \in 1 .. Len(s) - i : b[j] = s[i + j]
    BY <1>1
  <2>3. r = a \o b
    BY DEF RemoveAt
  <2> HIDE DEF a, b, r
  <2> QED
    BY <1>1, <2>1, <2>2, <2>3
<1> HIDE DEF r
<1>3. Inserted(r, s[i], i - 1) = InsertAt(r, i, s[i])
  <2>1. ~(i - 1 > Len(r)) /\ (i - 1) + 1 = i
    BY <1>1, <1>2
  <2> QED
    BY <2>1 DEF Inserted
<1> DEFINE t == InsertAt(r, i, s[i])
<1>4. t \in Seq(S) /\ Len(t) = Len(s) /\ \A j \in 1 .. Len(s) : t[j] = s[j]
  <2> DEFINE a == SubSeq(r, 1, i - 1)
             b == SubSeq(r, i, Len(r))
  <2>1. a \in Seq(S) /\ Len(a) = i - 1 /\ \A j \in 1 .. i - 1 : a[j] = s[j]
    BY <1>1, <1>2
  <2>2. b \in Seq(S) /\ Len(b) = Len(s) - i /\ \A j \in 1 .. Len(s) - i : b[j] = s[i + j]
    <3>1. PICK k \in Nat : k = Len(s)
      BY <1>1
    <3>2. b \in Seq(S) /\ Len(b) = k - i /\ \A j \in 1 .. k - i : b[j] = r[i - 1 + j]
      BY <1>1, <1>2, <3>1
    <3>3. ASSUME NEW j \in 1 .. k - i PROVE r[i - 1 + j] = s[i + j]
      <4>1. i - 1 + j \in 1 .. k - 1 /\ ~(i - 1 + j < i) /\ (i - 1 + j) + 1 = i + j
        BY <1>1, <3>1
      <4> QED
        BY <1>2, <3>1, <4>1
    <3> QED
      BY <3>1, <3>2, <3>3
  <2>3. t = a \o <<s[i]>> \o b
    BY DEF InsertAt
  <2> HIDE DEF a, b, t
  <2>4. PICK c : c = a \o <<s[i]>>
    OBVIOUS
  <2>5. c \in Seq(S) /\ Len(c) = i /\ \A j \in 1 .. i : c[j] = s[j]
    BY <1>1, <2>1, <2>4
  <2>6. t = c \o b
    BY <2>3, <2>4
  <2> QED
    BY <1>1, <2>2, <2>5, <2>6
<1> HIDE DEF t
<1>5. t = s
  BY <1>4, SeqEqual
<1> QED
  BY <1>3, <1>5 DEF r, t

\* What patchNode knows of the places when it is through its tests.
PatchPlaces(ns, path, id, to, target) ==
  /\ path \in DOMAIN ns /\ path \in Path /\ target \in Path
  /\ Append(Parent(path), id) = path
  /\ Parent(path) \in DOMAIN ns
  /\ ns[Parent(path)].kids \in Seq(NodeIds)
  /\ IndexOf(ns, path) \in DOMAIN ns[Parent(path)].kids
  /\ ns[Parent(path)].kids[IndexOf(ns, path)] = id
  /\ target = path => to = Parent(path)
  /\ target # path => MayMove(ns, path, to, id)

LEMMA PatchPlaced ==
  ASSUME NEW os, NEW ns, Sound(os, ns), NEW path, NEW name, NEW id, NEW to, NEW target,
         id = Last(path), target = Append(to, id), PatchTests(ns, path, name, id, to, target)
  PROVE  PatchPlaces(ns, path, id, to, target)
<1>1. \A p \in DOMAIN ns : NodeSound(ns, p)
  BY SoundParts
<1>2. /\ Len(path) > 1 /\ path \in DOMAIN ns /\ to \in DOMAIN ns
      /\ target # path => /\ ~IsPrefix(path, target) /\ ~TooDeep(ns, path, to)
                          /\ id \notin Range(ns[to].kids)
  BY DEF PatchTests, HasPath, ParentOK
<1>3. /\ Parent(path) \in DOMAIN ns /\ id \in NodeIds /\ Append(Parent(path), id) = path
      /\ Parent(path) \in Path
      /\ IndexOf(ns, path) \in DOMAIN ns[Parent(path)].kids
      /\ ns[Parent(path)].kids[IndexOf(ns, path)] = id
  BY <1>1, <1>2, IndexFound
<1>4. ns[Parent(path)].kids \in Seq(NodeIds)
  BY <1>1, <1>3 DEF NodeSound
<1>5. path \in Path /\ to \in Path /\ target \in Path
  BY <1>1, <1>2, <1>3 DEF NodeSound, Path
<1>6. target = path => to = Parent(path)
  <2>1. Parent(path) \in Seq(Enums \cup NodeIds) /\ to \in Seq(Enums \cup NodeIds)
        /\ id \in Enums \cup NodeIds
    BY <1>3, <1>5 DEF Path
  <2>2. Parent(Append(to, id)) = to /\ Parent(Append(Parent(path), id)) = Parent(path)
    BY <2>1, AppendSplit
  <2> QED
    BY <1>3, <2>2
<1>7. target # path => MayMove(ns, path, to, id)
  BY <1>2, <1>3 DEF MayMove
<1> QED
  BY <1>2, <1>3, <1>4, <1>5, <1>6, <1>7 DEF PatchPlaces

\* The event of a new label on a node that is there.
LEMMA Renaming ==
  ASSUME NEW os, NEW ns, NEW path \in DOMAIN ns, NEW label, NEW after,
         DOMAIN after = DOMAIN ns,
         \A p \in DOMAIN ns : after[p].label = IF p = path THEN label ELSE ns[p].label
  PROVE  Applied(Replica(os, ns), [kind |-> "node.updated", path |-> path, label |-> label])
           = Replica(os, after)
<1>1. PICK e : e = [kind |-> "node.updated", path |-> path, label |-> label]
  OBVIOUS
<1>2. e.kind = "node.updated" /\ e.path = path /\ e.label = label
  BY <1>1
<1>3. SetsLabel(ns, e, after)
  BY <1>2 DEF SetsLabel
<1> QED
  BY <1>1, <1>3, LabelSet

\* A move tells the new paths, and the new label if there is one.
MoveParts(ns, path, target, label, placed, after) ==
  /\ path \in DOMAIN ns /\ path \in Path /\ target \in Path /\ Apart(ns, path, target)
  /\ DOMAIN placed = DOMAIN ns
  /\ \A p \in DOMAIN ns : placed[p].label = IF p = path THEN label ELSE ns[p].label
  /\ after = Relocate(placed, path, target)

LEMMA MoveTells ==
  ASSUME NEW os, NEW ns, NEW path, NEW target, NEW label, NEW placed, NEW after,
         MoveParts(ns, path, target, label, placed, after)
  PROVE  LET moved == Applied(Replica(os, ns),
                              [kind |-> "node.moved", from |-> path, to |-> target])
         IN /\ label = ns[path].label => moved = Replica(os, after)
            /\ Applied(moved, [kind |-> "node.updated", path |-> target, label |-> label])
                 = Replica(os, after)
<1>0. /\ path \in DOMAIN ns /\ path \in Path /\ target \in Path /\ Apart(ns, path, target)
      /\ DOMAIN placed = DOMAIN ns
      /\ \A p \in DOMAIN ns : placed[p].label = IF p = path THEN label ELSE ns[p].label
      /\ after = Relocate(placed, path, target)
  BY DEF MoveParts
<1>1. Apart(placed, path, target)
  BY <1>0 DEF Apart
<1>2. Relocated(placed, path, target, after)
  BY <1>0, <1>1, RelocateValues
<1>3. DOMAIN after = {Renamed(p, path, target) : p \in DOMAIN ns}
      /\ \A p \in DOMAIN ns : after[Renamed(p, path, target)] = placed[p]
  BY <1>0, <1>2 DEF Relocated
<1>4. Renamed(path, path, target) = target
  BY <1>0, RenamedSelf DEF Path
<1>5. \A p \in DOMAIN ns : Renamed(p, path, target) = target => p = path
  BY <1>0, <1>4 DEF Apart
<1>6. PICK mid : mid = Relocate(ns, path, target)
  OBVIOUS
<1>7. Relocated(ns, path, target, mid)
  BY <1>0, <1>6, RelocateValues
<1>8. DOMAIN mid = DOMAIN after
      /\ \A p \in DOMAIN ns : mid[Renamed(p, path, target)] = ns[p]
  BY <1>3, <1>7 DEF Relocated
<1>9. MovesLabels(ns, path, target, mid)
  BY <1>0, <1>3, <1>8 DEF MovesLabels
<1>10. PICK ev : ev = [kind |-> "node.moved", from |-> path, to |-> target]
  OBVIOUS
<1>11. Applied(Replica(os, ns), ev) = Replica(os, mid)
  BY <1>9, <1>10, LabelsMoved
<1>12. target \in DOMAIN mid
  BY <1>0, <1>3, <1>4, <1>8
<1>13. \A q \in DOMAIN mid : after[q].label = IF q = target THEN label ELSE mid[q].label
  <2> SUFFICES ASSUME NEW p \in DOMAIN ns, NEW q, q = Renamed(p, path, target)
               PROVE  after[q].label = IF q = target THEN label ELSE mid[q].label
    BY <1>3, <1>8
  <2>1. after[q] = placed[p] /\ mid[q] = ns[p] /\ (q = target <=> p = path)
    BY <1>3, <1>4, <1>5, <1>8
  <2> QED
    BY <1>0, <2>1
<1>14. Applied(Replica(os, mid), [kind |-> "node.updated", path |-> target, label |-> label])
         = Replica(os, after)
  BY <1>8, <1>12, <1>13, Renaming
<1>15. label = ns[path].label => Replica(os, mid) = Replica(os, after)
  <2> SUFFICES ASSUME label = ns[path].label PROVE Flat(mid) = Flat(after)
    BY DEF Replica
  <2>1. mid[target] = ns[path]
    BY <1>0, <1>4, <1>8
  <2>2. \A q \in DOMAIN mid : after[q].label = mid[q].label
    BY <1>13, <2>1
  <2> QED
    BY <1>8, <2>2 DEF Flat
<1> QED
  BY <1>10, <1>11, <1>14, <1>15

LEMMA NodePatchTells ==
  ASSUME NEW os, NEW ns, Sound(os, ns), AreMaps(os, ns), NEW path \in DOMAIN ns,
         NEW name, NEW parent, NEW at,
         NEW res, res = PatchedNode(os, ns, path, name, parent, at), res # Refused
  PROVE  Tells(os, ns, res)
<1>1. PICK id, to, label, spot, index :
        /\ id = Last(path) /\ index = IndexOf(ns, path)
        /\ to = IF parent = Absent THEN Parent(path) ELSE parent
        /\ label = IF name = Absent THEN ns[path].label ELSE name
        /\ spot = IF at = Absent THEN IndexOf(ns, path) - 1 ELSE at
  OBVIOUS
<1>2. PICK target, named :
        target = Append(to, id) /\ named = [ns EXCEPT ![path].label = label]
  OBVIOUS
<1>3. PICK less : less = [named EXCEPT ![Parent(path)].kids = RemoveAt(@, IndexOf(ns, path))]
  OBVIOUS
<1>4. PICK placed : placed = [less EXCEPT ![to].kids = Inserted(@, id, spot)]
  OBVIOUS
<1>50. PatchSteps(os, ns, path, name, parent, at, res, id, to, target, label, named, less, spot, placed)
  BY <1>1, <1>2, <1>3, <1>4, Zenon DEF PatchSteps
<1>5. /\ PatchTests(ns, path, name, id, to, target)
      /\ PatchResult(os, res, path, at, target, named, placed)
      /\ res.events = PatchTold(ns, path, at, target, label)
  BY <1>50, PatchParts
<1>6. PatchPlaces(ns, path, id, to, target)
  BY <1>1, <1>2, <1>5, PatchPlaced, Zenon
<1>7. /\ SameLabels(named, named) /\ SameLabels(named, placed) /\ DOMAIN named = DOMAIN ns
      /\ \A p \in DOMAIN ns : named[p].label = IF p = path THEN label ELSE ns[p].label
  BY <1>50, PatchLabels
<1>8. /\ DOMAIN placed = DOMAIN ns /\ placed = [p \in DOMAIN placed |-> placed[p]]
      /\ \A p \in DOMAIN ns : placed[p].label = IF p = path THEN label ELSE ns[p].label
  <2>1. DOMAIN placed = DOMAIN named /\ placed = [p \in DOMAIN placed |-> placed[p]]
    BY <1>7 DEF SameLabels
  <2>2. \A p \in DOMAIN named : placed[p].label = named[p].label
    BY <1>7 DEF SameLabels
  <2> QED
    BY <1>7, <2>1, <2>2
<1>9. res.events = PatchTold(ns, path, at, target, label)
      /\ res.objects = (IF target # path THEN RewritePaths(os, path, target) ELSE os)
      /\ res.nodes = (IF target # path THEN Relocate(placed, path, target)
                      ELSE IF at # Absent THEN placed ELSE named)
  BY <1>5, Zenon DEF PatchResult
<1> DEFINE ev == [kind |-> "node.updated", path |-> target, label |-> label]
           mv == [kind |-> "node.moved", from |-> path, to |-> target]
<1>10. AreMaps(res.objects, res.nodes)
  <2>1. RewritePaths(os, path, target)
          = [r \in DOMAIN RewritePaths(os, path, target) |-> RewritePaths(os, path, target)[r]]
    BY DEF RewritePaths
  <2>2. Relocate(placed, path, target)
          = [q \in DOMAIN Relocate(placed, path, target) |-> Relocate(placed, path, target)[q]]
    BY DEF Relocate
  <2>3. named = [p \in DOMAIN named |-> named[p]]
    BY <1>2
  <2> QED
    BY <1>8, <1>9, <2>1, <2>2, <2>3 DEF AreMaps
<1>11. CASE target # path
  <2>1. MayMove(ns, path, to, id) /\ path \in Path /\ target \in Path
    BY <1>6, <1>11 DEF PatchPlaces
  <2>2. Apart(ns, path, target)
    BY <1>2, <2>1, MovedApart, Zenon DEF NewName
  <2>3. res.nodes = Relocate(placed, path, target)
    BY <1>9, <1>11
  <2>4. /\ label = ns[path].label => Applied(Replica(os, ns), mv) = Replica(os, res.nodes)
        /\ Applied(Applied(Replica(os, ns), mv), ev) = Replica(os, res.nodes)
    <3>1. MoveParts(ns, path, target, label, placed, res.nodes)
      BY <1>8, <2>1, <2>2, <2>3 DEF MoveParts
    <3> QED
      BY <3>1, MoveTells
  <2>5. res.events = <<mv>> \o (IF label # ns[path].label THEN <<ev>> ELSE <<>>)
    BY <1>9, <1>11 DEF PatchTold
  <2> HIDE DEF ev, mv
  <2>6. CASE label # ns[path].label
    <3>1. res.events = <<mv, ev>>
      <4>1. res.events = <<mv>> \o <<ev>>
        BY <2>5, <2>6
      <4> QED
        BY <4>1, TwoEvents
    <3> QED
      BY <1>10, <2>4, <3>1 DEF Tells, LeadsTo
  <2>7. CASE label = ns[path].label
    <3>1. res.events = <<mv>>
      BY <2>5, <2>7
    <3> QED
      BY <1>10, <2>4, <2>7, <3>1 DEF Tells, LeadsTo
  <2> QED
    BY <2>6, <2>7
<1>12. CASE target = path
  <2> DEFINE updated == label # ns[path].label \/ at \notin {Absent, index - 1}
  <2>1. res.nodes = IF at # Absent THEN placed ELSE named
    BY <1>9, <1>12
  <2>2. Applied(Replica(os, ns), ev) = Replica(os, res.nodes)
    <3>1. DOMAIN res.nodes = DOMAIN ns
          /\ \A p \in DOMAIN ns : res.nodes[p].label = IF p = path THEN label ELSE ns[p].label
      BY <1>7, <1>8, <2>1
    <3> QED
      BY <1>12, <3>1, Renaming
  <2>3. res.events = IF updated THEN <<ev>> ELSE <<>>
    <3>1. res.events = <<>> \o (IF updated THEN <<ev>> ELSE <<>>)
      BY <1>1, <1>9, <1>12 DEF PatchTold
    <3> HIDE DEF updated, ev
    <3> QED
      BY <3>1
  <2>4. ASSUME ~updated PROVE res.nodes = ns
    <3>1. named = ns
      <4>1. ns = [p \in DOMAIN ns |-> ns[p]]
        BY DEF AreMaps
      <4>2. [ns[path] EXCEPT !.label = label] = ns[path]
        <5>1. ns[path] \in [label : Labels, kids : Seq(NodeIds)]
          BY SoundParts DEF NodeSound
        <5> QED
          BY <2>4, <5>1
      <4>3. named = [p \in DOMAIN ns |-> IF p = path THEN [ns[path] EXCEPT !.label = label] ELSE ns[p]]
        BY <1>2, <4>1
      <4> QED
        BY <4>1, <4>2, <4>3
    <3>2. CASE at = Absent
      BY <2>1, <3>1, <3>2
    <3>3. CASE at # Absent
      <4> DEFINE owner == Parent(path)
                 kids  == ns[owner].kids
                 fewer == RemoveAt(kids, index)
                 back  == Inserted(fewer, id, index - 1)
      <4>1. /\ owner \in DOMAIN ns /\ kids \in Seq(NodeIds) /\ index \in DOMAIN kids
            /\ kids[index] = id /\ to = owner
        BY <1>1, <1>6, <1>12 DEF PatchPlaces
      <4>2. spot = index - 1 /\ index - 1 # Absent
        BY <1>1, <2>4, <3>3
      <4>3. back = kids
        BY <4>1, <4>2, PutBack
      <4>4. less = [ns EXCEPT ![owner].kids = fewer]
        BY <1>1, <1>3, <3>1
      <4>5. placed = [less EXCEPT ![owner].kids = Inserted(less[owner].kids, id, index - 1)]
        BY <1>4, <4>1, <4>2
      <4>6. PICK l, k : ns[owner] = [label |-> l, kids |-> k]
        <5>1. ns[owner] \in [label : Labels, kids : Seq(NodeIds)]
          BY <4>1, SoundParts DEF NodeSound
        <5> QED
          BY <5>1
      <4> HIDE DEF owner, kids, fewer, back
      <4>7. DOMAIN less = DOMAIN ns
            /\ \A p \in DOMAIN ns : less[p] = IF p = owner THEN [label |-> l, kids |-> fewer] ELSE ns[p]
        <5>1. [ns[owner] EXCEPT !.kids = fewer] = [label |-> l, kids |-> fewer]
          BY <4>6
        <5> QED
          BY <4>1, <4>4, <5>1
      <4>8. less[owner].kids = fewer
        BY <4>1, <4>7
      <4>9. placed = [less EXCEPT ![owner].kids = kids]
        BY <4>3, <4>5, <4>8 DEF back
      <4>10. [[label |-> l, kids |-> fewer] EXCEPT !.kids = kids] = ns[owner]
        BY <4>6 DEF kids
      <4>11. \A p \in DOMAIN ns : placed[p] = ns[p]
        BY <4>1, <4>7, <4>9, <4>10
      <4>12. placed = ns
        BY <1>8, <4>11 DEF AreMaps
      <4> QED
        BY <2>1, <3>3, <4>12
    <3> QED
      BY <3>2, <3>3
  <2> HIDE DEF updated, ev
  <2> QED
    BY <1>10, <2>2, <2>3, <2>4 DEF Tells, LeadsTo
<1> QED
  BY <1>11, <1>12

\* The objects that an event is published for.
Differ(before, after) ==
  {ref \in DOMAIN before \cup DOMAIN after :
     ~(/\ ref \in DOMAIN before \cap DOMAIN after
       /\ before[ref] = after[ref])}

\* The objects before, with those in done as they are after.
Mixed(before, after, done) ==
  [r \in (DOMAIN before \ done) \cup (DOMAIN after \cap done) |->
     IF r \in done THEN after[r] ELSE before[r]]

\* The event of one object.
ObjectEvent(after, ref) ==
  IF ref \in DOMAIN after
  THEN [kind |-> "object.updated", ref |-> ref, value |-> after[ref]]
  ELSE [kind |-> "object.deleted", ref |-> ref]

\* The n objects that differ in the order of their events.
EventOrder(before, after, n, order) ==
  /\ order \in [1 .. n -> Differ(before, after)]
  /\ \A ref \in Differ(before, after) : \E i \in 1 .. n : order[i] = ref
  /\ ObjectEvents(before, after) = [i \in 1 .. n |-> ObjectEvent(after, order[i])]

\* One event for every object that differs, in some order.
LEMMA ObjectEventsOrder ==
  ASSUME NEW before, NEW after, DOMAIN before \subseteq Refs, DOMAIN after \subseteq Refs
  PROVE  \E n \in Nat : \E order : EventOrder(before, after, n, order)
<1> DEFINE D     == Differ(before, after)
           n     == Cardinality(D)
           order == SetToSeq(D)
<1>1. ObjectEvents(before, after) = [i \in 1 .. n |-> ObjectEvent(after, order[i])]
  BY Zenon DEF ObjectEvents, ObjectEvent, Differ
<1>2. IsFiniteSet(D) /\ n \in Nat /\ ExistsBijection(1 .. n, D)
  <2>1. D \in SUBSET Refs
    BY DEF Differ
  <2> HIDE DEF D
  <2> QED
    BY <2>1, FS_Subset, FS_CardinalityType, MetaAssumption
<1> HIDE DEF D
<1>3. \E f \in [1 .. n -> D] : IsInjective(f)
  BY <1>2 DEF ExistsBijection, Bijection, Injection
<1>4. order \in [1 .. n -> D] /\ IsInjective(order)
  BY <1>3 DEF SetToSeq
<1> HIDE DEF n, order
<1>5. order \in Injection(1 .. n, D)
  BY <1>4 DEF Injection
<1>6. IsFiniteSet(1 .. n) /\ Cardinality(1 .. n) = n
  BY <1>2, FS_Interval
<1>7. order \in Surjection(1 .. n, D)
  BY <1>2, <1>5, <1>6, FS_Injection DEF n
<1>8. \A ref \in D : \E i \in 1 .. n : order[i] = ref
  BY <1>7 DEF Surjection
<1>9. EventOrder(before, after, n, order)
  BY <1>1, <1>4, <1>8, Zenon DEF D, EventOrder
<1> QED
  BY <1>2, <1>9

\* One more object as it is after.
LEMMA OneMoreObject ==
  ASSUME NEW before, NEW after, NEW done, NEW ref, NEW ns,
         ref \in Differ(before, after)
  PROVE  Applied(Replica(Mixed(before, after, done), ns), ObjectEvent(after, ref))
           = Replica(Mixed(before, after, done \cup {ref}), ns)
<1>1. PICK old, new : old = Mixed(before, after, done)
                      /\ new = Mixed(before, after, done \cup {ref})
  OBVIOUS
<1>2. /\ old = [r \in DOMAIN old |-> old[r]] /\ new = [r \in DOMAIN new |-> new[r]]
      /\ DOMAIN old = (DOMAIN before \ done) \cup (DOMAIN after \cap done)
      /\ DOMAIN new = (DOMAIN before \ (done \cup {ref})) \cup (DOMAIN after \cap (done \cup {ref}))
      /\ \A r \in DOMAIN old : old[r] = IF r \in done THEN after[r] ELSE before[r]
      /\ \A r \in DOMAIN new : new[r] = IF r \in done \cup {ref} THEN after[r] ELSE before[r]
  BY <1>1 DEF Mixed
<1>3. CASE ref \in DOMAIN after
  <2>1. With(old, ref, after[ref]) = new
    <3>1. PICK w : w = With(old, ref, after[ref])
      OBVIOUS
    <3>2. w = [r \in DOMAIN w |-> w[r]] /\ DOMAIN w = {ref} \cup DOMAIN old
          /\ \A r \in DOMAIN w : w[r] = IF r = ref THEN after[ref] ELSE old[r]
      BY <3>1 DEF With
    <3>3. DOMAIN w = DOMAIN new
      BY <1>2, <1>3, <3>2
    <3>4. \A r \in DOMAIN w : w[r] = new[r]
      BY <1>2, <3>2, <3>3
    <3> QED
      BY <1>2, <3>1, <3>2, <3>3, <3>4
  <2>2. PICK e : e = ObjectEvent(after, ref)
    OBVIOUS
  <2>3. e.kind = "object.updated" /\ e.ref = ref /\ e.value = after[ref]
    BY <1>3, <2>2 DEF ObjectEvent
  <2>4. Applied(Replica(old, ns), e) = [Replica(old, ns) EXCEPT !.objects = With(old, ref, after[ref])]
    BY <2>3 DEF Applied, Replica
  <2> QED
    BY <1>1, <2>1, <2>2, <2>4 DEF Replica
<1>4. CASE ref \notin DOMAIN after
  <2>1. Restrict(old, DOMAIN old \ {ref}) = new
    <3>1. PICK w : w = Restrict(old, DOMAIN old \ {ref})
      OBVIOUS
    <3>2. w = [r \in DOMAIN w |-> w[r]] /\ DOMAIN w = DOMAIN old \ {ref}
          /\ \A r \in DOMAIN w : w[r] = old[r]
      BY <3>1 DEF Restrict
    <3>3. DOMAIN w = DOMAIN new
      BY <1>2, <1>4, <3>2
    <3>4. \A r \in DOMAIN w : w[r] = new[r]
      BY <1>2, <3>2, <3>3
    <3> QED
      BY <1>2, <3>1, <3>2, <3>3, <3>4
  <2>2. PICK e : e = ObjectEvent(after, ref)
    OBVIOUS
  <2>3. e.kind = "object.deleted" /\ e.ref = ref
    BY <1>4, <2>2 DEF ObjectEvent
  <2>4. Applied(Replica(old, ns), e) = [Replica(old, ns) EXCEPT !.objects = Restrict(old, DOMAIN old \ {ref})]
    BY <2>3 DEF Applied, Replica
  <2> QED
    BY <1>1, <2>1, <2>2, <2>4 DEF Replica
<1> QED
  BY <1>3, <1>4

\* None and all of the objects that differ.
LEMMA MixedEnds ==
  ASSUME NEW before, NEW after, NEW ns, AreMaps(before, ns), AreMaps(after, ns)
  PROVE  /\ Mixed(before, after, {}) = before
         /\ Mixed(before, after, Differ(before, after)) = after
<1>1. before = [r \in DOMAIN before |-> before[r]] /\ after = [r \in DOMAIN after |-> after[r]]
  BY DEF AreMaps
<1>2. Mixed(before, after, {}) = before
  BY <1>1 DEF Mixed
<1>3. PICK D : D = Differ(before, after)
  OBVIOUS
<1>4. \A r : r \in D <=> /\ r \in DOMAIN before \cup DOMAIN after
                         /\ ~(r \in DOMAIN before \cap DOMAIN after /\ before[r] = after[r])
  BY <1>3 DEF Differ
<1>5. (DOMAIN before \ D) \cup (DOMAIN after \cap D) = DOMAIN after
  BY <1>4
<1>6. \A r \in DOMAIN after : (IF r \in D THEN after[r] ELSE before[r]) = after[r]
  BY <1>4
<1>7. Mixed(before, after, D) = after
  BY <1>1, <1>5, <1>6 DEF Mixed
<1> QED
  BY <1>2, <1>3, <1>7

\* Stations of a replica from the event after number k to number k + n, which are
\* those of the objects in this order.
ObjectWalk(f, k, n, order, after) ==
  \A i \in 1 .. n : f[k + i] = Applied(f[k + (i - 1)], ObjectEvent(after, order[i]))

\* When all object events have been applied the replica has the objects after:
\* the first event that would lead it astray was applied to a true replica.
LEMMA ObjectsTold ==
  ASSUME NEW before, NEW after, NEW ns, AreMaps(before, ns), AreMaps(after, ns),
         NEW n \in Nat, NEW order \in [1 .. n -> Differ(before, after)],
         \A ref \in Differ(before, after) : \E i \in 1 .. n : order[i] = ref,
         NEW f, NEW k \in Nat, f[k] = Replica(before, ns), ObjectWalk(f, k, n, order, after)
  PROVE  f[k + n] = Replica(after, ns)
<1> DEFINE seen(i)  == {order[j] : j \in 1 .. i}
           mixed(i) == Replica(Mixed(before, after, seen(i)), ns)
           astray   == {i \in Nat : i <= n /\ f[k + i] # mixed(i)}
<1>1. ASSUME astray # {} PROVE FALSE
  <2>1. PICK i \in astray : \A j \in astray : i <= j
    <3>1. PICK i \in astray : \A j \in astray : ~(<<j, i>> \in OpToRel(<, Nat))
      BY <1>1, NatLessThanWellFounded, WFMin
    <3>2. i \in Nat /\ \A j \in astray : j \in Nat
      OBVIOUS
    <3> HIDE DEF astray
    <3>3. \A j \in astray : i <= j
      <4> SUFFICES ASSUME NEW j \in astray PROVE i <= j
        OBVIOUS
      <4>1. j \in Nat /\ ~(j < i)
        BY <3>1, <3>2 DEF OpToRel
      <4> QED
        BY <3>2, <4>1
    <3> QED
      BY <3>3
  <2>2. i \in Nat /\ i <= n /\ f[k + i] # mixed(i)
    <3> HIDE DEF mixed
    <3> QED
      BY <2>1
  <2>3. i # 0
    <3>1. seen(0) = {} /\ k + 0 = k
      OBVIOUS
    <3>2. mixed(0) = Replica(before, ns)
      <4> HIDE DEF seen
      <4> QED
        BY <3>1, MixedEnds
    <3> HIDE DEF mixed
    <3> QED
      BY <2>2, <3>1, <3>2
  <2>4. i - 1 \in Nat /\ i - 1 \notin astray /\ i \in 1 .. n
    <3>1. i - 1 \in Nat /\ i \in 1 .. n /\ ~(i <= i - 1)
      BY <2>2, <2>3
    <3> HIDE DEF astray
    <3> QED
      BY <2>1, <3>1
  <2>5. f[k + (i - 1)] = mixed(i - 1)
    <3>1. i - 1 <= n
      BY <2>4
    <3> HIDE DEF mixed
    <3> QED
      BY <2>4, <3>1
  <2>6. order[i] \in Differ(before, after)
    BY <2>4
  <2>7. seen(i) = seen(i - 1) \cup {order[i]}
    <3>1. 1 .. i = (1 .. i - 1) \cup {i}
      BY <2>4
    <3> QED
      BY <3>1
  <2>8. f[k + i] = Applied(mixed(i - 1), ObjectEvent(after, order[i]))
    <3> HIDE DEF mixed
    <3> QED
      BY <2>4, <2>5 DEF ObjectWalk
  <2> HIDE DEF seen
  <2>9. Applied(mixed(i - 1), ObjectEvent(after, order[i])) = mixed(i)
    BY <2>6, <2>7, OneMoreObject
  <2> QED
    BY <2>2, <2>8, <2>9
<1>2. f[k + n] = mixed(n)
  <2> HIDE DEF mixed
  <2> QED
    BY <1>1
<1>3. seen(n) = Differ(before, after)
  OBVIOUS
<1> HIDE DEF seen
<1> QED
  BY <1>2, <1>3, MixedEnds

\* What mutate publishes.
Published(os, res, evs) == evs = res.events \o ObjectEvents(os, res.objects)

\* A transaction that changes something publishes something, and its events lead
\* a replica of what was to a replica of what is.
LEMMA EventsTell ==
  ASSUME NEW os, NEW ns, AreMaps(os, ns), NEW res, Tells(os, ns, res),
         DOMAIN os \subseteq Refs, DOMAIN res.objects \subseteq Refs,
         NEW evs, Published(os, res, evs)
  PROVE  /\ Len(evs) \in Nat
         /\ Len(evs) = 0 => res.objects = os /\ res.nodes = ns
         /\ AfterEvents(Replica(os, ns), evs) = Replica(res.objects, res.nodes)
<1>1. PICK after, tells : after = res.objects /\ tells = res.events
  OBVIOUS
<1>21. PICK n \in Nat : \E order : EventOrder(os, after, n, order)
  BY <1>1, ObjectEventsOrder
<1>2. PICK order :
        /\ order \in [1 .. n -> Differ(os, after)]
        /\ \A ref \in Differ(os, after) : \E i \in 1 .. n : order[i] = ref
        /\ ObjectEvents(os, after) = [i \in 1 .. n |-> ObjectEvent(after, order[i])]
  BY <1>21 DEF EventOrder
<1>3. LeadsTo(os, ns, tells, res.nodes) /\ AreMaps(after, res.nodes)
  BY <1>1 DEF Tells
<1>4. PICK objs : objs = [i \in 1 .. n |-> ObjectEvent(after, order[i])]
  OBVIOUS
<1>22. \E k \in 0 .. 2 : \E T : tells \in Seq(T) /\ Len(tells) = k
  <2>1. CASE tells = <<>>
    <3>1. tells \in Seq({}) /\ Len(tells) = 0
      BY <2>1
    <3> QED
      BY <3>1
  <2>2. ASSUME NEW d, tells = <<d>> PROVE \E k \in 0 .. 2 : \E T : tells \in Seq(T) /\ Len(tells) = k
    <3>1. tells \in Seq({d}) /\ Len(tells) = 1
      BY <2>2
    <3> QED
      BY <3>1
  <2>3. ASSUME NEW d, NEW e, tells = <<d, e>>
        PROVE  \E k \in 0 .. 2 : \E T : tells \in Seq(T) /\ Len(tells) = k
    <3>1. tells \in Seq({d, e}) /\ Len(tells) = 2
      BY <2>3
    <3> QED
      BY <3>1
  <2> QED
    BY <1>3, <2>1, <2>2, <2>3 DEF LeadsTo
<1>5. PICK k \in 0 .. 2 : Len(tells) = k /\ \E T : tells \in Seq(T)
  BY <1>22
<1>6. PICK O : O = {ObjectEvent(after, order[i]) : i \in 1 .. n}
  OBVIOUS
<1>7. objs \in Seq(O) /\ Len(objs) = n
      /\ \A i \in 1 .. n : objs[i] = ObjectEvent(after, order[i])
  <2>1. \A i \in 1 .. n : ObjectEvent(after, order[i]) \in O
    BY <1>6
  <2> QED
    BY <1>4, <2>1
<1>8. evs = tells \o objs
  BY <1>1, <1>2, <1>4 DEF Published
<1>9. /\ Len(evs) = k + n
      /\ \A i \in 1 .. k : evs[i] = tells[i]
      /\ \A i \in 1 .. n : evs[k + i] = objs[i]
  <2>0. PICK T : tells \in Seq(T)
    BY <1>5
  <2>1. tells \in Seq(T \cup O) /\ objs \in Seq(T \cup O)
    BY <1>7, <2>0
  <2>2. /\ Len(evs) = Len(tells) + Len(objs)
        /\ \A i \in 1 .. Len(tells) + Len(objs) :
             evs[i] = IF i <= Len(tells) THEN tells[i] ELSE objs[i - Len(tells)]
    BY <1>8, <2>1, ConcatProperties
  <2>3. /\ Len(evs) = k + n
        /\ \A i \in 1 .. k + n : evs[i] = IF i <= k THEN tells[i] ELSE objs[i - k]
    BY <1>5, <1>7, <2>2
  <2>4. \A i \in 1 .. k : evs[i] = tells[i]
    BY <1>21, <2>3
  <2>5. ASSUME NEW i \in 1 .. n PROVE evs[k + i] = objs[i]
    <3>1. k + i \in 1 .. k + n /\ ~(k + i <= k) /\ (k + i) - k = i
      BY <1>21
    <3> QED
      BY <2>3, <3>1
  <2> QED
    BY <2>3, <2>4, <2>5
<1>10. PICK f : /\ f[0] = Replica(os, ns)
                /\ \A i \in 1 .. Len(evs) : f[i] = Applied(f[i - 1], evs[i])
                /\ AfterEvents(Replica(os, ns), evs) = f[Len(evs)]
  <2>1. Len(evs) \in Nat
    BY <1>9
  <2> QED
    BY <2>1, ReplayStations
<1>11. f[k] = Replica(os, res.nodes)
  <2>1. CASE tells = <<>> /\ res.nodes = ns
    <3>1. k = 0
      BY <1>5, <2>1
    <3> QED
      BY <1>10, <2>1, <3>1
  <2>2. ASSUME NEW d, tells = <<d>>, Applied(Replica(os, ns), d) = Replica(os, res.nodes)
        PROVE  f[k] = Replica(os, res.nodes)
    <3>1. k = 1 /\ tells[1] = d
      BY <1>5, <2>2
    <3>2. evs[1] = d /\ 1 \in 1 .. Len(evs)
      BY <1>9, <1>21, <3>1
    <3>3. f[1] = Applied(f[0], evs[1])
      BY <1>10, <1>21, <3>2
    <3> QED
      BY <1>10, <2>2, <3>1, <3>2, <3>3
  <2>3. ASSUME NEW d, NEW e, tells = <<d, e>>,
               Applied(Applied(Replica(os, ns), d), e) = Replica(os, res.nodes)
        PROVE  f[k] = Replica(os, res.nodes)
    <3>1. k = 2 /\ tells[1] = d /\ tells[2] = e
      BY <1>5, <2>3
    <3>2. evs[1] = d /\ evs[2] = e /\ 1 \in 1 .. Len(evs) /\ 2 \in 1 .. Len(evs)
      BY <1>9, <1>21, <3>1
    <3>3. f[1] = Applied(f[0], evs[1]) /\ f[2] = Applied(f[1], evs[2])
      BY <1>10, <1>21, <3>2
    <3> QED
      BY <1>10, <2>3, <3>1, <3>2, <3>3
  <2> QED
    BY <1>3, <2>1, <2>2, <2>3 DEF LeadsTo
<1>12. ObjectWalk(f, k, n, order, after)
  <2> SUFFICES ASSUME NEW i \in 1 .. n
               PROVE  f[k + i] = Applied(f[k + (i - 1)], ObjectEvent(after, order[i]))
    BY DEF ObjectWalk
  <2>1. k + i \in 1 .. Len(evs) /\ (k + i) - 1 = k + (i - 1)
    BY <1>9
  <2>2. evs[k + i] = ObjectEvent(after, order[i])
    BY <1>5, <1>7, <1>9, <1>21
  <2>3. f[k + i] = Applied(f[(k + i) - 1], evs[k + i])
    BY <1>10, <2>1
  <2> QED
    BY <2>1, <2>2, <2>3
<1>13. AreMaps(os, res.nodes)
  BY <1>3 DEF AreMaps
<1>14. f[k + n] = Replica(after, res.nodes)
  BY <1>2, <1>3, <1>11, <1>12, <1>13, ObjectsTold
<1>15. ASSUME Len(evs) = 0 PROVE res.objects = os /\ res.nodes = ns
  <2>1. k = 0 /\ n = 0
    BY <1>5, <1>9, <1>15, <1>21
  <2>2. Replica(after, res.nodes) = Replica(os, ns)
    BY <1>10, <1>14, <2>1
  <2>3. after = os
    BY <2>2 DEF Replica
  <2>4. res.nodes = ns
    <3>1. ~ \E d : tells = <<d>>
      BY <1>5, <2>1
    <3>2. ~ \E d, e : tells = <<d, e>>
      BY <1>5, <2>1
    <3> QED
      BY <1>3, <3>1, <3>2 DEF LeadsTo
  <2> QED
    BY <1>1, <2>3, <2>4
<1> QED
  BY <1>1, <1>9, <1>10, <1>14, <1>15

-----------------------------------------------------------------------------
(* The steps                                                               *)

\* A revision is published with at least one event.
LEMMA RevisionPublished ==
  ASSUME LogInv, RevisionsInv, NEW n \in Nat, n # 0, PublishMeta(n, revision + 1),
         revision' = revision + 1
  PROVE  RevisionsInv'
<1>1. droppedThrough <= droppedThrough' /\ LogInv'
  BY LogPublished
<1>2. issued' = issued \o [i \in 1 .. n |-> revision + 1]
  BY Zenon DEF PublishMeta
<1>3. PICK new : new = [i \in 1 .. n |-> revision + 1]
  OBVIOUS
<1>4. /\ revision \in Nat /\ issued \in Seq(Nat) /\ new \in Seq(Nat) /\ Len(new) = n
      /\ droppedThrough \in Nat /\ droppedThrough' \in Nat
      /\ \A i \in 1 .. n : new[i] = revision + 1
  BY <1>1, <1>3 DEF LogInv
<1>5. PICK all : all = issued \o new
  OBVIOUS
<1>6. /\ Len(all) = Len(issued) + n
      /\ \A i \in 1 .. Len(issued) : all[i] = issued[i]
      /\ all[Len(issued) + 1] = revision + 1
      /\ DOMAIN all = 1 .. Len(issued) + n
  <2>1. PICK k \in Nat : k = Len(issued)
    BY <1>4
  <2>2. /\ Len(all) = k + n
        /\ \A i \in 1 .. k + n : all[i] = IF i <= k THEN issued[i] ELSE new[i - k]
        /\ DOMAIN all = 1 .. k + n
    <3>1. /\ all \in Seq(Nat) /\ Len(all) = Len(issued) + Len(new)
          /\ \A i \in 1 .. Len(issued) + Len(new) :
               all[i] = IF i <= Len(issued) THEN issued[i] ELSE new[i - Len(issued)]
      BY <1>4, <1>5, ConcatProperties
    <3>2. Len(new) = n
      BY <1>4
    <3>3. Len(all) = k + n
      BY <2>1, <3>1, <3>2
    <3>4. DOMAIN all = 1 .. k + n
      <4>1. DOMAIN all = 1 .. Len(all)
        BY <3>1
      <4> QED
        BY <3>3, <4>1, Zenon
    <3> QED
      BY <2>1, <3>1, <3>2, <3>3, <3>4
  <2>3. all[k + 1] = revision + 1
    <3>1. k + 1 \in 1 .. k + n /\ ~(k + 1 <= k) /\ (k + 1) - k = 1 /\ 1 \in 1 .. n
      OBVIOUS
    <3> QED
      BY <1>4, <2>2, <3>1
  <2> QED
    BY <2>1, <2>2, <2>3
<1>7. ASSUME NEW r \in 1 .. revision + 1, r > droppedThrough' PROVE r \in Range(all)
  <2>1. CASE r = revision + 1
    <3>1. Len(issued) + 1 \in DOMAIN all
      BY <1>4, <1>6
    <3> QED
      BY <1>6, <2>1, <3>1 DEF Range
  <2>2. CASE r # revision + 1
    <3>1. r \in 1 .. revision /\ r > droppedThrough
      BY <1>1, <1>4, <1>7, <2>2
    <3>2. PICK i \in DOMAIN issued : issued[i] = r
      BY <3>1 DEF RevisionsInv, Range
    <3>3. i \in 1 .. Len(issued) /\ i \in DOMAIN all
      BY <1>4, <1>6
    <3> QED
      BY <1>6, <3>2, <3>3 DEF Range
  <2> QED
    BY <2>1, <2>2
<1> QED
  BY <1>2, <1>3, <1>5, <1>7 DEF RevisionsInv

\* Every transaction that leaves a sound store and tells what it did keeps the invariant.
LEMMA MutateKeeps ==
  ASSUME MetaInv, NEW m, NEW res, Mutate(m, res),
         res # Refused => /\ Sound(res.objects, res.nodes)
                          /\ Tells(objects, nodes, res)
  PROVE  MetaInv'
<1>1. /\ Sound(res.objects, res.nodes)
      /\ Tells(objects, nodes, res)
  BY DEF Mutate
<1>2. PICK evs : evs = res.events \o ObjectEvents(objects, res.objects)
  OBVIOUS
<1>3. PublishMeta(Len(evs), revision + 1) /\ mirror' = AfterEvents(mirror, evs)
  BY <1>2, Zenon DEF Mutate
<1>4. revision' = revision + 1 /\ objects' = res.objects /\ nodes' = res.nodes
  BY DEF Mutate
<1>6. LogInv /\ StreamInv /\ MirrorInv
  BY DEF MetaInv
<1>5. /\ Len(evs) \in Nat
      /\ Len(evs) = 0 => res.objects = objects /\ res.nodes = nodes
      /\ AfterEvents(Replica(objects, nodes), evs) = Replica(res.objects, res.nodes)
  <2>1. DOMAIN objects \subseteq Refs /\ DOMAIN res.objects \subseteq Refs
    BY <1>1 DEF MetaInv, Sound, StoreTyped
  <2>2. Published(objects, res, evs)
    BY <1>2, Zenon DEF Published
  <2>3. AreMaps(objects, nodes)
    BY <1>6 DEF MirrorInv
  <2> QED
    BY <1>1, <2>1, <2>2, <2>3, EventsTell
<1>7. LogInv'
  BY <1>3, <1>4, <1>5, <1>6, LogPublished
<1>8. StreamInv'
  BY <1>3, <1>5, <1>6, StreamsPublished
<1>9. StoreTyped(objects', nodes') /\ StoreIntegral(objects', nodes')
  BY <1>1, <1>4 DEF Sound
<1>10. RevisionsInv'
  <2>1. <<res.objects, res.nodes>> # <<objects, nodes>>
    BY DEF Mutate
  <2>2. Len(evs) # 0
    BY <1>5, <2>1
  <2> QED
    BY <1>3, <1>4, <1>5, <1>6, <2>2, RevisionPublished DEF MirrorInv
<1>11. MirrorInv'
  BY <1>1, <1>3, <1>4, <1>5, <1>6, <1>10 DEF MirrorInv, Tells
<1> QED
  BY <1>7, <1>8, <1>9, <1>11 DEF MetaInv

LEMMA SeedKeeps ==
  ASSUME MetaInv, NEW doc \in Documents, Seed(doc)
  PROVE  MetaInv'
<1>1. PublishMeta(1, revision + 1) /\ revision' = revision + 1
      /\ objects' = doc.objects /\ nodes' = doc.nodes
      /\ mirror' = Replica(doc.objects, doc.nodes)
  BY DEF Seed, Replica
<1>2. LogInv /\ StreamInv /\ RevisionsInv
  BY DEF MetaInv, MirrorInv
<1>3. LogInv' /\ StreamInv'
  BY <1>1, <1>2, LogPublished, StreamsPublished
<1>4. StoreTyped(objects', nodes') /\ StoreIntegral(objects', nodes')
  BY <1>1, MetaAssumption
<1>5. MirrorInv'
  <2>1. RevisionsInv'
    BY <1>1, <1>2, RevisionPublished
  <2>2. AreMaps(doc.objects, doc.nodes)
    BY MetaAssumption DEF AreMaps
  <2> QED
    BY <1>1, <2>1, <2>2 DEF MirrorInv
<1> QED
  BY <1>3, <1>4, <1>5 DEF MetaInv

\* Only the streams change, each to one that owes what it should.
LEMMA StreamsKeep ==
  ASSUME MetaInv, UNCHANGED <<revision, objects, nodes, log, droppedThrough, issued, mirror>>,
         mstream' = [s \in MetaStreams |-> mstream'[s]],
         \A s \in MetaStreams : StreamOK(mstream'[s], Len(issued))
  PROVE  MetaInv'
BY DEF MetaInv, LogInv, StreamInv, MirrorInv, RevisionsInv

LEMMA KilledWell ==
  ASSUME StreamInv, NEW after, after = KillAllMeta(mstream)
  PROVE  /\ after = [s \in MetaStreams |-> after[s]]
         /\ \A s \in MetaStreams : StreamOK(after[s], Len(issued))
<1>1. after = [s \in MetaStreams |->
                 IF mstream[s].pc # "free" THEN [mstream[s] EXCEPT !.killed = TRUE]
                 ELSE mstream[s]]
  BY DEF KillAllMeta
<1>2. ASSUME NEW s \in MetaStreams PROVE StreamOK(after[s], Len(issued))
  <2>1. StreamOK(mstream[s], Len(issued)) /\ mstream[s] \in StreamType
    BY DEF StreamInv, StreamOK
  <2>2. CASE mstream[s].pc = "free"
    <3>1. after[s] = mstream[s]
      BY <1>1, <2>2
    <3> QED
      BY <2>1, <3>1
  <2>3. CASE mstream[s].pc # "free"
    <3>1. after[s] = [mstream[s] EXCEPT !.killed = TRUE]
      BY <1>1, <2>3
    <3>2. /\ after[s] \in StreamType
          /\ after[s].pc = mstream[s].pc /\ after[s].queue = mstream[s].queue
          /\ after[s].replay = mstream[s].replay /\ after[s].pos = mstream[s].pos
          /\ after[s].lost = mstream[s].lost
      BY <2>1, <3>1 DEF StreamType
    <3> QED
      BY <2>1, <3>2, Zenon DEF StreamOK
  <2> QED
    BY <2>2, <2>3
<1> QED
  BY <1>1, <1>2

LEMMA DropStreamsKeeps ==
  ASSUME MetaInv, MetaDropStreams
  PROVE  MetaInv'
<1>1. mstream' = KillAllMeta(mstream)
      /\ UNCHANGED <<revision, objects, nodes, log, droppedThrough, issued, mirror>>
  BY DEF MetaDropStreams
<1>2. /\ mstream' = [s \in MetaStreams |-> mstream'[s]]
      /\ \A s \in MetaStreams : StreamOK(mstream'[s], Len(issued))
  BY <1>1, KilledWell DEF MetaInv
<1> QED
  BY <1>1, <1>2, StreamsKeep

LEMMA RestartKeeps ==
  ASSUME MetaInv, MetaRestart
  PROVE  MetaInv'
<1>1. /\ log' = <<>> /\ droppedThrough' = revision /\ mstream' = KillAllMeta(mstream)
      /\ UNCHANGED <<revision, objects, nodes, issued, mirror>>
  BY DEF MetaRestart
<1>2. /\ mstream' = [s \in MetaStreams |-> mstream'[s]]
      /\ \A s \in MetaStreams : StreamOK(mstream'[s], Len(issued))
  BY <1>1, KilledWell DEF MetaInv
<1>3. StreamInv'
  BY <1>1, <1>2 DEF StreamInv
<1>4. LogInv'
  <2>1. /\ revision \in Nat /\ LogMax \in Nat
        /\ issued \in Seq(0 .. revision)
        /\ \A i, j \in DOMAIN issued : i <= j => issued[i] <= issued[j]
    BY MetaAssumption DEF MetaInv, LogInv
  <2>2. /\ <<>> \in Seq(Event) /\ Len(<<>>) = 0 /\ DOMAIN <<>> = {}
        /\ Len(issued) \in Nat
    BY <2>1
  <2>3. revision \in 0 .. revision /\ 0 <= LogMax /\ 0 <= Len(issued)
    BY <2>1, <2>2
  <2>4. \A i \in 1 .. Len(issued) - 0 : issued[i] <= revision
    BY <2>1
  <2> QED
    BY <1>1, <2>1, <2>2, <2>3, <2>4 DEF LogInv
<1>5. MirrorInv'
  <2>1. RevisionsInv'
    BY <1>1 DEF MetaInv, LogInv, RevisionsInv
  <2> QED
    BY <1>1, <2>1 DEF MetaInv, MirrorInv
<1> QED
  BY <1>1, <1>3, <1>4, <1>5 DEF MetaInv

LEMMA NothingOwed ==
  ASSUME LogInv
  PROVE  Free \in StreamType /\ StreamOK(Free, Len(issued))
<1>1. Len(issued) \in Nat /\ MetaQueue \in Nat
  BY MetaAssumption DEF LogInv
<1>2. Free \in StreamType
  BY DEF Free, StreamType
<1> QED
  BY <1>1, <1>2 DEF StreamOK, Free

\* The logged events after revision since are those the client is not past.
LEMMA ReplayOwed ==
  ASSUME LogInv, NEW since \in droppedThrough .. revision,
         NEW pos, pos = Cardinality({n \in DOMAIN issued : issued[n] <= since})
  PROVE  /\ pos \in 0 .. Len(issued)
         /\ LogAfter(since) \in Seq(Event)
         /\ Len(LogAfter(since)) = Len(issued) - pos
         /\ Consecutive(LogAfter(since), pos)
<1>1. /\ revision \in Nat /\ droppedThrough \in 0 .. revision
      /\ issued \in Seq(0 .. revision) /\ log \in Seq(Event)
      /\ \A i, j \in DOMAIN issued : i <= j => issued[i] <= issued[j]
  BY DEF LogInv
<1>2. Len(issued) \in Nat /\ Len(log) \in Nat
  BY <1>1
<1>3. PICK k \in Nat, l \in Nat : k = Len(issued) /\ l = Len(log)
  BY <1>2, Zenon
<1>4. PICK off \in Nat : off = k - l
  <2>1. Len(log) <= Len(issued)
    BY DEF LogInv
  <2> QED
    BY <1>3, <2>1
<1>5. DOMAIN issued = 1 .. k /\ DOMAIN log = 1 .. l /\ \A i \in 1 .. k : issued[i] \in Nat
  BY <1>1, <1>3
<1>6. \A i \in 1 .. l : log[i].no = off + i /\ log[i].revision = issued[off + i]
  <2> SUFFICES ASSUME NEW i \in 1 .. l
               PROVE  log[i].no = off + i /\ log[i].revision = issued[off + i]
    OBVIOUS
  <2>1. log[i].no = Len(issued) - Len(log) + i /\ log[i].revision = issued[log[i].no]
    BY <1>5, Zenon DEF LogInv
  <2> QED
    BY <1>3, <1>4, <2>1
<1>7. \A i \in 1 .. off : issued[i] <= since
  <2>1. \A i \in 1 .. off : issued[i] <= droppedThrough
    BY <1>3, <1>4 DEF LogInv
  <2>2. \A i \in 1 .. off : issued[i] \in Nat
    BY <1>3, <1>4, <1>5
  <2> QED
    BY <1>1, <2>1, <2>2
<1> DEFINE past == {n \in 1 .. k : issued[n] <= since}
           gone == {i \in 1 .. l : log[i].revision <= since}
<1>8. pos \in 0 .. k /\ past = 1 .. pos
  <2>1. \A i \in past : \A j \in 1 .. i : j \in past
    <3> SUFFICES ASSUME NEW i \in past, NEW j \in 1 .. i PROVE j \in past
      OBVIOUS
    <3>1. j \in 1 .. k /\ i \in 1 .. k /\ j <= i /\ issued[i] <= since
      OBVIOUS
    <3>2. issued[j] <= issued[i]
      BY <1>1, <1>5, <3>1
    <3>3. issued[j] \in Nat /\ issued[i] \in Nat /\ since \in Nat
      BY <1>1, <1>5, <3>1
    <3> QED
      BY <3>1, <3>2, <3>3
  <2>2. past \in SUBSET (1 .. k) /\ pos = Cardinality(past)
    BY <1>5
  <2> HIDE DEF past
  <2> QED
    BY <2>1, <2>2, InitialSegment
<1>9. PICK g : g = Cardinality(gone)
  OBVIOUS
<1>10. g \in 0 .. l /\ gone = 1 .. g
  <2>1. \A i \in gone : \A j \in 1 .. i : j \in gone
    <3> SUFFICES ASSUME NEW i \in gone, NEW j \in 1 .. i PROVE j \in gone
      OBVIOUS
    <3>1. j \in 1 .. l /\ off + i \in 1 .. k /\ off + j \in 1 .. k /\ off + j <= off + i
      BY <1>3, <1>4
    <3>2. issued[off + j] <= issued[off + i] /\ issued[off + i] <= since
      BY <1>1, <1>5, <1>6, <3>1
    <3>3. issued[off + j] \in Nat /\ issued[off + i] \in Nat /\ since \in Nat
      BY <1>1, <1>5, <3>1
    <3> QED
      BY <1>6, <3>1, <3>2, <3>3
  <2>2. gone \in SUBSET (1 .. l)
    OBVIOUS
  <2> HIDE DEF gone
  <2> QED
    BY <1>9, <2>1, <2>2, InitialSegment
<1>11. pos = off + g
  <2>1. \A i \in 1 .. l : i \in 1 .. g <=> off + i \in 1 .. pos
    <3> SUFFICES ASSUME NEW i \in 1 .. l PROVE i \in gone <=> off + i \in past
      BY <1>8, <1>10
    <3>1. off + i \in 1 .. k
      BY <1>3, <1>4
    <3> QED
      BY <1>6, <3>1
  <2>2. \A i \in 1 .. off : i \in 1 .. pos
    BY <1>3, <1>4, <1>7, <1>8
  <2>3. off <= pos
    BY <1>8, <2>2
  <2>4. CASE g = l
    <3>1. l = 0 \/ off + l \in 1 .. pos
      BY <2>1, <2>4
    <3> QED
      BY <1>3, <1>4, <1>8, <2>3, <2>4, <3>1
  <2>5. CASE g < l
    <3>1. g + 1 \in 1 .. l /\ g + 1 \notin 1 .. g
      BY <1>10, <2>5
    <3>2. off + (g + 1) \notin 1 .. pos
      BY <2>1, <3>1
    <3>3. g = 0 \/ off + g \in 1 .. pos
      BY <1>10, <2>1
    <3> QED
      BY <1>8, <1>10, <2>3, <3>2, <3>3
  <2> QED
    BY <1>10, <2>4, <2>5
<1>12. PICK b \in Int : b = 1 + g
  BY <1>10
<1>13. PICK r : r = LogAfter(since)
  OBVIOUS
<1>14. r = SubSeq(log, b, l)
  BY <1>3, <1>5, <1>9, <1>12, <1>13 DEF LogAfter
<1>15. /\ r \in Seq(Event) /\ Len(r) = l - g
       /\ \A i \in 1 .. l - g : r[i] = log[g + i]
  <2>1. \A i \in b .. l : log[i] \in Event
    BY <1>1, <1>3, <1>10, <1>12
  <2>2. /\ SubSeq(log, b, l) \in Seq(Event)
        /\ Len(SubSeq(log, b, l)) = IF b <= l THEN l - b + 1 ELSE 0
        /\ \A i \in 1 .. l - b + 1 : SubSeq(log, b, l)[i] = log[b + i - 1]
    BY <2>1, SubSeqProperties
  <2>3. (IF b <= l THEN l - b + 1 ELSE 0) = l - g /\ l - b + 1 = l - g
        /\ \A i \in 1 .. l - g : b + i - 1 = g + i
    BY <1>10, <1>12
  <2> QED
    BY <1>14, <2>2, <2>3
<1>16. Len(r) = k - pos
  <2>1. Len(r) = l - g /\ pos = off + g /\ off = k - l /\ g \in Int
    BY <1>4, <1>10, <1>11, <1>15
  <2> QED
    BY <2>1
<1>17. Consecutive(r, pos)
  <2>1. DOMAIN r = 1 .. l - g
    BY <1>10, <1>15
  <2>2. ASSUME NEW i \in 1 .. l - g PROVE r[i].no = pos + i
    <3>1. g + i \in 1 .. l /\ off + (g + i) = pos + i
      BY <1>10, <1>11
    <3> QED
      BY <1>6, <1>15, <3>1
  <2> QED
    BY <2>1, <2>2, Zenon DEF Consecutive
<1> QED
  BY <1>3, <1>8, <1>13, <1>15, <1>16, <1>17

LEMMA AttachKeeps ==
  ASSUME MetaInv, NEW s \in MetaStreams, NEW since, since = Absent \/ since \in Int,
         MetaAttach(s, since)
  PROVE  MetaInv'
<1> DEFINE resume == since # Absent /\ ~SinceRefused(since)
<1>1. LogInv /\ StreamInv
  BY DEF MetaInv
<1>2. PICK replay, resync, pos :
        /\ replay = IF resume THEN LogAfter(since) ELSE <<>>
        /\ resync = (since # Absent /\ ~resume)
        /\ pos = IF resume THEN Cardinality({n \in DOMAIN issued : issued[n] <= since})
                 ELSE Len(issued)
  OBVIOUS
<1>3. PICK new : new = [Free EXCEPT !.pc = "open", !.replay = replay, !.resync = resync, !.pos = pos]
  OBVIOUS
<1>4. /\ mstream' = [mstream EXCEPT ![s] = new]
      /\ UNCHANGED <<revision, objects, nodes, log, droppedThrough, issued, mirror>>
  BY <1>2, <1>3, Zenon DEF MetaAttach
<1>5. /\ pos \in 0 .. Len(issued) /\ replay \in Seq(Event)
      /\ Len(replay) = Len(issued) - pos /\ Consecutive(replay, pos)
  <2>1. CASE resume
    <3>1. since \in droppedThrough .. revision
      <4>1. since \in Int /\ since \in 0 .. revision /\ ~(since < droppedThrough)
        BY <2>1 DEF SinceRefused
      <4> QED
        BY <1>1, <4>1 DEF LogInv
    <3>2. replay = LogAfter(since)
          /\ pos = Cardinality({n \in DOMAIN issued : issued[n] <= since})
      BY <1>2, <2>1, Zenon
    <3> QED
      BY <1>1, <3>1, <3>2, ReplayOwed
  <2>2. CASE ~resume
    <3>1. replay = <<>> /\ pos = Len(issued)
      BY <1>2, <2>2, Zenon
    <3>2. Len(issued) \in Nat
      BY <1>1 DEF LogInv
    <3> QED
      BY <3>1, <3>2 DEF Consecutive
  <2> QED
    BY <2>1, <2>2
<1>6. resync \in BOOLEAN
  <2> HIDE DEF resume
  <2> QED
    BY <1>2
<1>7. /\ new \in StreamType /\ new.pc = "open" /\ new.queue = <<>> /\ new.replay = replay
      /\ new.pos = pos /\ new.lost = FALSE
  <2>1. Len(issued) \in Nat
    BY <1>1 DEF LogInv
  <2>2. new = [pc |-> "open", queue |-> <<>>, killed |-> FALSE, replay |-> replay,
               resync |-> resync, pos |-> pos, lost |-> FALSE]
    BY <1>3 DEF Free
  <2>3. pos \in Nat /\ <<>> \in Seq(Event) /\ replay \in Seq(Event)
    BY <1>5, <2>1
  <2> HIDE DEF resume
  <2> QED
    BY <1>6, <2>2, <2>3 DEF StreamType
<1>8. StreamOK(new, Len(issued))
  <2>1. new.replay \o new.queue = replay
    BY <1>5, <1>7
  <2>2. Len(new.queue) <= MetaQueue
    BY <1>7, MetaAssumption
  <2> QED
    BY <1>5, <1>7, <2>1, <2>2 DEF StreamOK
<1>9. /\ mstream' = [t \in MetaStreams |-> mstream'[t]]
      /\ \A t \in MetaStreams : StreamOK(mstream'[t], Len(issued))
  BY <1>1, <1>4, <1>8 DEF StreamInv
<1> QED
  BY <1>4, <1>9, StreamsKeep

\* A step of the handler of stream s, to new.
LEMMA HandlerKeeps ==
  ASSUME MetaInv, NEW s \in MetaStreams, NEW new, StreamOK(new, Len(issued)),
         mstream' = [mstream EXCEPT ![s] = new],
         UNCHANGED <<revision, objects, nodes, log, droppedThrough, issued, mirror>>
  PROVE  MetaInv'
<1>1. /\ mstream' = [t \in MetaStreams |-> mstream'[t]]
      /\ \A t \in MetaStreams : StreamOK(mstream'[t], Len(issued))
  BY DEF MetaInv, StreamInv
<1> QED
  BY <1>1, StreamsKeep

\* The first of the events owed is written.
LEMMA WrittenEvent ==
  ASSUME NEW s \in Seq(Event), s # <<>>, NEW from \in Nat, NEW to \in Nat,
         Len(s) = to - from, Consecutive(s, from)
  PROVE  /\ Head(s).no = from + 1 /\ from + 1 <= to
         /\ Tail(s) \in Seq(Event) /\ Len(Tail(s)) = to - (from + 1)
         /\ Consecutive(Tail(s), from + 1)
<1>1. Len(s) \in Nat \ {0}
  OBVIOUS
<1>2. PICK n \in Nat \ {0} : n = Len(s)
  BY <1>1
<1>3. Head(s) = s[1] /\ 1 \in DOMAIN s
  BY <1>1
<1>4. Head(s).no = from + 1
  BY <1>3 DEF Consecutive
<1>5. PICK t : t = Tail(s)
  OBVIOUS
<1>6. t \in Seq(Event) /\ Len(t) = n - 1 /\ \A i \in 1 .. n - 1 : t[i] = s[i + 1]
  BY <1>2, <1>5
<1>7. ASSUME NEW i \in 1 .. n - 1 PROVE t[i].no = from + 1 + i
  <2>1. i + 1 \in DOMAIN s
    BY <1>2
  <2>2. s[i + 1].no = from + (i + 1)
    BY <2>1 DEF Consecutive
  <2>3. from + (i + 1) = from + 1 + i
    OBVIOUS
  <2> QED
    BY <1>6, <2>2, <2>3
<1>8. DOMAIN t = 1 .. n - 1
  BY <1>6
<1>9. Consecutive(t, from + 1)
  BY <1>7, <1>8, Zenon DEF Consecutive
<1> QED
  BY <1>2, <1>4, <1>5, <1>6, <1>9

LEMMA FirstOfTwo ==
  ASSUME NEW s \in Seq(Event), s # <<>>, NEW t \in Seq(Event)
  PROVE  /\ s \o t \in Seq(Event) /\ s \o t # <<>>
         /\ Head(s \o t) = Head(s) /\ Tail(s \o t) = Tail(s) \o t
<1>1. /\ Head(s) \in Event /\ Tail(s) \in Seq(Event) /\ s = <<Head(s)>> \o Tail(s)
  OBVIOUS
<1>2. PICK h \in Event, u \in Seq(Event) : h = Head(s) /\ u = Tail(s)
  BY <1>1
<1>3. <<h>> \in Seq(Event)
  OBVIOUS
<1>4. (<<h>> \o u) \o t = <<h>> \o (u \o t)
  BY <1>3, ConcatAssociative
<1>5. s \o t = <<h>> \o (u \o t)
  BY <1>1, <1>2, <1>4, Zenon
<1>6. PICK w \in Seq(Event) : w = u \o t
  BY ConcatProperties
<1>7. <<h>> \o w \in Seq(Event) /\ Head(<<h>> \o w) = h /\ Tail(<<h>> \o w) = w /\ <<h>> \o w # <<>>
  <2>1. PICK x : x = <<h>> \o w
    OBVIOUS
  <2>2. /\ x \in Seq(Event) /\ Len(x) = 1 + Len(w) /\ x[1] = h
        /\ \A i \in 1 .. Len(w) : x[i + 1] = w[i]
    BY <2>1
  <2>3. x # <<>> /\ Head(x) = h /\ Tail(x) \in Seq(Event) /\ Len(Tail(x)) = Len(w)
        /\ \A i \in 1 .. Len(w) : Tail(x)[i] = w[i]
    BY <2>2
  <2>4. Tail(x) = w
    BY <2>3, SeqEqual
  <2> QED
    BY <2>1, <2>2, <2>3, <2>4
<1> QED
  BY <1>2, <1>5, <1>6, <1>7, Zenon

LEMMA WriteKeeps ==
  ASSUME MetaInv, NEW s \in MetaStreams,
         MetaWriteOpening(s) \/ MetaWriteReplay(s) \/ MetaWriteLive(s) \/ MetaStreamEnd(s)
  PROVE  MetaInv'
<1>1. LogInv /\ StreamInv
  BY DEF MetaInv
<1>2. PICK st : st = mstream[s]
  OBVIOUS
<1>3. StreamOK(st, Len(issued)) /\ st \in StreamType
  BY <1>1, <1>2 DEF StreamInv, StreamOK
<1>4. PICK k \in Nat : k = Len(issued)
  BY <1>1 DEF LogInv
<1>5. /\ st.queue \in Seq(Event) /\ st.replay \in Seq(Event) /\ st.pos \in Nat
      /\ st.lost \in BOOLEAN /\ Len(st.queue) <= MetaQueue
      /\ st.pc = "live" => st.replay = <<>>
      /\ st.pc # "free" /\ ~st.lost => /\ Len(st.replay \o st.queue) = k - st.pos
                                       /\ Consecutive(st.replay \o st.queue, st.pos)
  BY <1>3, <1>4 DEF StreamOK, StreamType
<1>6. CASE MetaWriteOpening(s)
  <2>1. PICK new : new = [st EXCEPT !.pc = "replay", !.resync = FALSE]
    OBVIOUS
  <2>2. /\ mstream' = [mstream EXCEPT ![s] = new] /\ st.pc = "open"
        /\ UNCHANGED <<revision, objects, nodes, log, droppedThrough, issued, mirror>>
    BY <1>2, <1>6, <2>1 DEF MetaWriteOpening
  <2>3. /\ new \in StreamType /\ new.pc = "replay" /\ new.queue = st.queue
        /\ new.replay = st.replay /\ new.pos = st.pos /\ new.lost = st.lost
    BY <1>3, <2>1 DEF StreamType
  <2>4. StreamOK(new, k)
    BY <1>5, <2>2, <2>3 DEF StreamOK
  <2> QED
    BY <1>4, <2>2, <2>4, HandlerKeeps
<1>7. CASE MetaWriteReplay(s)
  <2>1. /\ st.pc = "replay"
        /\ mstream' = [mstream EXCEPT ![s] =
             IF st.replay = <<>> THEN [st EXCEPT !.pc = "live"]
             ELSE [st EXCEPT !.pos = Head(st.replay).no, !.replay = Tail(st.replay)]]
        /\ UNCHANGED <<revision, objects, nodes, log, droppedThrough, issued, mirror>>
    <3>1. st.pc = "replay"
          /\ UNCHANGED <<revision, objects, nodes, log, droppedThrough, issued, mirror>>
      BY <1>2, <1>7 DEF MetaWriteReplay
    <3>2. mstream' = [mstream EXCEPT ![s] =
            IF mstream[s].replay = <<>> THEN [mstream[s] EXCEPT !.pc = "live"]
            ELSE [mstream[s] EXCEPT !.pos = Head(mstream[s].replay).no,
                                    !.replay = Tail(mstream[s].replay)]]
      BY <1>7, Zenon DEF MetaWriteReplay
    <3> QED
      BY <1>2, <3>1, <3>2, Zenon
  <2>2. CASE st.replay = <<>>
    <3>1. PICK new : new = [st EXCEPT !.pc = "live"]
      OBVIOUS
    <3>2. /\ new \in StreamType /\ new.pc = "live" /\ new.queue = st.queue
          /\ new.replay = st.replay /\ new.pos = st.pos /\ new.lost = st.lost
      BY <1>3, <3>1 DEF StreamType
    <3>3. StreamOK(new, k)
      BY <1>5, <2>1, <2>2, <3>2 DEF StreamOK
    <3>4. mstream' = [mstream EXCEPT ![s] = new]
      BY <2>1, <2>2, <3>1
    <3> QED
      BY <1>4, <2>1, <3>3, <3>4, HandlerKeeps
  <2>3. CASE st.replay # <<>>
    <3>1. PICK pos, replay : pos = Head(st.replay).no /\ replay = Tail(st.replay)
      OBVIOUS
    <3>2. PICK new : new = [st EXCEPT !.pos = pos, !.replay = replay]
      OBVIOUS
    <3>3. /\ pos \in Nat /\ replay \in Seq(Event)
          /\ ~st.lost => Len(replay \o st.queue) = k - pos /\ Consecutive(replay \o st.queue, pos)
      <4>1. Head(st.replay) \in Event /\ replay \in Seq(Event)
        BY <1>5, <2>3, <3>1
      <4>2. pos \in Nat
        BY <3>1, <4>1 DEF Event
      <4>3. ASSUME ~st.lost
            PROVE  Len(replay \o st.queue) = k - pos /\ Consecutive(replay \o st.queue, pos)
        <5>1. PICK owed : owed = st.replay \o st.queue
          OBVIOUS
        <5>2. owed # <<>> /\ Head(owed) = Head(st.replay) /\ Tail(owed) = replay \o st.queue
              /\ owed \in Seq(Event)
          BY <1>5, <2>3, <3>1, <5>1, FirstOfTwo
        <5>3. Len(owed) = k - st.pos /\ Consecutive(owed, st.pos)
          BY <1>5, <2>1, <4>3, <5>1
        <5>4. PICK from \in Nat : from = st.pos
          BY <1>5
        <5>5. /\ Head(owed).no = from + 1 /\ Len(Tail(owed)) = k - (from + 1)
              /\ Consecutive(Tail(owed), from + 1)
          BY <5>2, <5>3, <5>4, WrittenEvent
        <5>6. pos = from + 1
          BY <3>1, <5>2, <5>5
        <5> QED
          BY <5>2, <5>5, <5>6
      <4> QED
        BY <4>1, <4>2, <4>3
    <3>4. /\ new \in StreamType /\ new.pc = "replay" /\ new.queue = st.queue
          /\ new.replay = replay /\ new.pos = pos /\ new.lost = st.lost
      BY <1>3, <2>1, <3>2, <3>3 DEF StreamType
    <3>5. StreamOK(new, k)
      BY <1>5, <3>3, <3>4 DEF StreamOK
    <3>6. mstream' = [mstream EXCEPT ![s] = new]
      BY <2>1, <2>3, <3>1, <3>2
    <3> QED
      BY <1>4, <2>1, <3>5, <3>6, HandlerKeeps
  <2> QED
    BY <2>2, <2>3
<1>8. CASE MetaWriteLive(s)
  <2>1. /\ st.pc = "live" /\ st.queue # <<>>
        /\ mstream' = [mstream EXCEPT ![s] =
             [st EXCEPT !.pos = Head(st.queue).no, !.queue = Tail(st.queue)]]
        /\ UNCHANGED <<revision, objects, nodes, log, droppedThrough, issued, mirror>>
    <3>1. mstream' = [mstream EXCEPT ![s] =
             [st EXCEPT !.pos = Head(st.queue).no, !.queue = Tail(st.queue)]]
      <4>1. mstream' = [mstream EXCEPT ![s].pos = Head(mstream[s].queue).no, ![s].queue = Tail(@)]
        BY <1>8 DEF MetaWriteLive
      <4>2. mstream = [t \in MetaStreams |-> mstream[t]]
        BY <1>1 DEF StreamInv
      <4> QED
        BY <1>2, <1>3, <4>1, <4>2 DEF StreamType
    <3> QED
      BY <1>2, <1>8, <3>1 DEF MetaWriteLive
  <2>2. PICK pos, queue : pos = Head(st.queue).no /\ queue = Tail(st.queue)
    OBVIOUS
  <2>3. PICK new : new = [st EXCEPT !.pos = pos, !.queue = queue]
    OBVIOUS
  <2>4. /\ pos \in Nat /\ queue \in Seq(Event) /\ Len(queue) <= MetaQueue
        /\ ~st.lost => Len(queue) = k - pos /\ Consecutive(queue, pos)
    <3>1. Head(st.queue) \in Event /\ queue \in Seq(Event) /\ Len(queue) <= Len(st.queue)
          /\ Len(queue) \in Nat /\ Len(st.queue) \in Nat
      BY <1>5, <2>1, <2>2
    <3>2. pos \in Nat /\ Len(queue) <= MetaQueue
      BY <1>5, <2>2, <3>1, MetaAssumption DEF Event
    <3>3. ASSUME ~st.lost
          PROVE  Len(queue) = k - pos /\ Consecutive(queue, pos)
      <4>1. st.replay \o st.queue = st.queue
        BY <1>5, <2>1, ConcatEmptySeq
      <4>2. Len(st.queue) = k - st.pos /\ Consecutive(st.queue, st.pos)
        BY <1>5, <2>1, <3>3, <4>1
      <4>3. PICK from \in Nat : from = st.pos
        BY <1>5
      <4>4. /\ Head(st.queue).no = from + 1 /\ Len(Tail(st.queue)) = k - (from + 1)
            /\ Consecutive(Tail(st.queue), from + 1)
        <5>1. Len(st.queue) = k - from /\ Consecutive(st.queue, from)
          BY <4>2, <4>3
        <5> QED
          BY <1>5, <2>1, <5>1, WrittenEvent, ZenonT(40)
      <4> QED
        BY <2>2, <4>4
    <3> QED
      BY <3>1, <3>2, <3>3
  <2>5. /\ new \in StreamType /\ new.pc = "live" /\ new.queue = queue
        /\ new.replay = <<>> /\ new.pos = pos /\ new.lost = st.lost
    BY <1>3, <1>5, <2>1, <2>3, <2>4 DEF StreamType
  <2>6. StreamOK(new, k)
    <3>1. new.replay \o new.queue = queue
      BY <2>4, <2>5
    <3> QED
      BY <2>4, <2>5, <3>1 DEF StreamOK
  <2>7. mstream' = [mstream EXCEPT ![s] = new]
    BY <2>1, <2>2, <2>3
  <2> QED
    BY <1>4, <2>1, <2>6, <2>7, HandlerKeeps
<1>9. CASE MetaStreamEnd(s)
  <2>1. /\ mstream' = [mstream EXCEPT ![s] = Free]
        /\ UNCHANGED <<revision, objects, nodes, log, droppedThrough, issued, mirror>>
    BY <1>9 DEF MetaStreamEnd
  <2>2. StreamOK(Free, Len(issued))
    BY <1>1, NothingOwed
  <2> QED
    BY <2>1, <2>2, HandlerKeeps
<1> QED
  BY <1>6, <1>7, <1>8, <1>9

LEMMA WritesSound ==
  ASSUME StoreTyped(objects, nodes)
  PROVE  Writes \subseteq ObjectPatch
<1>1. Patches \subseteq ObjectPatch
  BY BodyAssumption
<1>2. ASSUME NEW p \in Patches, NEW path \in NewPaths
      PROVE  [p EXCEPT !.enums = {path}] \in ObjectPatch
  <2>1. p \in ObjectPatch /\ {path} \in SUBSET Path
    BY <1>1 DEF NewPaths, StoreTyped
  <2> QED
    BY <2>1 DEF ObjectPatch
<1> QED
  BY <1>1, <1>2 DEF Writes

\* Whatever a client writes.
LEMMA MetaWriteKeeps ==
  ASSUME MetaInv, MetaWrite
  PROVE  MetaInv'
<1>0. AreMaps(objects, nodes)
  BY DEF MetaInv, MirrorInv
<1>1. Sound(objects, nodes)
  BY DEF MetaInv, Sound
<1>2. Writes \subseteq ObjectPatch
  BY WritesSound DEF MetaInv
<1>3. NewNames \subseteq Labels \cup {BadName}
  BY BodyAssumption
<1>4. PICK m \in {Absent, 1} :
  \/ \E ref \in Refs, p \in Writes : ObjectWrite(m, ref, p)
  \/ \E ref \in Refs : ObjectDelete(m, ref)
  \/ \E ref, gone \in Refs, p \in Writes : Bulk(m, [r \in {ref} |-> p], <<gone>>)
  \/ \E e \in Enums, name \in NewNames \cup {BadName} : EnumCreate(m, e, name)
  \/ \E e \in Enums, name \in NewNames : EnumPatch(m, e, name)
  \/ \E e \in Enums, strip \in BOOLEAN : EnumDelete(m, e, strip)
  \/ \E parent \in DOMAIN nodes, id \in NodeIds, at \in {Absent, 0} :
       \E name \in NewNames : NodeCreate(m, parent[1], parent, id, name, at)
  \/ \E path \in DOMAIN nodes, parent \in DOMAIN nodes \cup {Absent} :
       \E name \in NewNames \cup {Absent}, at \in {Absent, 0, 2} :
         NodePatch(m, path, name, parent, at)
  \/ \E path \in DOMAIN nodes, strip \in BOOLEAN : NodeDelete(m, path, strip)
  BY Zenon DEF MetaWrite
<1>5. ASSUME NEW ref \in Refs, NEW p \in Writes, ObjectWrite(m, ref, p) PROVE MetaInv'
  <2>1. PICK res : res = PatchedObject(objects, nodes, ref, p)
    OBVIOUS
  <2>2. Mutate(m, res)
    BY <1>5, <2>1 DEF ObjectWrite
  <2>3. p \in ObjectPatch
    BY <1>2
  <2>4. res # Refused => Sound(res.objects, res.nodes)
    BY <1>1, <2>1, <2>3, ObjectWritten, Zenon
  <2>5. res # Refused => Tells(objects, nodes, res)
    BY <1>0, <1>1, <2>1, <2>3, ObjectWriteTells, Zenon
  <2> QED
    BY <2>2, <2>4, <2>5, MutateKeeps
<1>6. ASSUME NEW ref \in Refs, ObjectDelete(m, ref) PROVE MetaInv'
  <2>1. PICK res : res = DeletedObject(objects, nodes, ref)
    OBVIOUS
  <2>2. Mutate(m, res)
    BY <1>6, <2>1 DEF ObjectDelete
  <2>3. res # Refused => Sound(res.objects, res.nodes)
    BY <1>1, <2>1, ObjectGone, Zenon
  <2>4. res # Refused => Tells(objects, nodes, res)
    BY <1>0, <1>1, <2>1, ObjectDeleteTells, Zenon
  <2> QED
    BY <2>2, <2>3, <2>4, MutateKeeps
<1>7. ASSUME NEW ref \in Refs, NEW gone \in Refs, NEW p \in Writes,
             Bulk(m, [r \in {ref} |-> p], <<gone>>)
      PROVE  MetaInv'
  <2>1. PICK set : set = [r \in {ref} |-> p]
    OBVIOUS
  <2>2. PICK del : del = <<gone>>
    OBVIOUS
  <2>3. PICK res : res = BulkWritten(objects, nodes, set, del)
    OBVIOUS
  <2>4. Mutate(m, res)
    BY <1>7, <2>1, <2>2, <2>3, Zenon DEF Bulk
  <2>5. DOMAIN set \subseteq Refs /\ \A r \in DOMAIN set : set[r] \in ObjectPatch
    BY <1>2, <2>1
  <2>6. res # Refused => Sound(res.objects, res.nodes)
    BY <1>1, <2>3, <2>5, BulkDone, Zenon
  <2>7. res # Refused => Tells(objects, nodes, res)
    BY <1>0, <1>1, <2>3, <2>5, BulkTells, Zenon
  <2> QED
    BY <2>4, <2>6, <2>7, MutateKeeps
<1>8. ASSUME NEW e \in Enums, NEW name \in NewNames \cup {BadName}, EnumCreate(m, e, name)
      PROVE  MetaInv'
  <2>1. PICK res : res = CreatedEnum(objects, nodes, e, name)
    OBVIOUS
  <2>2. Mutate(m, res) /\ name \in Labels \cup {BadName}
    BY <1>3, <1>8, <2>1 DEF EnumCreate
  <2>3. res # Refused => Sound(res.objects, res.nodes)
    BY <1>1, <2>1, <2>2, EnumMade, Zenon
  <2>4. res # Refused => Tells(objects, nodes, res)
    BY <1>0, <1>1, <2>1, <2>2, EnumCreateTells, Zenon
  <2> QED
    BY <2>2, <2>3, <2>4, MutateKeeps
<1>9. ASSUME NEW e \in Enums, NEW name \in NewNames, EnumPatch(m, e, name) PROVE MetaInv'
  <2>1. PICK res : res = PatchedEnum(objects, nodes, e, name)
    OBVIOUS
  <2>2. Mutate(m, res) /\ name \in Labels \cup {BadName}
    BY <1>3, <1>9, <2>1 DEF EnumPatch
  <2>3. res # Refused => Sound(res.objects, res.nodes)
    BY <1>1, <2>1, <2>2, EnumRenamed, Zenon
  <2>4. res # Refused => Tells(objects, nodes, res)
    BY <1>0, <1>1, <2>1, <2>2, EnumPatchTells, Zenon
  <2> QED
    BY <2>2, <2>3, <2>4, MutateKeeps
<1>10. ASSUME NEW e \in Enums, NEW strip \in BOOLEAN, EnumDelete(m, e, strip) PROVE MetaInv'
  <2>1. PICK res : res = DeletedEnum(objects, nodes, e, strip)
    OBVIOUS
  <2>2. Mutate(m, res)
    BY <1>10, <2>1 DEF EnumDelete
  <2>3. res # Refused => Sound(res.objects, res.nodes)
    BY <1>1, <2>1, EnumGone, Zenon
  <2>4. res # Refused => Tells(objects, nodes, res)
    BY <1>0, <1>1, <2>1, EnumDeleteTells, Zenon
  <2> QED
    BY <2>2, <2>3, <2>4, MutateKeeps
<1>11. ASSUME NEW parent \in DOMAIN nodes, NEW id \in NodeIds, NEW at \in {Absent, 0},
              NEW name \in NewNames, NodeCreate(m, parent[1], parent, id, name, at)
       PROVE  MetaInv'
  <2>1. PICK res : res = CreatedNode(objects, nodes, parent[1], parent, id, name, at)
    OBVIOUS
  <2>2. Mutate(m, res) /\ name \in Labels \cup {BadName} /\ (at = Absent \/ at \in Nat)
    BY <1>3, <1>11, <2>1 DEF NodeCreate
  <2>3. res # Refused => Sound(res.objects, res.nodes)
    BY <1>1, <2>1, <2>2, NodeMade, Zenon
  <2>4. res # Refused => Tells(objects, nodes, res)
    BY <1>0, <1>1, <2>1, <2>2, NodeCreateTells, Zenon
  <2> QED
    BY <2>2, <2>3, <2>4, MutateKeeps
<1>12. ASSUME NEW path \in DOMAIN nodes, NEW parent \in DOMAIN nodes \cup {Absent},
              NEW name \in NewNames \cup {Absent}, NEW at \in {Absent, 0, 2},
              NodePatch(m, path, name, parent, at)
       PROVE  MetaInv'
  <2>1. PICK res : res = PatchedNode(objects, nodes, path, name, parent, at)
    OBVIOUS
  <2>2. Mutate(m, res) /\ name \in Labels \cup {BadName, Absent} /\ (at = Absent \/ at \in Nat)
    BY <1>3, <1>12, <2>1 DEF NodePatch
  <2>3. res # Refused => Sound(res.objects, res.nodes)
    BY <1>1, <2>1, <2>2, NodePatched, Zenon
  <2>4. res # Refused => Tells(objects, nodes, res)
    BY <1>0, <1>1, <2>1, <2>2, NodePatchTells, Zenon
  <2> QED
    BY <2>2, <2>3, <2>4, MutateKeeps
<1>13. ASSUME NEW path \in DOMAIN nodes, NEW strip \in BOOLEAN, NodeDelete(m, path, strip)
       PROVE  MetaInv'
  <2>1. PICK res : res = DeletedNode(objects, nodes, path, strip)
    OBVIOUS
  <2>2. Mutate(m, res)
    BY <1>13, <2>1 DEF NodeDelete
  <2>3. res # Refused => Sound(res.objects, res.nodes)
    BY <1>1, <2>1, NodeGone, Zenon
  <2>4. res # Refused => Tells(objects, nodes, res)
    BY <1>0, <1>1, <2>1, NodeDeleteTells, Zenon
  <2> QED
    BY <2>2, <2>3, <2>4, MutateKeeps
<1> QED
  BY <1>4, <1>5, <1>6, <1>7, <1>8, <1>9, <1>10, <1>11, <1>12, <1>13, Zenon

LEMMA MetaCallKeeps ==
  ASSUME MetaInv, MetaCall
  PROVE  MetaInv'
<1>0. AreMaps(objects, nodes)
  BY DEF MetaInv, MirrorInv
<1>1. CASE MetaWrite
  BY <1>1, MetaWriteKeeps
<1>2. ASSUME NEW ref \in Refs, NEW flag \in BOOLEAN, SetOrphaned(ref, flag) PROVE MetaInv'
  <2>1. PICK res : res = OrphanedObject(objects, nodes, ref, flag)
    OBVIOUS
  <2>2. Mutate(Absent, res) /\ Sound(objects, nodes)
    BY <1>2, <2>1 DEF SetOrphaned, MetaInv, Sound
  <2>3. res # Refused => Sound(res.objects, res.nodes)
    BY <2>1, <2>2, ObjectOrphaned, Zenon
  <2>4. res # Refused => Tells(objects, nodes, res)
    BY <1>0, <2>1, <2>2, OrphanedTells, Zenon
  <2> QED
    BY <2>2, <2>3, <2>4, MutateKeeps
<1>3. ASSUME NEW doc \in Documents, Seed(doc) PROVE MetaInv'
  BY <1>3, SeedKeeps
<1>4. ASSUME NEW s \in MetaStreams, NEW since \in {Absent} \cup (-1 .. revision + 1),
             MetaAttach(s, since)
      PROVE  MetaInv'
  <2>1. revision \in Nat
    BY DEF MetaInv, LogInv
  <2>2. since = Absent \/ since \in Int
    BY <2>1
  <2> QED
    BY <1>4, <2>2, AttachKeeps
<1> QED
  BY <1>1, <1>2, <1>3, <1>4, Zenon DEF MetaCall

\* The store and its streams as they were.
LEMMA MetaStays ==
  ASSUME MetaInv, UNCHANGED metaVars
  PROVE  MetaInv'
BY DEF MetaInv, LogInv, StreamInv, MirrorInv, RevisionsInv, metaVars

LEMMA MetaInvStep ==
  ASSUME MetaInv, [Next]_vars
  PROVE  MetaInv'
<1>1. CASE MetaCall
  BY <1>1, MetaCallKeeps
<1>2. CASE MetaRun
  BY <1>2, WriteKeeps DEF MetaRun, MetaStreamStep
<1>3. CASE RestartRest
  BY <1>3, RestartKeeps DEF RestartRest
<1>4. CASE BoxCall
  <2>1. MetaDropStreams \/ UNCHANGED metaVars
    BY <1>4 DEF BoxCall, SetReady, Close
  <2> QED
    BY <2>1, DropStreamsKeeps, MetaStays
<1>5. CASE PairCall \/ PairRun \/ SeedCall \/ SeedRun \/ ProxyCall \/ ProxyRun \/ SysCall
  <2>1. UNCHANGED metaVars
    BY <1>5, Zenon DEF PairCall, PairRun, SeedCall, SeedRun, ProxyCall, ProxyRun, SysCall
  <2> QED
    BY <2>1, MetaStays
<1>6. CASE UNCHANGED vars
  <2>1. UNCHANGED metaVars
    BY <1>6 DEF vars
  <2> QED
    BY <2>1, MetaStays
<1> QED
  BY <1>1, <1>2, <1>3, <1>4, <1>5, <1>6 DEF Next

LEMMA MetaInvInit == Init => MetaInv
<1> SUFFICES ASSUME Init PROVE MetaInv
  OBVIOUS
<1>1. PICK doc \in Documents :
      /\ revision = doc.revision /\ objects = doc.objects /\ nodes = doc.nodes
      /\ mirror = Replica(doc.objects, doc.nodes)
  BY DEF Init, MetaInit, Replica
<1>2. log = <<>> /\ droppedThrough = revision /\ issued = <<>>
      /\ mstream = [s \in MetaStreams |-> Free]
  BY DEF Init, MetaInit
<1>3. /\ StoreTyped(objects, nodes) /\ StoreIntegral(objects, nodes) /\ revision \in Nat
      /\ LogMax \in Nat
  BY <1>1, MetaAssumption
<1>4. LogInv
  <2>1. /\ <<>> \in Seq(Event) /\ <<>> \in Seq(0 .. revision) /\ Len(<<>>) = 0
        /\ DOMAIN <<>> = {} /\ 1 .. 0 - 0 = {}
    OBVIOUS
  <2> QED
    BY <1>2, <1>3, <2>1 DEF LogInv
<1>5. StreamOK(Free, Len(issued))
  BY <1>4, NothingOwed
<1>6. StreamInv
  BY <1>2, <1>5 DEF StreamInv
<1>7. MirrorInv
  <2>1. RevisionsInv
    BY <1>2, <1>3 DEF RevisionsInv
  <2>2. AreMaps(doc.objects, doc.nodes)
    BY MetaAssumption DEF AreMaps
  <2> QED
    BY <1>1, <2>1, <2>2 DEF MirrorInv
<1> QED
  BY <1>3, <1>4, <1>6, <1>7 DEF MetaInv

LEMMA MetaInvAlways == Spec => []MetaInv
BY MetaInvInit, MetaInvStep, PTL DEF Spec

-----------------------------------------------------------------------------
(* The theorems                                                            *)

\* Whatever mutations, documents, restarts and streams come in whatever order,
\* and however many objects and nodes there are: every path an object holds
\* names a node, every node is listed by its parent exactly once and by nobody
\* else, and no tree outgrows the limit (patchNode, deleteNode, membersCheck).
THEOREM StoreStaysIntegral == Spec => []MetaIntegrity
<1>1. MetaInv => MetaIntegrity
  BY DEF MetaInv, MetaIntegrity
<1> QED
  BY <1>1, MetaInvAlways, PTL

\* Whatever a transaction did to objects and trees, its events say it: a replica
\* that applies all of them has the objects and the labelled paths of the store,
\* and every revision a client can resume at has an event, for every set of
\* names and every order in which the objects of a bulk are told (mutate,
\* objectEvents, patchNode's move and update).
THEOREM EventsTellEverything == Spec => []EventsTellAll
<1>1. MetaInv => EventsTellAll
  BY DEF MetaInv, MirrorInv, Replica, RevisionsInv, EventsTellAll
<1> QED
  BY <1>1, MetaInvAlways, PTL

\* A metadata stream owes its client every event after its position exactly
\* once and in order unless its queue has overflowed, for every length of the
\* log and of the queue, also when the log was cut inside a revision: what
\* attachMeta replays and what broadcast queues meet without gap or overlap.
THEOREM StreamsAreOwed == Spec => []StreamOwed
<1>1. MetaInv => StreamOwed
  <2> SUFFICES ASSUME MetaInv, NEW s \in Subs, ~mstream[s].lost
               PROVE  LET owed == mstream[s].replay \o mstream[s].queue IN
                      /\ Len(owed) = Len(issued) - mstream[s].pos
                      /\ \A i \in DOMAIN owed : owed[i].no = mstream[s].pos + i
    BY DEF StreamOwed
  <2>1. s \in MetaStreams /\ mstream[s].pc # "free"
    BY DEF Subs
  <2> QED
    BY <2>1 DEF MetaInv, StreamInv, StreamOK, Consecutive
<1> QED
  BY <1>1, MetaInvAlways, PTL

\* Every part of the box keeps its type; the log and a stream's queue stay
\* within their bounds (trimLocked, broadcast), and sessions, polls, values,
\* calls, groups, releases and archives come from where they are taken.
THEOREM BoxStaysTyped == Spec => []LiteTypeOK
<1>1. MetaInv /\ PairInv /\ PartsInv /\ GroupInv => LiteTypeOK
  <2> SUFFICES ASSUME MetaInv, PairInv, PartsInv, GroupInv PROVE LiteTypeOK
    OBVIOUS
  <2>1. MetaTypeOK
    BY DEF MetaInv, LogInv, StreamInv, StreamOK, MetaTypeOK
  <2>2. Range(applied) \subseteq uploads
    BY DEF PartsInv, Range
  <2> QED
    BY <2>1, <2>2 DEF LiteTypeOK, PairInv, PartsInv, OnItsWay, GroupInv
<1> QED
  BY <1>1, MetaInvAlways, PairAlways, PartsAlways, GroupAlways, PTL
=============================================================================
