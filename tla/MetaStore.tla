----------------------------- MODULE MetaStore -----------------------------
(***************************************************************************)
(* The metadata store of pkg/litefake (meta.go) and its change stream      *)
(* (metastream.go): objects and enum trees changed by atomic mutations     *)
(* that share one revision counter, a bounded log of change events, and    *)
(* the streams that replay the log and then follow it live.                *)
(*                                                                         *)
(* Every mutation and every attach is one step, as the store's lock makes  *)
(* it; every frame a stream writes is a step.  A request that is refused   *)
(* (a 4xx answer) or changes nothing (304) leaves the store alone and is   *)
(* not a step.  A node is named by its full path, a sequence that starts   *)
(* with its enum; name and icon of a node are one label, the paths of an   *)
(* object are a set (no handler looks at their order), and metadata is the *)
(* set of namespaces that have a value.  Bodies are decoded already; the   *)
(* deliberate deviations of deviate.go are switched off.                   *)
(***************************************************************************)
EXTENDS Integers, Sequences, FiniteSets, SequencesExt, Functions

CONSTANTS
  Refs,         \* object refs
  Enums,        \* enum ids
  NodeIds,      \* node ids
  Labels,       \* valid names (with the icon, for a node)
  BadName,      \* a name cleanName refuses
  Namespaces,   \* metadata namespaces
  MetaRoom,     \* namespaces that fit into metaMaxMetaBytes
  MaxDepth,     \* metaMaxDepth
  LogMax,       \* metaStore.logMax
  MetaQueue,    \* metaStore.queue
  MetaStreams,  \* slots for open change streams
  Documents,    \* documents a test seeds, as [revision, objects, nodes]
  Absent        \* a member the request does not carry

VARIABLES
  revision,        \* metaStore.revision
  objects,         \* metaState.objects
  nodes,           \* metaState.enums: path |-> [label, kids]
  log,             \* metaStore.log
  droppedThrough,  \* metaStore.droppedThrough
  mstream,         \* metaStore.subs and their handlers
  issued,          \* history: the revision of every event ever published
  mirror           \* history: what applying every event leads to

metaVars == <<revision, objects, nodes, log, droppedThrough, mstream, issued,
              mirror>>

\* The function f with v at k.
With(f, k, v) == [x \in {k} \cup DOMAIN f |-> IF x = k THEN v ELSE f[x]]

Refused == [refused |-> TRUE]   \* a transaction that failed

Free == [pc |-> "free", queue |-> <<>>, killed |-> FALSE, replay |-> <<>>,
         resync |-> FALSE, pos |-> 0, lost |-> FALSE]

-----------------------------------------------------------------------------
(* Trees and paths                                                         *)

ValidName(name) == name # BadName

\* hasPath.
HasPath(ns, path) == Len(path) > 1 /\ path \in DOMAIN ns

Below(ns, path) == {p \in DOMAIN ns : IsPrefix(path, p)}

SubtreeDepth(ns, path) ==
  LET lengths == {Len(p) - Len(path) + 1 : p \in Below(ns, path)}
  IN CHOOSE d \in lengths : \A e \in lengths : e <= d

\* objectsUnder.
ObjectsUnder(os, path) ==
  {ref \in DOMAIN os : \E p \in os[ref].enums : IsPrefix(path, p)}

Renamed(p, from, to) ==
  IF IsPrefix(from, p) THEN to \o SubSeq(p, Len(from) + 1, Len(p)) ELSE p

\* Mutation: only the path itself is rewritten, not the paths below it.
RewritePathsShallow(os, from, to) ==
  [ref \in DOMAIN os |-> [os[ref] EXCEPT !.enums =
     {IF p = from THEN to ELSE p : p \in @}]]

\* rewritePaths with a new prefix.
RewritePaths(os, from, to) ==
  [ref \in DOMAIN os |-> [os[ref] EXCEPT !.enums = {Renamed(p, from, to) : p \in @}]]

\* rewritePaths with to == "": the matching paths go.
StripPaths(os, from) ==
  [ref \in DOMAIN os |-> [os[ref] EXCEPT !.enums = {p \in @ : ~IsPrefix(from, p)}]]

\* insertAt; at counts from 0 and is clamped to the list.
Inserted(kids, id, at) ==
  LET i == IF at = Absent \/ at > Len(kids) THEN Len(kids) ELSE at
  IN InsertAt(kids, i + 1, id)

\* The tree after the node at from, with all below it, becomes to.
Relocate(ns, from, to) ==
  [q \in {Renamed(p, from, to) : p \in DOMAIN ns} |->
     ns[CHOOSE p \in DOMAIN ns : Renamed(p, from, to) = q]]

Parent(path) == Front(path)

\* findNode: where a node is among its siblings.
IndexOf(ns, path) ==
  CHOOSE i \in DOMAIN ns[Parent(path)].kids : ns[Parent(path)].kids[i] = Last(path)

Done(os, ns, evs) == [objects |-> os, nodes |-> ns, events |-> evs]

-----------------------------------------------------------------------------
(* What a store is                                                         *)

Path == Seq(Enums \cup NodeIds)

Object == [name : Labels, enums : SUBSET Path, meta : SUBSET Namespaces,
           orphaned : BOOLEAN]

\* objectPatch: hasMeta says that the body carries metadata; null lists the
\* namespaces whose value it sets to null.
ObjectPatch == [name : Labels \cup {BadName, Absent}, enums : {Absent} \cup SUBSET Path,
                hasMeta : BOOLEAN, put : SUBSET Namespaces, null : SUBSET Namespaces,
                replace : BOOLEAN]

StoreTyped(os, ns) ==
  /\ DOMAIN os \subseteq Refs
  /\ \A ref \in DOMAIN os : os[ref] \in Object
  /\ DOMAIN ns \subseteq Path \ {<<>>}
  /\ \A p \in DOMAIN ns : ns[p] \in [label : Labels, kids : Seq(NodeIds)]

\* Every path an object holds names a node, every node is listed by its parent
\* exactly once and by nobody else, and no tree is deeper than the limit.
StoreIntegral(os, ns) ==
  /\ \A ref \in DOMAIN os : \A p \in os[ref].enums : HasPath(ns, p)
  /\ \A p \in DOMAIN ns :
       /\ IsInjective(ns[p].kids)
       /\ \A id \in Range(ns[p].kids) : Append(p, id) \in DOMAIN ns
       /\ Len(p) > 1 => Parent(p) \in DOMAIN ns /\ Last(p) \in Range(ns[Parent(p)].kids)
       /\ Len(p) - 1 <= MaxDepth

\* A document that a test seeds is one that a store could have written.
ASSUME MetaAssumption ==
  /\ IsFiniteSet(Refs)
  /\ MaxDepth \in Nat /\ LogMax \in Nat /\ MetaQueue \in Nat
  /\ \A doc \in Documents :
       /\ doc.revision \in Nat
       /\ StoreTyped(doc.objects, doc.nodes)
       /\ StoreIntegral(doc.objects, doc.nodes)
       /\ doc.objects = [ref \in DOMAIN doc.objects |-> doc.objects[ref]]
       /\ doc.nodes = [p \in DOMAIN doc.nodes |-> doc.nodes[p]]

-----------------------------------------------------------------------------
(* Transactions: from objects os and trees ns to Done(...) or Refused      *)

\* patchObject; the size of the metadata counts when the body carries some.
PatchedObject(os, ns, ref, p) ==
  LET old  == IF ref \in DOMAIN os THEN os[ref]
              ELSE [name |-> Absent, enums |-> {}, meta |-> {}, orphaned |-> FALSE]
      base == IF p.replace THEN [old EXCEPT !.enums = {}, !.meta = {}] ELSE old
      meta == IF p.hasMeta THEN (base.meta \cup p.put) \ p.null ELSE base.meta
  IN
  IF \/ ref \notin DOMAIN os /\ p.name = Absent
     \/ p.name # Absent /\ ~ValidName(p.name)
     \/ p.enums # Absent /\ \E path \in p.enums : ~HasPath(ns, path)
     \/ p.hasMeta /\ Cardinality(meta) > MetaRoom
  THEN Refused
  ELSE Done(With(os, ref, [base EXCEPT
              !.name = IF p.name = Absent THEN @ ELSE p.name,
              !.enums = IF p.enums = Absent THEN @ ELSE p.enums,
              !.meta = meta]), ns, <<>>)

\* deleteObject.
DeletedObject(os, ns, ref) ==
  IF ref \notin DOMAIN os THEN Refused
  ELSE Done(Restrict(os, DOMAIN os \ {ref}), ns, <<>>)

\* setOrphaned.
OrphanedObject(os, ns, ref, orphaned) ==
  IF ref \notin DOMAIN os THEN Refused
  ELSE Done([os EXCEPT ![ref].orphaned = orphaned], ns, <<>>)

\* The transaction of a bulk request: the patches, which are of different
\* objects, then the deletions one after the other, each of an object that is
\* still there; one refusal refuses them all.
BulkWritten(os, ns, set, del) ==
  LET patched == [ref \in DOMAIN set |-> PatchedObject(os, ns, ref, set[ref])]
      all     == DOMAIN os \cup DOMAIN set
  IN
  IF \/ \E ref \in DOMAIN set : patched[ref] = Refused
     \/ ~(Range(del) \subseteq all /\ IsInjective(del))
  THEN Refused
  ELSE Done([ref \in all \ Range(del) |->
               IF ref \in DOMAIN set THEN patched[ref].objects[ref] ELSE os[ref]],
            ns, <<>>)

\* createEnum.
CreatedEnum(os, ns, enum, name) ==
  IF <<enum>> \in DOMAIN ns \/ ~ValidName(name) THEN Refused
  ELSE Done(os, With(ns, <<enum>>, [label |-> name, kids |-> <<>>]),
            <<[kind |-> "enum.created", path |-> <<enum>>, label |-> name]>>)

\* patchEnum; the same name again is no change.
PatchedEnum(os, ns, enum, name) ==
  IF <<enum>> \notin DOMAIN ns \/ ~ValidName(name) THEN Refused
  ELSE Done(os, [ns EXCEPT ![<<enum>>].label = name],
            <<[kind |-> "enum.updated", path |-> <<enum>>, label |-> name]>>)

\* Mutation: a removal looks at the objects that hold the path itself only.
MembersCheckExact(os, path, detach) ==
  IF {ref \in DOMAIN os : path \in os[ref].enums} = {} THEN os
  ELSE IF detach THEN StripPaths(os, path) ELSE Refused

\* membersCheck: the objects after path loses its members, or Refused.
MembersCheck(os, path, detach) ==
  IF ObjectsUnder(os, path) = {} THEN os
  ELSE IF detach THEN StripPaths(os, path) ELSE Refused

\* deleteEnum.
DeletedEnum(os, ns, enum, detach) ==
  LET kept == MembersCheck(os, <<enum>>, detach) IN
  IF <<enum>> \notin DOMAIN ns \/ kept = Refused THEN Refused
  ELSE Done(kept, Restrict(ns, DOMAIN ns \ Below(ns, <<enum>>)),
            <<[kind |-> "enum.deleted", path |-> <<enum>>]>>)

\* parentIDs: a parent that a node of the enum may have.
ParentOK(ns, enum, parent) == parent \in DOMAIN ns /\ parent[1] = enum

\* createNode.
CreatedNode(os, ns, enum, parent, id, name, at) ==
  IF \/ ~ParentOK(ns, enum, parent)
     \/ ~ValidName(name)
     \/ Len(parent) > MaxDepth
     \/ id \in Range(ns[parent].kids)
  THEN Refused
  ELSE Done(os,
            With([ns EXCEPT ![parent].kids = Inserted(@, id, at)],
                 Append(parent, id), [label |-> name, kids |-> <<>>]),
            <<[kind |-> "node.created", path |-> Append(parent, id), label |-> name]>>)

\* Mutation: a move tests the depth of the node alone, not of its subtree.
TooDeepNode(ns, path, parent) == Len(parent) > MaxDepth

\* The depth limit of a move.
TooDeep(ns, path, parent) == Len(parent) - 1 + SubtreeDepth(ns, path) > MaxDepth

\* patchNode: a new label, a new parent, a new position, or several at once.
PatchedNode(os, ns, path, name, parent, at) ==
  LET id     == Last(path)
      owner  == Parent(path)
      to     == IF parent = Absent THEN owner ELSE parent
      target == Append(to, id)
      moved  == target # path
      index  == IndexOf(ns, path)
      label  == IF name = Absent THEN ns[path].label ELSE name
      named  == [ns EXCEPT ![path].label = label]
      left   == [named EXCEPT ![owner].kids = RemoveAt(@, index)]
      placed == [left EXCEPT ![to].kids =
                   Inserted(@, id, IF at = Absent THEN index - 1 ELSE at)]
      updated == label # ns[path].label \/ (~moved /\ at \notin {Absent, index - 1})
      movedEv == [kind |-> "node.moved", from |-> path, to |-> target]
      patched == [kind |-> "node.updated", path |-> target, label |-> label]
  IN
  IF \/ ~HasPath(ns, path)
     \/ name # Absent /\ ~ValidName(name)
     \/ ~ParentOK(ns, path[1], to)
     \/ moved /\ IsPrefix(path, target)
     \/ moved /\ TooDeep(ns, path, to)
     \/ moved /\ id \in Range(ns[to].kids)
  THEN Refused
  ELSE Done(IF moved THEN RewritePaths(os, path, target) ELSE os,
            IF moved THEN Relocate(placed, path, target)
            ELSE IF at # Absent THEN placed ELSE named,
            (IF moved THEN <<movedEv>> ELSE <<>>) \o
            (IF updated THEN <<patched>> ELSE <<>>))

\* deleteNode: the node goes with its subtree.
DeletedNode(os, ns, path, detach) ==
  LET kept == MembersCheck(os, path, detach) IN
  IF ~HasPath(ns, path) \/ kept = Refused THEN Refused
  ELSE Done(kept,
            Restrict([ns EXCEPT ![Parent(path)].kids = RemoveAt(@, IndexOf(ns, path))],
                     DOMAIN ns \ Below(ns, path)),
            <<[kind |-> "node.deleted", path |-> path]>>)

-----------------------------------------------------------------------------
(* What the events tell                                                    *)

\* The trees without the order of siblings, which no event carries.
Flat(ns) == [p \in DOMAIN ns |-> ns[p].label]

\* A replica after one event.
Applied(rep, ev) ==
  CASE ev.kind = "object.updated" ->
         [rep EXCEPT !.objects = With(@, ev.ref, ev.value)]
    [] ev.kind = "object.deleted" ->
         [rep EXCEPT !.objects = Restrict(@, DOMAIN @ \ {ev.ref})]
    [] ev.kind \in {"enum.created", "enum.updated", "node.created", "node.updated"} ->
         [rep EXCEPT !.labels = With(@, ev.path, ev.label)]
    [] ev.kind \in {"enum.deleted", "node.deleted"} ->
         [rep EXCEPT !.labels = Restrict(@, DOMAIN @ \ Below(@, ev.path))]
    [] ev.kind = "node.moved" ->
         [rep EXCEPT !.labels = Relocate(@, ev.from, ev.to)]

\* A replica after the events evs, one after the other.
AfterEvents(rep, evs) ==
  LET reps[i \in 0 .. Len(evs)] ==
        IF i = 0 THEN rep ELSE Applied(reps[i - 1], evs[i])
  IN reps[Len(evs)]

\* Mutation: only objects that still exist are compared.
ObjectEventsKept(before, after) ==
  LET differ == {ref \in DOMAIN after :
                   ref \notin DOMAIN before \/ before[ref] # after[ref]}
  IN [i \in 1 .. Cardinality(differ) |->
        LET ref == SetToSeq(differ)[i] IN
        [kind |-> "object.updated", ref |-> ref, value |-> after[ref]]]

\* objectEvents: one event for every object that differs.
ObjectEvents(before, after) ==
  LET differ == {ref \in DOMAIN before \cup DOMAIN after :
                   ~(/\ ref \in DOMAIN before \cap DOMAIN after
                     /\ before[ref] = after[ref])}
  IN [i \in 1 .. Cardinality(differ) |->
        LET ref == SetToSeq(differ)[i] IN
        IF ref \in DOMAIN after
        THEN [kind |-> "object.updated", ref |-> ref, value |-> after[ref]]
        ELSE [kind |-> "object.deleted", ref |-> ref]]

-----------------------------------------------------------------------------
(* The log and its streams                                                 *)

Subs == {s \in MetaStreams : mstream[s].pc # "free"}

\* The n events that revision rev publishes, by their number.
Fresh(n, rev) == [i \in 1 .. n |-> [no |-> Len(issued) + i, revision |-> rev]]

\* The logged events after revision since.  The log is in the order of the
\* revisions, so they are the suffix that attachMeta's loop filters out
\* (ReplayOwed of MetaProofs).
LogAfter(since) ==
  SubSeq(log, 1 + Cardinality({i \in DOMAIN log : log[i].revision <= since}), Len(log))

\* Mutation: a stream's queue has no limit.
OfferedAll(st, evs) == [st EXCEPT !.queue = @ \o evs]

\* What a stream's queue takes of the events; it loses the rest silently.
Offered(st, evs) ==
  LET room == MetaQueue - Len(st.queue) IN
  [st EXCEPT !.queue = @ \o SubSeq(evs, 1, IF room < Len(evs) THEN room ELSE Len(evs)),
             !.lost  = @ \/ Len(evs) > room]

\* Mutation: what is trimmed off the log is not remembered.
TrimmedThroughForgotten(full, over) == droppedThrough

\* The newest revision that is no longer complete once the first over events
\* of the log have been dropped.
TrimmedThrough(full, over) ==
  LET revs == {droppedThrough} \cup {full[i].revision : i \in 1 .. over}
  IN CHOOSE r \in revs : \A q \in revs : q <= r

\* publishLocked.
PublishMeta(n, rev) ==
  LET full == log \o Fresh(n, rev)
      over == IF Len(full) > LogMax THEN Len(full) - LogMax ELSE 0
  IN
  /\ log' = SubSeq(full, over + 1, Len(full))
  /\ droppedThrough' = TrimmedThrough(full, over)
  /\ mstream' = [s \in MetaStreams |->
       IF s \in Subs THEN Offered(mstream[s], Fresh(n, rev)) ELSE mstream[s]]
  /\ issued' = issued \o [i \in 1 .. n |-> rev]

\* mutate: the transaction's result is committed under a new revision unless
\* it failed, changed nothing, or asked for another revision.
Mutate(ifMatch, res) ==
  /\ ifMatch \in {Absent, revision}
  /\ res # Refused
  /\ <<res.objects, res.nodes>> # <<objects, nodes>>
  /\ LET evs == res.events \o ObjectEvents(objects, res.objects) IN
     /\ PublishMeta(Len(evs), revision + 1)
     /\ mirror' = AfterEvents(mirror, evs)
  /\ revision' = revision + 1
  /\ objects' = res.objects
  /\ nodes' = res.nodes

ObjectWrite(m, ref, p)  == Mutate(m, PatchedObject(objects, nodes, ref, p))
ObjectDelete(m, ref)    == Mutate(m, DeletedObject(objects, nodes, ref))
Bulk(m, set, del)       == Mutate(m, BulkWritten(objects, nodes, set, del))
EnumCreate(m, e, name)  == Mutate(m, CreatedEnum(objects, nodes, e, name))
EnumPatch(m, e, name)   == Mutate(m, PatchedEnum(objects, nodes, e, name))
EnumDelete(m, e, strip) == Mutate(m, DeletedEnum(objects, nodes, e, strip))
NodeCreate(m, e, parent, id, name, at) ==
  Mutate(m, CreatedNode(objects, nodes, e, parent, id, name, at))
NodePatch(m, path, name, parent, at) ==
  Mutate(m, PatchedNode(objects, nodes, path, name, parent, at))
NodeDelete(m, path, strip) == Mutate(m, DeletedNode(objects, nodes, path, strip))

\* The test handle's SetOrphaned; its other operations are the ones above.
SetOrphaned(ref, orphaned) ==
  Mutate(Absent, OrphanedObject(objects, nodes, ref, orphaned))

\* Seed: one import event, upon which a replica takes a new snapshot.
Seed(doc) ==
  /\ objects' = doc.objects
  /\ nodes' = doc.nodes
  /\ revision' = revision + 1
  /\ PublishMeta(1, revision + 1)
  /\ mirror' = [objects |-> doc.objects, labels |-> Flat(doc.nodes)]

KillAllMeta(st) == [s \in MetaStreams |->
  IF st[s].pc # "free" THEN [st[s] EXCEPT !.killed = TRUE] ELSE st[s]]

\* restart of the metadata store: the log goes, the store stays.
MetaRestart ==
  /\ log' = <<>>
  /\ droppedThrough' = revision
  /\ mstream' = KillAllMeta(mstream)
  /\ UNCHANGED <<revision, objects, nodes, issued, mirror>>

\* dropStreams of the metadata store.
MetaDropStreams ==
  /\ mstream' = KillAllMeta(mstream)
  /\ UNCHANGED <<revision, objects, nodes, log, droppedThrough, issued, mirror>>

\* The positions attachMeta answers with a resync.
SinceRefused(since) == since \notin 0 .. revision \/ since < droppedThrough

\* attachMeta for a client that has everything through revision since, or
\* sends none (Absent).  What is not a number counts as -1.
MetaAttach(s, since) ==
  LET resume == since # Absent /\ ~SinceRefused(since) IN
  /\ mstream[s].pc = "free"
  /\ mstream' = [mstream EXCEPT ![s] =
       [Free EXCEPT
          !.pc = "open",
          !.replay = IF resume THEN LogAfter(since) ELSE <<>>,
          !.resync = since # Absent /\ ~resume,
          !.pos = IF resume
                  THEN Cardinality({n \in DOMAIN issued : issued[n] <= since})
                  ELSE Len(issued)]]
  /\ UNCHANGED <<revision, objects, nodes, log, droppedThrough, issued, mirror>>

\* The comment that opens the stream, and the resync frame if one is due.
MetaWriteOpening(s) ==
  /\ mstream[s].pc = "open"
  /\ mstream' = [mstream EXCEPT ![s].pc = "replay", ![s].resync = FALSE]
  /\ UNCHANGED <<revision, objects, nodes, log, droppedThrough, issued, mirror>>

MetaWriteReplay(s) ==
  /\ mstream[s].pc = "replay"
  /\ mstream' = [mstream EXCEPT ![s] =
       IF @.replay = <<>> THEN [@ EXCEPT !.pc = "live"]
       ELSE [@ EXCEPT !.pos = Head(mstream[s].replay).no,
                      !.replay = Tail(mstream[s].replay)]]
  /\ UNCHANGED <<revision, objects, nodes, log, droppedThrough, issued, mirror>>

MetaWriteLive(s) ==
  /\ mstream[s].pc = "live"
  /\ mstream[s].queue # <<>>
  /\ mstream' = [mstream EXCEPT ![s].pos = Head(mstream[s].queue).no,
                                ![s].queue = Tail(@)]
  /\ UNCHANGED <<revision, objects, nodes, log, droppedThrough, issued, mirror>>

\* The handler returns: a write fails, or, once live, it sees the request end,
\* the fake close or the kill channel closed.
MetaStreamEnd(s) ==
  /\ mstream[s].pc # "free"
  /\ mstream' = [mstream EXCEPT ![s] = Free]
  /\ UNCHANGED <<revision, objects, nodes, log, droppedThrough, issued, mirror>>

-----------------------------------------------------------------------------
\* newMetaStore with a document: its revision is taken over without an event.
MetaInit ==
  /\ \E doc \in Documents :
       /\ revision = doc.revision
       /\ objects = doc.objects
       /\ nodes = doc.nodes
       /\ mirror = [objects |-> doc.objects, labels |-> Flat(doc.nodes)]
  /\ log = <<>>
  /\ droppedThrough = revision
  /\ mstream = [s \in MetaStreams |-> Free]
  /\ issued = <<>>

MetaStreamStep ==
  \E s \in MetaStreams :
    MetaWriteOpening(s) \/ MetaWriteReplay(s) \/ MetaWriteLive(s) \/ MetaStreamEnd(s)

-----------------------------------------------------------------------------
(* Properties                                                              *)

\* The store and its streams have their types.
MetaTypeOK ==
  /\ revision \in Nat
  /\ StoreTyped(objects, nodes)
  /\ droppedThrough \in 0 .. revision
  /\ Len(log) <= LogMax
  /\ \A s \in MetaStreams : Len(mstream[s].queue) <= MetaQueue

\* Whatever mutations succeed, in any order: every path an object holds names a
\* node, every node is listed by its parent exactly once and by nobody else,
\* and no tree is deeper than the limit (patchNode, deleteNode, membersCheck).
MetaIntegrity == StoreIntegral(objects, nodes)

\* The events a mutation publishes say everything that it did: a replica that
\* applies all of them has the objects and the tree of the store, up to the
\* order of siblings, and every revision has at least one event.
EventsTellAll ==
  /\ mirror.objects = objects
  /\ mirror.labels = Flat(nodes)
  /\ \A r \in 1 .. revision : r > droppedThrough => r \in Range(issued)

\* A stream owes its client every event after the client's position exactly
\* once and in order, across replay and live queue, unless its queue has lost
\* one; so droppedThrough is never too small, also when the log was trimmed in
\* the middle of a revision.
StreamOwed ==
  \A s \in Subs : ~mstream[s].lost =>
    LET owed == mstream[s].replay \o mstream[s].queue IN
    /\ Len(owed) = Len(issued) - mstream[s].pos
    /\ \A i \in DOMAIN owed : owed[i].no = mstream[s].pos + i
=============================================================================
