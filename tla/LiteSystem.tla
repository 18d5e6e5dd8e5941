----------------------------- MODULE LiteSystem -----------------------------
(***************************************************************************)
(* The system API of the fake box of pkg/litefake as far as it keeps       *)
(* state: heating groups (groups.go), the release feed with the staged     *)
(* update, and backup and restore (system.go).  Every handler is one step  *)
(* under its lock.  The documents that a test sets and the API only        *)
(* repeats are left out.  The members of a group are a set: no answer      *)
(* depends on their order, which is the client's.                          *)
(***************************************************************************)
EXTENDS Integers, Sequences, FiniteSets, SequencesExt, Functions

CONSTANTS
  GroupTypes,   \* groupTypes
  Channels,     \* channel addresses
  Candidates,   \* groupStore.candidates: the channels each type can take
  Releases,     \* releases the feed may offer
  NoRelease,
  MaxGroups,    \* bound: groups ever made
  MaxUploads    \* bound: archives checked

VARIABLES
  next,         \* groupStore.next
  groups,       \* groupStore.groups
  available,    \* systemState.available
  staged,       \* systemState.staged
  uploads,      \* systemState.uploads, the numbers in their names
  applied,      \* systemState.applied
  backupRuns,   \* systemState.backupRuns
  formerGroups, \* history: numbers of groups that have been deleted
  offered       \* history: releases the feed has ever offered

sysVars == <<next, groups, available, staged, uploads, applied, backupRuns,
             formerGroups, offered>>

\* take: a box drops what the type cannot take without an error.
Take(type, ids) == ids \cap Candidates[type]

\* split: the candidates that a group of the type other than own holds, and
\* those that no group of the type holds; the members of own are in neither.
Split(type, own) ==
  LET held(gs) == UNION {groups[g].members : g \in gs}
      same  == {g \in DOMAIN groups : groups[g].type = type}
      mine  == held(same \cap own)
      taken == held(same \ own)
  IN [leftover   |-> (Candidates[type] \cap taken) \ mine,
      assignable |-> Candidates[type] \ (taken \cup mine)]

\* Mutation: a group is numbered after the groups there are.
NextByCount == Cardinality(DOMAIN groups) + 1

NextGroup == next + 1

\* handleGroupCreate.
GroupCreate(type, ids) ==
  /\ next < MaxGroups
  /\ next' = next + 1
  /\ groups' = [g \in {NextGroup} \cup DOMAIN groups |->
                  IF g = NextGroup THEN [type |-> type, members |-> Take(type, ids)]
                  ELSE groups[g]]
  /\ UNCHANGED <<available, staged, uploads, applied, backupRuns, formerGroups, offered>>

\* handleGroupUpdate with members, which replace the whole list.
GroupUpdate(g, ids) ==
  /\ g \in DOMAIN groups
  /\ groups' = [groups EXCEPT ![g].members = Take(groups[g].type, ids)]
  /\ UNCHANGED <<next, available, staged, uploads, applied, backupRuns, formerGroups, offered>>

\* handleGroupDelete.
GroupDelete(g) ==
  /\ g \in DOMAIN groups
  /\ groups' = Restrict(groups, DOMAIN groups \ {g})
  /\ formerGroups' = formerGroups \cup {g}
  /\ UNCHANGED <<next, available, staged, uploads, applied, backupRuns, offered>>

\* SetUpdateAvailable; NoRelease withdraws the offer.
SetUpdateAvailable(r) ==
  /\ available' = r
  /\ offered' = offered \cup ({r} \ {NoRelease})
  /\ UNCHANGED <<next, groups, staged, uploads, applied, backupRuns, formerGroups>>

\* handleUpdateDownload stages what the feed offers now.  handleUpdateInstall
\* only tests whether something is staged.
UpdateDownload ==
  /\ available # NoRelease
  /\ staged' = available
  /\ UNCHANGED <<next, groups, available, uploads, applied, backupRuns, formerGroups, offered>>

\* handleBackupRun.
BackupRun ==
  /\ backupRuns' = backupRuns + 1
  /\ UNCHANGED <<next, groups, available, staged, uploads, applied, formerGroups, offered>>

\* handleRestoreCheck of an archive that is not empty.
RestoreCheck ==
  /\ Cardinality(uploads) < MaxUploads
  /\ uploads' = uploads \cup {Cardinality(uploads) + 1}
  /\ UNCHANGED <<next, groups, available, staged, applied, backupRuns, formerGroups, offered>>

\* handleRestoreApply.
RestoreApply(file) ==
  /\ file \in uploads
  /\ applied' = Append(applied, file)
  /\ UNCHANGED <<next, groups, available, staged, uploads, backupRuns, formerGroups, offered>>

SysInit ==
  /\ next = 0
  /\ groups = <<>>
  /\ available = NoRelease
  /\ staged = NoRelease
  /\ uploads = {}
  /\ applied = <<>>
  /\ backupRuns = 0
  /\ formerGroups = {}
  /\ offered = {}

\* However groups come and go, the number of a deleted group, and with it its
\* virtual device, never comes back; a group holds only what its type can take;
\* and a detail answer accounts for every candidate of the type exactly once
\* among members, assignable and leftover (handleGroupCreate, take, split).
GroupsSound ==
  /\ formerGroups \cap DOMAIN groups = {}
  /\ \A g \in DOMAIN groups :
       LET s    == Split(groups[g].type, {g})
           mine == groups[g].members IN
       /\ mine \cup s.assignable \cup s.leftover = Candidates[groups[g].type]
       /\ mine \cap (s.assignable \cup s.leftover) = {}
       /\ s.assignable \cap s.leftover = {}
=============================================================================
