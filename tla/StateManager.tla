---------------------------- MODULE StateManager ----------------------------
(***************************************************************************)
(* The objects of the simulated CCU that are no devices (internal/state):  *)
(* programs, system variables, rooms and functions, service messages, the  *)
(* inbox, backup, firmware update, names, and the numeric ids of           *)
(* addresses.  Every method is one step under Manager.mu.  A system        *)
(* variable is one object that two indexes point to, by id and by name;    *)
(* callbacks, texts, timestamps and callers that only read are left out.   *)
(***************************************************************************)
EXTENDS Integers, Sequences, FiniteSets, SequencesExt, Functions

CONSTANTS
  Upper,        \* address, in any case -> the address in upper case
  Firmware,     \* hmconst.CCUFirmwareVersion
  Placeholder,  \* the backup a delayed completion makes
  NoBackup,
  Builtin       \* the system variables of SetupBuiltinSysvars: [id, name]

\* Built-in variables share neither a name nor an id.
ASSUME StateAssumption ==
  /\ Placeholder # NoBackup
  /\ Builtin \in Seq([id : Nat, name : STRING])
  /\ \A i, j \in DOMAIN Builtin :
       Builtin[i].id = Builtin[j].id \/ Builtin[i].name = Builtin[j].name => i = j

VARIABLES
  programs,      \* id -> [active, runs]
  objects,       \* every system variable ever made: [id, name, type, value]
  sysvars,       \* id -> its object
  sysvarByName,  \* name -> its object
  rooms, functions, \* id -> channels
  nextID,        \* the five counters, by what they count
  messages,      \* serviceMessages: ids
  inbox,         \* inboxDevices: addresses
  backup,        \* backupStatus: [status, of]
  backupData,
  backupDelay,   \* a completion delay is set
  elapsed,       \* it has passed since backupStartedAt
  updateInfo,    \* [current, available, update]
  deviceNames,   \* upper case address -> name
  regaIDByAddress, regaAddressByID,
  clashed        \* history: the names of variables that an addition overlapped

objectVars == <<programs, objects, sysvars, sysvarByName, rooms, functions, nextID, clashed>>
queueVars  == <<messages, inbox>>
backupVars == <<backup, backupData, backupDelay, elapsed>>
regaVars   == <<regaIDByAddress, regaAddressByID>>
stateVars  == <<objectVars, queueVars, backupVars, updateInfo, deviceNames, regaVars>>

Without(f, key) == Restrict(f, DOMAIN f \ {key})

\* A map with one more entry, or a new one for its key.
With(f, key, entry) ==
  [k \in DOMAIN f \cup {key} |-> IF k = key THEN entry ELSE f[k]]

\* The id of a new object: the one asked for, or with 0 the next of its kind.
IDFor(kind, id) == IF id = 0 THEN nextID[kind] ELSE id
Counted(kind, id) == IF id = 0 THEN [nextID EXCEPT ![kind] = @ + 1] ELSE nextID

-----------------------------------------------------------------------------
(* Programs                                                                *)

OnlyPrograms == UNCHANGED <<objects, sysvars, sysvarByName, rooms, functions, clashed, queueVars,
                            backupVars, updateInfo, deviceNames, regaVars>>

\* AddProgram replaces a program with the id it asks for.
AddProgram(active, id) ==
  /\ programs' = With(programs, IDFor("program", id), [active |-> active, runs |-> 0])
  /\ nextID' = Counted("program", id)
  /\ OnlyPrograms

\* ExecuteProgram: not one that is inactive.
ExecuteProgram(id) ==
  /\ id \in DOMAIN programs
  /\ programs[id].active
  /\ programs' = [programs EXCEPT ![id].runs = @ + 1]
  /\ UNCHANGED nextID
  /\ OnlyPrograms

\* SetProgramActive.
SetProgramActive(id, active) ==
  /\ id \in DOMAIN programs
  /\ programs' = [programs EXCEPT ![id].active = active]
  /\ UNCHANGED nextID
  /\ OnlyPrograms

\* DeleteProgram.
DeleteProgram(id) ==
  /\ id \in DOMAIN programs
  /\ programs' = Without(programs, id)
  /\ UNCHANGED nextID
  /\ OnlyPrograms

-----------------------------------------------------------------------------
(* System variables                                                        *)

OnlySysvars == UNCHANGED <<programs, rooms, functions, queueVars, backupVars, updateInfo,
                           deviceNames, regaVars>>

\* The names that an addition may leave with one index ahead of the other: its
\* own, and those that are listed with the same name or the same id, not both.
Clash(name, id) ==
  LET half == {n \in DOMAIN sysvarByName : n = name <=> objects[sysvarByName[n]].id # id}
  IN IF half = {} THEN {} ELSE half \cup {name}

\* AddSystemVariable checks neither the name nor the id.
AddSystemVariable(name, type, value, asked) ==
  LET id == IDFor("sysvar", asked)
      obj == Len(objects) + 1
  IN /\ objects' = Append(objects, [id |-> id, name |-> name, type |-> type, value |-> value])
     /\ sysvars' = With(sysvars, id, obj)
     /\ sysvarByName' = With(sysvarByName, name, obj)
     /\ nextID' = Counted("sysvar", asked)
     /\ clashed' = clashed \cup Clash(name, id)
     /\ OnlySysvars

\* SetSystemVariable, by name.
SetSystemVariable(name, value) ==
  /\ name \in DOMAIN sysvarByName
  /\ objects' = [objects EXCEPT ![sysvarByName[name]].value = value]
  /\ UNCHANGED <<sysvars, sysvarByName, nextID, clashed>>
  /\ OnlySysvars

\* Mutation: deleting a variable leaves it listed.
IndexAfterKept(name) == sysvars

\* The index by id once the variable of a name is deleted.
IndexAfter(name) == Without(sysvars, objects[sysvarByName[name]].id)

\* DeleteSystemVariable.
DeleteSystemVariable(name) ==
  /\ name \in DOMAIN sysvarByName
  /\ sysvars' = IndexAfter(name)
  /\ sysvarByName' = Without(sysvarByName, name)
  /\ UNCHANGED <<objects, nextID, clashed>>
  /\ OnlySysvars

-----------------------------------------------------------------------------
(* Rooms and functions                                                     *)

OnlyRooms == UNCHANGED <<programs, objects, sysvars, sysvarByName, clashed, queueVars, backupVars,
                         updateInfo, deviceNames, regaVars>>

\* AddRoom and AddFunction.
AddRoom(channels, id) ==
  /\ rooms' = With(rooms, IDFor("room", id), channels)
  /\ nextID' = Counted("room", id)
  /\ UNCHANGED functions
  /\ OnlyRooms
AddFunction(channels, id) ==
  /\ functions' = With(functions, IDFor("function", id), channels)
  /\ nextID' = Counted("function", id)
  /\ UNCHANGED rooms
  /\ OnlyRooms

Joined(channels, ch) == IF Contains(channels, ch) THEN channels ELSE Append(channels, ch)

\* AddChannelToRoom, RemoveChannelFromRoom and AddChannelToFunction.
AddChannelToRoom(id, ch) ==
  /\ id \in DOMAIN rooms
  /\ rooms' = [rooms EXCEPT ![id] = Joined(@, ch)]
  /\ UNCHANGED <<functions, nextID>>
  /\ OnlyRooms
RemoveChannelFromRoom(id, ch) ==
  /\ id \in DOMAIN rooms
  /\ rooms' = [rooms EXCEPT ![id] = RemoveFirst(@, ch)]
  /\ UNCHANGED <<functions, nextID>>
  /\ OnlyRooms
AddChannelToFunction(id, ch) ==
  /\ id \in DOMAIN functions
  /\ functions' = [functions EXCEPT ![id] = Joined(@, ch)]
  /\ UNCHANGED <<rooms, nextID>>
  /\ OnlyRooms

-----------------------------------------------------------------------------
(* Service messages and the inbox                                          *)

OnlyQueues == UNCHANGED <<programs, objects, sysvars, sysvarByName, rooms, functions, clashed,
                          backupVars, updateInfo, deviceNames, regaVars>>

\* AddServiceMessage, ClearServiceMessage and ClearAllServiceMessages.
AddServiceMessage ==
  /\ messages' = Append(messages, nextID["message"])
  /\ nextID' = Counted("message", 0)
  /\ UNCHANGED inbox
  /\ OnlyQueues
ClearServiceMessage(id) ==
  /\ Contains(messages, id)
  /\ messages' = RemoveFirst(messages, id)
  /\ UNCHANGED <<inbox, nextID>>
  /\ OnlyQueues
ClearAllServiceMessages ==
  /\ messages' = <<>>
  /\ UNCHANGED <<inbox, nextID>>
  /\ OnlyQueues

\* AddInboxDevice, and AcceptInboxDevice, which is RejectInboxDevice as well.
AddInboxDevice(a) ==
  /\ inbox' = Append(inbox, a)
  /\ UNCHANGED <<messages, nextID>>
  /\ OnlyQueues
AcceptInboxDevice(a) ==
  /\ Contains(inbox, a)
  /\ inbox' = RemoveFirst(inbox, a)
  /\ UNCHANGED <<messages, nextID>>
  /\ OnlyQueues

-----------------------------------------------------------------------------
(* Backup and update                                                       *)

OnlyBackup == UNCHANGED <<objectVars, queueVars, updateInfo, deviceNames, regaVars>>

Status(status, of) == [status |-> status, of |-> of]

\* SetBackupCompletionDelay, with a delay that is over or not.
SetBackupDelay(on, over) ==
  /\ backupDelay' = on
  /\ elapsed' = over
  /\ UNCHANGED <<backup, backupData>>
  /\ OnlyBackup

\* Time: the delay passes.
BackupElapses ==
  /\ ~elapsed
  /\ elapsed' = TRUE
  /\ UNCHANGED <<backup, backupData, backupDelay>>
  /\ OnlyBackup

\* StartBackup keeps the data of the backup before.
StartBackup ==
  /\ backup' = Status("running", NoBackup)
  /\ elapsed' = FALSE
  /\ UNCHANGED <<backupData, backupDelay>>
  /\ OnlyBackup

\* CompleteBackup, FailBackup and ResetBackup.
CompleteBackup(data) ==
  /\ backup' = Status("completed", data)
  /\ backupData' = data
  /\ UNCHANGED <<backupDelay, elapsed>>
  /\ OnlyBackup
FailBackup ==
  /\ backup' = Status("failed", NoBackup)
  /\ UNCHANGED <<backupData, backupDelay, elapsed>>
  /\ OnlyBackup
ResetBackup ==
  /\ backup' = Status("idle", NoBackup)
  /\ backupData' = NoBackup
  /\ UNCHANGED <<backupDelay, elapsed>>
  /\ OnlyBackup

Promotable == backupDelay /\ backup.status = "running" /\ elapsed

\* promoteBackupLocked, in BackupStatus and in BackupData.
PromoteBackup ==
  /\ IF Promotable THEN /\ backup' = Status("completed", Placeholder)
                        /\ backupData' = Placeholder
     ELSE UNCHANGED <<backup, backupData>>
  /\ UNCHANGED <<backupDelay, elapsed>>
  /\ OnlyBackup

Update(current, available) ==
  [current |-> current, available |-> available, update |-> current # available]

\* SetUpdateInfo.
SetUpdateInfo(current, available) ==
  /\ updateInfo' = Update(current, available)
  /\ UNCHANGED <<objectVars, queueVars, backupVars, deviceNames, regaVars>>

\* TriggerUpdate.
TriggerUpdate ==
  /\ updateInfo.update
  /\ updateInfo' = [updateInfo EXCEPT !.current = updateInfo.available, !.update = FALSE]
  /\ UNCHANGED <<objectVars, queueVars, backupVars, deviceNames, regaVars>>

-----------------------------------------------------------------------------
(* Names, ids of addresses                                                 *)

\* SetDeviceName.
SetDeviceName(a, name) ==
  /\ deviceNames' = With(deviceNames, Upper[a], name)
  /\ UNCHANGED <<objectVars, queueVars, backupVars, updateInfo, regaVars>>

\* RegisterAddress: the id that an address has is never changed.
RegisterAddress(a) ==
  /\ IF Upper[a] \in DOMAIN regaIDByAddress THEN UNCHANGED <<regaVars, nextID>>
     ELSE /\ regaIDByAddress' = With(regaIDByAddress, Upper[a], nextID["rega"])
          /\ regaAddressByID' = With(regaAddressByID, nextID["rega"], Upper[a])
          /\ nextID' = Counted("rega", 0)
  /\ UNCHANGED <<programs, objects, sysvars, sysvarByName, rooms, functions, clashed, queueVars,
                 backupVars, updateInfo, deviceNames>>

-----------------------------------------------------------------------------
\* ClearAll: neither the counters, nor the ids of addresses, nor the delay.
ClearAll ==
  /\ programs' = <<>> /\ sysvars' = <<>> /\ sysvarByName' = <<>>
  /\ rooms' = <<>> /\ functions' = <<>>
  /\ messages' = <<>> /\ inbox' = <<>>
  /\ deviceNames' = <<>>
  /\ backup' = Status("idle", NoBackup)
  /\ backupData' = NoBackup
  /\ updateInfo' = Update(Firmware, Firmware)
  /\ clashed' = {}
  /\ UNCHANGED <<objects, nextID, backupDelay, elapsed, regaVars>>

\* New and SetupBuiltinSysvars.
StateInit ==
  /\ programs = <<>> /\ rooms = <<>> /\ functions = <<>>
  /\ objects = [i \in DOMAIN Builtin |->
                  [id |-> Builtin[i].id, name |-> Builtin[i].name, type |-> "BOOL", value |-> 0]]
  /\ sysvars = [id \in {one.id : one \in Range(Builtin)} |->
                  CHOOSE o \in DOMAIN Builtin : Builtin[o].id = id]
  /\ sysvarByName = [name \in {one.name : one \in Range(Builtin)} |->
                       CHOOSE o \in DOMAIN Builtin : Builtin[o].name = name]
  /\ nextID = [program |-> 1000, sysvar |-> 2000, room |-> 3000, function |-> 4000,
               message |-> 5000, rega |-> 6000]
  /\ messages = <<>> /\ inbox = <<>>
  /\ backup = Status("idle", NoBackup) /\ backupData = NoBackup
  /\ backupDelay = FALSE /\ elapsed = FALSE
  /\ updateInfo = Update(Firmware, Firmware)
  /\ deviceNames = <<>>
  /\ regaIDByAddress = <<>> /\ regaAddressByID = <<>>
  /\ clashed = {}

-----------------------------------------------------------------------------
(* Properties                                                              *)

\* The two indexes of the system variables name the same objects, but for
\* names that were added over one another (AddSystemVariable,
\* DeleteSystemVariable).
IndexesAgree ==
  /\ \A id \in DOMAIN sysvars :
       LET obj == objects[sysvars[id]] IN
       /\ obj.id = id
       /\ obj.name \notin clashed => /\ obj.name \in DOMAIN sysvarByName
                                     /\ sysvarByName[obj.name] = sysvars[id]
  /\ \A name \in DOMAIN sysvarByName \ clashed :
       LET id == objects[sysvarByName[name]].id IN
       id \in DOMAIN sysvars /\ sysvars[id] = sysvarByName[name]

\* Whatever is added, deleted, renamed, cleared or restarted, by whom and in
\* whatever order: the indexes of the variables agree; an address keeps one
\* id, in either case, and an id one address; a backup that is reported
\* complete is the one that is handed out; an update is offered exactly when
\* the firmwares differ; and no room holds a channel twice.
ManagerSound ==
  /\ IndexesAgree
  /\ DOMAIN regaAddressByID = Range(regaIDByAddress)
  /\ \A a \in DOMAIN regaIDByAddress : regaAddressByID[regaIDByAddress[a]] = a
  /\ backup.status = "completed" => backupData = backup.of /\ backupData # NoBackup
  /\ updateInfo.update <=> updateInfo.current # updateInfo.available
  /\ \A id \in DOMAIN rooms : IsInjective(rooms[id])
=============================================================================
