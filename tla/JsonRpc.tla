------------------------------- MODULE JsonRpc -------------------------------
(***************************************************************************)
(* The handlers of the web API (internal/jsonrpc/handlers.go, server.go,   *)
(* extra_routes.go) and the ReGa scripts they run (internal/rega).  A      *)
(* request that was let in (Sessions) changes the sessions, the CCU's own  *)
(* objects (StateManager) or the interface process (ServerLifecycle).      *)
(* Most handlers make one call; SysVar.create*, the script that sets a     *)
(* variable and the downloads look first and act later, and                *)
(* Device.listAllDetail takes one address after the other.  A call has an  *)
(* arg: what the handler reads from its parameters.                        *)
(***************************************************************************)
EXTENDS ServerLifecycle, Sessions, StateManager

CONSTANTS
  RegaIDs,  \* Handlers.RegaIDs
  NewTypes  \* SysVar.create* method -> the type it makes

rpcVars == <<storeVars, catVars, serverVars, faultVars>>

CallOf(s) == request[s].call
Is(s, method) == CallOf(s).method = method
Answers(s) == request' = [request EXCEPT ![s] = Answered(s)]
GoesTo(s, stage) == request' = [request EXCEPT ![s].stage = stage]

\* Nothing of the sessions changes but the request itself.
OnlyRequest == UNCHANGED <<clock, enabled, ccuErrorModel, webReady, tableVars>>

-----------------------------------------------------------------------------
\* Session.login, Session.logout, Session.renew and login.cgi: logout and
\* renew read the id from the parameters alone.
sessionLogin(s) ==
  CallOf(s).method \in {"Session.login", "login.cgi"} /\ \E id \in Ids : Login(id)
sessionLogout(s) == Is(s, "Session.logout") /\ LogoutOf(CallOf(s).second)
sessionRenew(s) == Is(s, "Session.renew") /\ \E new \in Ids : Renew(CallOf(s).second, new)

SessionHandler(s) ==
  /\ sessionLogin(s) \/ sessionLogout(s) \/ sessionRenew(s)
  /\ Answers(s)
  /\ UNCHANGED <<clock, enabled, ccuErrorModel, webReady, stateVars, rpcVars>>

-----------------------------------------------------------------------------
(* The scripts that change something, each by one call; the parameters in  *)
(* the body of a script are its arg.                                       *)

handleAcceptInboxDevice(script) ==
  script.fn = "accept_device_in_inbox" /\ AcceptInboxDevice(script.address)
handleAcknowledgeMessage(script) ==
  script.fn = "acknowledge_message" /\ ClearServiceMessage(script.id)
handleSetProgramState(script) ==
  script.fn = "set_program_state" /\ SetProgramActive(script.id, script.active)
setSysvarInline(script) == script.fn = "State" /\ SetSystemVariable(script.name, script.value)
handleBackupStart(script) == script.fn = "create_backup_start" /\ StartBackup
handleBackupStatus(script) == script.fn = "create_backup_status" /\ PromoteBackup
handleTriggerUpdate(script) == script.fn = "trigger_firmware_update" /\ TriggerUpdate

\* The script's name chooses its handler.  An unknown one, or a script with a
\* byte order mark, changes nothing.
RunScript(script) ==
  \/ handleAcceptInboxDevice(script) \/ handleAcknowledgeMessage(script)
  \/ handleSetProgramState(script) \/ setSysvarInline(script)
  \/ handleBackupStart(script) \/ handleBackupStatus(script)
  \/ handleTriggerUpdate(script)

\* regaRunScript and handleBackupRunScript.
RunsScript(s) == CallOf(s).method \in {"ReGa.runScript", "run-script.cgi"}

-----------------------------------------------------------------------------
(* Handlers that make one call of the state manager.                       *)

sysvarSet(s, arg) == Is(s, "SysVar.set") /\ SetSystemVariable(arg.name, arg.value)
sysvarDelete(s, arg) == Is(s, "SysVar.deleteSysVarByName") /\ DeleteSystemVariable(arg.name)
programExecute(s, arg) == Is(s, "Program.execute") /\ ExecuteProgram(arg.id)
programSetActive(s, arg) == Is(s, "Program.setActive") /\ SetProgramActive(arg.id, arg.active)
setName(s, arg) == Is(s, "Device.setName") /\ SetDeviceName(arg.address, arg.name)
handleMaintenance(s) == Is(s, "cp_maintenance.cgi") /\ TriggerUpdate

StateHandler(s) ==
  LET arg == CallOf(s).arg IN
  /\ \/ sysvarSet(s, arg) \/ sysvarDelete(s, arg)
     \/ programExecute(s, arg) \/ programSetActive(s, arg)
     \/ setName(s, arg) \/ handleMaintenance(s)
     \/ RunsScript(s) /\ RunScript(arg)
  /\ Answers(s)
  /\ OnlyRequest
  /\ UNCHANGED rpcVars

-----------------------------------------------------------------------------
(* Handlers that make one call of the interface process.                   *)

setValue(s, arg) == Is(s, "Interface.setValue") /\ SetValue(arg.address, arg.key, arg.value, FALSE)
getParamset(s, arg) == Is(s, "Interface.getParamset") /\ GetParamset(arg.address, arg.key)
putParamset(s, arg) ==
  Is(s, "Interface.putParamset") /\ PutParamset(arg.address, arg.kind, arg.set, FALSE)
setLinkInfo(s, arg) == Is(s, "Interface.setLinkInfo") /\ SetLinkInfo(arg.sender, arg.receiver, arg.name)
suppressServiceMessages(s, arg) ==
  Is(s, "Interface.suppressServiceMessages") /\ Suppress(arg.address, arg.key, arg.on)
interfaceInit(s, arg) ==
  /\ Is(s, "Interface.init")
  /\ \E c \in Clients \cap {arg.client} : IF arg.on THEN Register(c) ELSE Unregister(c)

InterfaceHandler(s) ==
  LET arg == CallOf(s).arg IN
  /\ \/ /\ \/ setValue(s, arg) \/ getParamset(s, arg) \/ putParamset(s, arg)
           \/ setLinkInfo(s, arg) \/ suppressServiceMessages(s, arg)
        /\ UNCHANGED catVars
     \/ interfaceInit(s, arg)
  /\ Answers(s)
  /\ OnlyRequest
  /\ UNCHANGED <<stateVars, serverVars, faultVars>>

\* A handler that only reads, SysVar.setEnum among them, which changes a copy;
\* or one that refuses its arguments.
QuietHandler(s) ==
  /\ CallOf(s).method \notin {"Device.listAllDetail", "Session.logout", "cp_security.cgi",
                              "tarfile.cgi"} \cup DOMAIN NewTypes
  /\ Answers(s)
  /\ OnlyRequest
  /\ UNCHANGED <<stateVars, rpcVars>>

-----------------------------------------------------------------------------
\* SysVar.create* refuses a name that is there; set_system_variable.fn one
\* that is not, or is no string.
Looks(s) ==
  LET arg == CallOf(s).arg
      goesOn == \/ CallOf(s).method \in DOMAIN NewTypes /\ arg.name \notin DOMAIN sysvarByName
                \/ /\ RunsScript(s)
                   /\ arg.fn = "set_system_variable"
                   /\ arg.name \in DOMAIN sysvarByName
                   /\ objects[sysvarByName[arg.name]].type = "STRING"
  IN /\ CallOf(s).method \in DOMAIN NewTypes \/ (RunsScript(s) /\ arg.fn = "set_system_variable")
     /\ IF goesOn THEN GoesTo(s, "looked") ELSE Answers(s)
     /\ OnlyRequest
     /\ UNCHANGED <<stateVars, rpcVars>>

\* What they do with a name they have looked at, whatever became of it.
Acts(s) ==
  LET arg == CallOf(s).arg IN
  /\ request[s].stage = "looked"
  /\ IF CallOf(s).method \in DOMAIN NewTypes
     THEN AddSystemVariable(arg.name, NewTypes[CallOf(s).method], arg.value, 0)
     ELSE IF arg.name \in DOMAIN sysvarByName THEN SetSystemVariable(arg.name, arg.value)
     ELSE UNCHANGED stateVars
  /\ Answers(s)
  /\ OnlyRequest
  /\ UNCHANGED rpcVars

\* handleBackupDownload and handleBackupTarfile: the status first, the data
\* in a step of its own.
DownloadStatus(s) ==
  /\ CallOf(s).method \in {"cp_security.cgi", "tarfile.cgi"}
  /\ PromoteBackup
  /\ IF backup'.status = "completed" THEN GoesTo(s, "download") ELSE Answers(s)
  /\ OnlyRequest
  /\ UNCHANGED rpcVars
DownloadData(s) ==
  /\ request[s].stage = "download"
  /\ PromoteBackup
  /\ Answers(s)
  /\ OnlyRequest
  /\ UNCHANGED rpcVars

\* Device.listAllDetail gives each device an id as it comes to it.
ListAllDetail(s) ==
  LET new == IF RegaIDs THEN {a \in devices : Upper[a] \notin DOMAIN regaIDByAddress} ELSE {} IN
  /\ Is(s, "Device.listAllDetail")
  /\ IF new = {} THEN Answers(s) /\ UNCHANGED stateVars
     ELSE UNCHANGED request /\ \E a \in new : RegisterAddress(a)
  /\ OnlyRequest
  /\ UNCHANGED rpcVars

Handle(s) ==
  /\ request[s] # NoRequest
  /\ \/ /\ request[s].stage = "admitted"
        /\ \/ SessionHandler(s)
           \/ StateHandler(s)
           \/ InterfaceHandler(s)
           \/ QuietHandler(s)
           \/ Looks(s)
           \/ DownloadStatus(s)
           \/ ListAllDetail(s)
     \/ Acts(s)
     \/ DownloadData(s)
=============================================================================
