SPECIFICATION Spec
CONSTANTS
  c1 = c1
  c2 = c2
  i1 = i1
  i2 = i2
  s1 = s1
  s2 = s2
  k1 = k1
  k2 = k2
  Addresses <- MCAddresses
  DeviceOf <- MCDeviceOf
  Maintenance <- MCMaintenance
  ParamDesc <- MCParamDesc
  TypeOf <- MCTypeOf
  Prefix <- MCPrefix
  Matches <- MCMatches
  Raised = {"UNREACH", "STICKY"}
  NoValue = NoValue
  Types = {"ta", "tb"}
  AddressesOf <- MCAddressesOf
  HmIP = {"B", "B1", "C", "C1"}
  Clients = {c1, c2}
  Related <- MCRelated
  Copies <- MCCopies
  MaxWork = 3
  Loads = {"ta", "tc"}
  Methods = {"setValue", "ping"}
  Rules <- MCRules
  Callers = {k1, k2}
  NoCall = NoCall
  Torn = Torn
  MaxRelease = 3
  MaxStops = 2
  Slots = {s1, s2}
  Ids = {i1, i2}
  NoId = NoId
  NoRequest = NoRequest
  Level <- MCLevel
  Public <- MCPublic
  Endpoints <- MCEndpoints
  Unguarded <- MCUnguarded
  BackupAPI = {"tarfile.cgi", "run-script.cgi"}
  Timeout = 1
  MaxClock = 3
  Upper <- MCUpper
  Firmware = "fw"
  Placeholder = "placeholder"
  NoBackup = NoBackup
  RegaIDs = TRUE
  NewTypes <- MCNewTypes
  Deletes = {"A", "A1", "C"}
  Puts <- MCPuts
  Sets <- MCSets
  LinkSets <- MCLinkSets
  Partners = {"A1", "B1"}
  Bodies <- MCBodies
  Names = {"v"}
  Builtin <- MCBuiltin
  Configs <- MCConfigs
  MaxStarts = 2
  Budgets <- MCBudgets
SYMMETRY Sym
INVARIANTS
  CcuTypeOK
  StoreSound
  ClientInSync
  NoCallStranded
  SessionSound
  ManagerSound
  VirtualSound
PROPERTIES
  ServerImplements
CHECK_DEADLOCK FALSE
