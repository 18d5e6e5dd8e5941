SPECIFICATION Spec
CONSTANTS
  o1 = o1  o2 = o2  e = e  a = a  b = b  x = x  y = y  bad = bad  ns1 = ns1  ns2 = ns2
  p1 = p1  p2 = p2  p3 = p3  s1 = s1  s2 = s2  app1 = app1  app2 = app2  home = home  lamp = lamp
  keeper = keeper  root = root  wide = wide  sid1 = sid1  u1 = u1
  i1 = i1  i2 = i2  d1 = d1  d2 = d2  d3 = d3  ch1 = ch1  ch2 = ch2  heat = heat
  r1 = r1  r2 = r2
  Refs = {o1, o2}
  Enums = {e}
  NodeIds = {a, b}
  Labels = {x, y}
  BadName = bad
  Namespaces = {ns1, ns2}
  MetaRoom = 1
  MaxDepth = 3
  LogMax = 3
  MetaQueue = 2
  MetaStreams = {s1}
  Documents <- MCDocuments
  Absent = absent
  Patches <- MCPatches
  NewNames = {y}
  PairIds = {p1, p2, p3}
  Apps = {app1, app2}
  AddressOf <- MCAddressOf
  SlugOf <- MCSlugOf
  Words <- MCWords
  Accesses <- MCAccesses
  Pollers = {s1, s2}
  SeedTokens <- MCSeedTokens
  TokenTables <- MCTokenTables
  Users = {u1}
  AccountScopes <- MCAccountScopes
  Sids = {sid1}
  NoUser = nouser
  NoRequest = norequest
  Lifetime = 1
  Keep = 1
  Mute = 1
  Window = 2
  PendingTotal = 2
  PerWindow = 2
  MaxClock = 4
  Ifaces = {i1, i2}
  Datapoints = {d1, d2, d3}
  Kept = {d1, d3}
  IfaceOf <- MCIfaceOf
  Seeders = {s1}
  Nobody = nobody
  Proxies = {s2}
  Secrets <- MCSecrets
  RpcCalls <- MCRpcCalls
  NoList = nolist
  Malformed = malformed
  NoCall = nocall
  GroupTypes = {heat, lamp}
  Channels = {ch1, ch2}
  Candidates <- MCCandidates
  Releases = {r1, r2}
  NoRelease = norelease
  MaxGroups = 2
  MaxUploads = 1
  Budgets <- MCSeedBudgets
INVARIANT SeedMissesNothing
CHECK_DEADLOCK FALSE
