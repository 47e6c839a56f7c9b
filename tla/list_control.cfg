SPECIFICATION FairSpec
CONSTANTS
  sub = sub
  par = par
  NoDomain = NoDomain
  Domain = {sub, par}
  Chain <- MCChain
  LooksAlike = {par}
  Bypass = {}
  InitSeed = {}
  InitWhite = {}
  MaxQueue = 0
  Reloads = TRUE
  MaxFaults = 1
  Query = {q1}
  Asked = {sub, par}
  QType = {"other"}
  Job = {}
  Concurrency = 1
  Controlled = {}
  Managed = {sub}
  Reported = {}
  Client = {}
  Checked = {}
INVARIANT RemovalIsDurable
PROPERTIES BlockReachesMemory WhitelistReachesMemory
