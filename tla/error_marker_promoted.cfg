SPECIFICATION Spec
CONSTANTS
  sub = sub
  par = par
  NoDomain = NoDomain
  Domain = {sub, par}
  Chain <- MCChain
  LooksAlike = {}
  Bypass = {}
  InitSeed = {}
  InitWhite = {}
  MaxQueue = 1
  Reloads = FALSE
  MaxFaults = 0
  Query = {q1}
  Asked = {sub}
  QType = {"address"}
  Job = {j1}
  Concurrency = 1
  Controlled = {}
  Managed = {}
  Reported = {}
  Client = {}
  Checked = {}
INVARIANT SeedRowsAreEarned
