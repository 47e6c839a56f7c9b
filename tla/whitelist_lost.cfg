SPECIFICATION Spec
CONSTANTS
  sub = sub
  par = par
  NoDomain = NoDomain
  Domain = {sub, par}
  Chain <- MCChain
  LooksAlike = {sub}
  Bypass = {}
  InitSeed = {}
  InitWhite = {sub}
  MaxQueue = 0
  Reloads = TRUE
  MaxFaults = 1
  Query = {q1}
  Asked = {sub}
  QType = {"other"}
  Job = {}
  Concurrency = 1
  Controlled = {}
  Managed = {}
  Reported = {}
  Client = {}
  Checked = {}
INVARIANT WhitelistAlwaysWins
