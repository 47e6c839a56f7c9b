SPECIFICATION FairSpec
CONSTANTS
  sub = sub
  par = par
  NoDomain = NoDomain
  Domain = {par}
  Chain <- OneName
  LooksAlike = {}
  Bypass = {}
  InitSeed = {}
  InitWhite = {}
  MaxQueue = 2
  Reloads = FALSE
  MaxFaults = 1
  Query = {}
  Asked = {par}
  QType = {"other"}
  Job = {j1}
  Concurrency = 1
  Controlled = {}
  Managed = {}
  Reported = {}
  Client = {c1}
  Checked = {par}
PROPERTY VerdictLands
