SPECIFICATION FairSpec
CONSTANTS
  site = site
  NoDomain = NoDomain
  Domain = {site}
  Chain <- MCChain
  LooksAlike = {}
  Bypass = {}
  InitSeed = {}
  InitWhite = {}
  MaxQueue = 0
  MaxFaults = 1
  Job = {j1}
  Concurrency = 1
  Controlled = {}
  Managed = {}
  Reported = {}
  Client = {}
  Checked = {}
  Cron = Cron
  Manual = {m1}
  Scan = {j1}
  NoScan = NoScan
  Found = {site}
  CronSources <- Searches
  MaxLapses = 1
INVARIANTS TypeOK RunsWithinLapses
PROPERTIES ImplementsLease RunsClose CronGoesOn
