SPECIFICATION Spec
CONSTANTS
  site = site
  NoDomain = NoDomain
  Domain = {site}
  Chain <- MCChain
  LooksAlike = {}
  Bypass = {}
  InitSeed = {site}
  InitWhite = {site}
  MaxQueue = 1
  MaxFaults = 0
  Job = {j1}
  Concurrency = 1
  Controlled = {site}
  Managed = {site}
  Reported = {site}
  Client = {c1}
  Checked = {site}
  Cron = Cron
  Manual = {}
  Scan = {j1}
  NoScan = NoScan
  Found = {site}
  CronSources <- FeedAndSearch
  MaxLapses = 0
INVARIANT OnlyRacesListTwice
