SPECIFICATION Spec
CONSTANTS
  sub = sub
  par = par
  NoDomain = NoDomain
  Domain = {par}
  Chain <- OneName
  LooksAlike = {}
  Bypass = {}
  InitSeed = {}
  InitWhite = {}
  MaxQueue = 2
  Reloads = FALSE
  MaxFaults = 1
  Query = {q1}
  Asked = {par}
  QType = {"address", "other"}
  Job = {j1, j2}
  Concurrency = 1
  Controlled = {}
  Managed = {}
  Reported = {}
  Client = {c1}
  Checked = {par}
SYMMETRY Symmetry
INVARIANTS TypeOK NoOrphanMarker
PROPERTIES ImplementsTickets MarkerNeverHidesVerdict
