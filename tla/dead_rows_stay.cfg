SPECIFICATION FairSpec
CONSTANTS
  ward = ward
  g1 = g1
  e1 = e1
  Visitor = {v1}
  DeepTask = {t1}
  MaxDeepLapses = 1
  MaxDeepFaults = 1
  Ward = ward
  Guardian = {g1}
  Endpoint = {e1}
  Owner <- MCOwner
  QueueSize = 1
  MaxEvents = 1
  MaxWatchFaults = 0
  Email = {m1}
  Code = {k1}
  NoCode = NoCode
  Attempt = {a1}
  MaxRolls = 2
  Letter <- MCLetter
  Brand = {}
  Name = {}
  LongLabel = 4
  TokenLabel = 4
  Days <- MCDays
  Field <- MCField
  Page = {}
  Reply = {}
  Garbage = Garbage
  Tries = 2
  MaxRegistrations = 2
  Question = {q1}
  MaxUpstreamFaults = 0
PROPERTY DeadEndpointsArePruned
