SPECIFICATION FairSpec
CONSTANTS
  ward = ward
  g1 = g1
  e1 = e1
  Visitor = {v1, v2}
  DeepTask = {t1, t2}
  MaxDeepLapses = 1
  MaxDeepFaults = 1
  Ward = ward
  Guardian = {g1}
  Endpoint = {e1}
  Owner <- MCOwner
  QueueSize = 1
  MaxEvents = 2
  MaxWatchFaults = 1
  Email = {m1, m2}
  Code = {k1, k2}
  NoCode = NoCode
  Attempt = {a1, a2, a3}
  MaxRolls = 2
  Letter <- MCLetter
  Brand <- MCBrand
  Name <- MCName
  LongLabel = 4
  TokenLabel = 4
  Days <- MCDays
  Field <- MCField
  Page <- MCPage
  Reply <- MCReply
  Garbage = Garbage
  Tries = 2
  MaxRegistrations = 2
  Question = {q1, q2}
  MaxUpstreamFaults = 1
INVARIANTS ServicesTypeOK WaitingIsForSomething OnlyWatchersLearn StreamKeepsLatest CreatedMeansOwner HitsResemble HomoglyphsAreCaught EvidenceCounts BlockingIsEarned AgeCounts ServfailIsEarned
PROPERTIES ImplementsDeepLease PollEnds EventArrives QuestionsEnd
