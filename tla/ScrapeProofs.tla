---------------------------- MODULE ScrapeProofs ----------------------------
(***************************************************************************)
(* Proofs about ScrapeSystem: the types of the scraper, that its runs use   *)
(* their lock in the ways of LeaseLock, and what a lock of that kind gives. *)
(***************************************************************************)
EXTENDS ScrapeSystem, ComponentProofs, FiniteSetTheorems, TLAPS

(* The state of the runs.                                                  *)

\* A run keeps its type: what the steps below write is in RunType.
LEMMA ProceedType ==
    ASSUME run \in [Runner -> RunType], NEW r \in Runner, NEW rec \in RunType, Proceed(r, rec)
    PROVE  run' \in [Runner -> RunType]
BY DEF Proceed

LEMMA OffRunType == OffRun \in RunType /\ OffRun.st = "off"
BY ScraperAssumption DEF OffRun, RunType, RunRecord, Source

LEMMA NextNameType ==
    ASSUME NEW r \in Runner, run[r] \in RunType
    PROVE  NextName(r) \in RunType /\ NextName(r).st = "loop"
BY ScraperAssumption DEF NextName, RunType, RunRecord

LEMMA AfterErrorType ==
    ASSUME NEW r \in Runner, run[r] \in RunType
    PROVE  AfterError(r) \in RunType /\ AfterError(r).st = "loop"
<1>1. NextName(r) \in RunType /\ NextName(r).st = "loop"
  BY NextNameType
<1>2. [NextName(r) EXCEPT !.todo = {}] \in RunType /\ [NextName(r) EXCEPT !.todo = {}].st = "loop"
  BY <1>1 DEF RunType, RunRecord
<1> QED
  BY <1>1, <1>2 DEF AfterError

\* A step of a run from which no name and no scan follows.
LEMMA AdvanceType ==
    ASSUME NEW r \in Runner, run[r] \in RunType, run[r].st # "wait",
           NEW st \in {"loop", "finish", "release"}, NEW b \in BOOLEAN
    PROVE  /\ [run[r] EXCEPT !.st = st] \in RunType
           /\ [run[r] EXCEPT !.st = st].st # "off"
           /\ [run[r] EXCEPT !.st = st, !.row = b] \in RunType
BY ScraperAssumption DEF RunType, RunRecord

\* The runs that a step may begin or end, in terms of the set of the running ones.
LEMMA RunningStays ==
    ASSUME run \in [Runner -> RunType], NEW r \in Runner, NEW rec, Proceed(r, rec),
           run[r].st # "off", rec.st # "off"
    PROVE  Running' = Running
BY DEF Proceed, Running

LEMMA RunningBegins ==
    ASSUME run \in [Runner -> RunType], NEW r \in Runner, NEW rec, Proceed(r, rec),
           run[r].st = "off", rec.st # "off"
    PROVE  r \notin Running /\ Running' = Running \cup {r}
BY DEF Proceed, Running

LEMMA RunningEnds ==
    ASSUME run \in [Runner -> RunType], NEW r \in Runner, NEW rec, Proceed(r, rec),
           run[r].st # "off", rec.st = "off"
    PROVE  r \in Running /\ Running' = Running \ {r}
BY DEF Proceed, Running

-----------------------------------------------------------------------------
(* The invariant.                                                          *)

\* A manual run belongs to a request that was answered: a request never takes the
\* lock while it runs already.
ScrapeInv ==
    /\ ScraperTypeOK
    /\ \A r \in Manual : run[r].st # "off" => r \in asked

LEMMA ScrapeInvInit == ScraperInit => ScrapeInv
<1> SUFFICES ASSUME ScraperInit PROVE ScrapeInv
  OBVIOUS
<1>1. 0 \in 0..MaxLapses /\ 1 \in 1..(Len(CronSources) + 1)
  BY ScraperAssumption
<1>2. run \in [Runner -> RunType]
  BY OffRunType DEF ScraperInit
<1>3. \A r \in Manual : run[r].st = "off"
  BY OffRunType DEF ScraperInit, Runner
<1> QED
  BY <1>1, <1>2, <1>3 DEF ScrapeInv, ScraperTypeOK, ScraperInit

\* What a step of a run does to the invariant and to the set of running ones.
LEMMA Steps ==
    ASSUME ScrapeInv, NEW r \in Runner, NEW rec \in RunType, Proceed(r, rec),
           r \in Manual /\ rec.st # "off" => r \in asked',
           lock' \in {"free", "manual", "cron"}, lapses' \in 0..MaxLapses,
           turn' \in 1..(Len(CronSources) + 1), asked' \in SUBSET Manual, asked \subseteq asked',
           openRuns' \in SUBSET RunRow
    PROVE  ScrapeInv'
<1>1. run' \in [Runner -> RunType]
  BY ProceedType DEF ScrapeInv, ScraperTypeOK
<1>2. \A q \in Manual : run'[q].st # "off" => q \in asked'
  BY DEF Proceed, ScrapeInv, ScraperTypeOK, Runner
<1> QED
  BY <1>1, <1>2 DEF ScrapeInv, ScraperTypeOK

LEMMA Idle ==
    ASSUME ScrapeInv, UNCHANGED <<run, asked, openRuns>>,
           lock' \in {"free", "manual", "cron"}, lapses' \in 0..MaxLapses,
           turn' \in 1..(Len(CronSources) + 1)
    PROVE  ScrapeInv' /\ Running' = Running
BY DEF ScrapeInv, ScraperTypeOK, Running

\* The process starts again.
LEMMA Restart ==
    ASSUME ScrapeInv, NEW cancelled, NEW set \in {"free", "manual", "cron"},
           ScraperStartsAgain(cancelled, set)
    PROVE  ScrapeInv' /\ Running' = {} /\ lapses' = lapses
<1>1. run' \in [Runner -> RunType] /\ \A r \in Runner : run'[r].st = "off"
  BY OffRunType DEF ScraperStartsAgain
<1>2. 1 \in 1..(Len(CronSources) + 1)
  BY ScraperAssumption
<1>3. openRuns' \in SUBSET RunRow
  BY DEF ScraperStartsAgain, ScrapeInv, ScraperTypeOK, RunRow
<1> QED
  BY <1>1, <1>2, <1>3 DEF ScraperStartsAgain, ScrapeInv, ScraperTypeOK, Running, Runner

-----------------------------------------------------------------------------
(* The lease.                                                              *)

LEMMA LeaseStutter ==
    ASSUME UNCHANGED <<lock, lapses>>, Running' = Running
    PROVE  UNCHANGED Lease!leaseVars
BY DEF Lease!leaseVars

LeaseStep == [Lease!Next]_Lease!leaseVars

\* A step of a run that keeps going.
LEMMA GoesOn ==
    ASSUME ScrapeInv, NEW r \in Runner, NEW rec \in RunType, Proceed(r, rec),
           run[r].st # "off", rec.st # "off",
           UNCHANGED <<lock, lapses, turn, asked>>, openRuns' \in SUBSET RunRow
    PROVE  ScrapeInv' /\ LeaseStep
<1>1. run \in [Runner -> RunType]
  BY DEF ScrapeInv, ScraperTypeOK
<1>2. ScrapeInv'
  BY Steps DEF ScrapeInv, ScraperTypeOK
<1>3. Running' = Running
  BY <1>1, RunningStays
<1> QED
  BY <1>2, <1>3, LeaseStutter DEF LeaseStep

LEMMA TakesLock ==
    ASSUME ScrapeInv, NEW r \in Runner, NEW source \in Source, CanClaim(r), Claim(r, source),
           run[r].st = "off", r \in Manual => r \in asked',
           UNCHANGED <<lapses, openRuns>>, turn' \in 1..(Len(CronSources) + 1),
           asked' \in SUBSET Manual, asked \subseteq asked'
    PROVE  ScrapeInv' /\ LeaseStep
<1>1. PICK names \in SUBSET Found :
        Proceed(r, [OffRun EXCEPT !.st = "start", !.source = source, !.todo = names])
  BY DEF Claim
<1> DEFINE rec == [OffRun EXCEPT !.st = "start", !.source = source, !.todo = names]
<1>2. rec \in RunType /\ rec.st = "start"
  BY OffRunType DEF OffRun, RunType, RunRecord
<1>3. run \in [Runner -> RunType]
  BY DEF ScrapeInv, ScraperTypeOK
<1>4. lock = "free" /\ lock' \in {"manual", "cron"}
  BY DEF Claim, CanClaim, Kind
<1> HIDE DEF rec
<1>5. Proceed(r, rec)
  BY <1>1 DEF rec
<1>6. ScrapeInv'
  BY <1>2, <1>4, <1>5, Steps DEF ScrapeInv, ScraperTypeOK
<1>7. r \notin Running /\ Running' = Running \cup {r}
  BY <1>2, <1>3, <1>5, RunningBegins
<1>8. Lease!Claim(r)
  BY <1>4, <1>7 DEF Lease!Claim
<1> QED
  BY <1>6, <1>8 DEF LeaseStep, Lease!Next

\* A run ends; the lock is deleted, or stays.
LEMMA Ends ==
    ASSUME ScrapeInv, NEW r \in Runner, Proceed(r, OffRun), run[r].st # "off",
           lock' \in {"free", lock}, UNCHANGED <<lapses, turn, asked, openRuns>>
    PROVE  ScrapeInv' /\ LeaseStep
<1>1. run \in [Runner -> RunType]
  BY DEF ScrapeInv, ScraperTypeOK
<1>2. ScrapeInv'
  BY OffRunType, Steps DEF ScrapeInv, ScraperTypeOK
<1>3. r \in Running /\ Running' = Running \ {r}
  BY <1>1, OffRunType, RunningEnds
<1>4. Lease!Finish(r)
  BY <1>3 DEF Lease!Finish
<1> QED
  BY <1>2, <1>4 DEF LeaseStep, Lease!Next

LEMMA Dies ==
    ASSUME ScrapeInv, NEW cancelled, NEW set \in {"free", "manual", "cron"},
           ScraperStartsAgain(cancelled, set)
    PROVE  ScrapeInv' /\ LeaseStep
<1>1. ScrapeInv' /\ Running' = {} /\ lapses' = lapses
  BY Restart
<1>2. Lease!Die
  BY <1>1 DEF Lease!Die
<1> QED
  BY <1>1, <1>2 DEF LeaseStep, Lease!Next

-----------------------------------------------------------------------------
(* One lemma for each kind of step.                                        *)

LEMMA CronStep ==
    ASSUME ScrapeInv, CronTurn \/ CronWakes
    PROVE  ScrapeInv' /\ LeaseStep
<1>1. turn' \in 1..(Len(CronSources) + 1)
  BY ScraperAssumption DEF CronTurn, CronWakes, ScrapeInv, ScraperTypeOK
<1>2. Cron \in Runner /\ Cron \notin Manual
  BY ScraperAssumption DEF Runner
<1>3. CASE UNCHANGED <<lock, lapses, run, asked, openRuns>>
  <2>1. ScrapeInv' /\ Running' = Running
    BY <1>1, <1>3, Idle DEF ScrapeInv, ScraperTypeOK
  <2> QED
    BY <1>3, <2>1, LeaseStutter DEF LeaseStep
<1>4. CASE CronTurn /\ CanClaim(Cron) /\ Claim(Cron, CronSources[turn])
  <2>1. CronSources[turn] \in Source
    BY <1>4, ScraperAssumption DEF CronTurn, ScrapeInv, ScraperTypeOK
  <2> DEFINE src == CronSources[turn]
  <2> HIDE DEF src
  <2>2. src \in Source /\ Claim(Cron, src)
    BY <1>4, <2>1 DEF src
  <2>3. run[Cron].st = "off" /\ UNCHANGED <<lapses, asked, openRuns>>
    BY <1>4 DEF CronTurn
  <2>4. asked' \in SUBSET Manual
    BY <2>3 DEF ScrapeInv, ScraperTypeOK
  <2> QED
    BY <1>1, <1>2, <1>4, <2>2, <2>3, <2>4, TakesLock
<1> QED
  BY <1>3, <1>4 DEF CronTurn, CronWakes

LEMMA ManualStep ==
    ASSUME ScrapeInv, NEW r \in Runner, ManualRun(r)
    PROVE  ScrapeInv' /\ LeaseStep
<1>1. r \in Manual /\ r \notin asked /\ run[r].st = "off"
  BY DEF ManualRun, ScrapeInv
<1>2. asked' \in SUBSET Manual /\ asked \subseteq asked' /\ r \in asked'
  BY <1>1 DEF ManualRun, ScrapeInv, ScraperTypeOK
<1>3. UNCHANGED <<lapses, turn, openRuns>>
  BY DEF ManualRun
<1>4. turn' \in 1..(Len(CronSources) + 1)
  BY <1>3 DEF ScrapeInv, ScraperTypeOK
<1>5. CASE UNCHANGED <<lock, run>>
  <2>1. ScrapeInv'
    BY <1>2, <1>3, <1>5 DEF ScrapeInv, ScraperTypeOK
  <2>2. Running' = Running
    BY <1>5 DEF Running
  <2> QED
    BY <1>3, <1>5, <2>1, <2>2, LeaseStutter DEF LeaseStep
<1>6. ASSUME CanClaim(r), NEW source \in Source, Claim(r, source) PROVE ScrapeInv' /\ LeaseStep
  BY <1>1, <1>2, <1>3, <1>4, <1>6, TakesLock
<1> QED
  BY <1>5, <1>6 DEF ManualRun

LEMMA RunStepHolds ==
    ASSUME ScrapeInv, NEW r \in Runner, RunStep(r)
    PROVE  ScrapeInv' /\ LeaseStep
<1>1. run[r] \in RunType /\ openRuns \in SUBSET RunRow
  BY DEF ScrapeInv, ScraperTypeOK
<1>2. CASE StartRun(r)
  <2>1. [run[r] EXCEPT !.st = "loop", !.row = TRUE] \in RunType
    BY <1>1, <1>2, AdvanceType DEF StartRun
  <2>2. [run[r] EXCEPT !.st = "loop", !.row = TRUE].st = "loop"
    BY <1>1 DEF RunType, RunRecord
  <2>3. openRuns' \in SUBSET RunRow
    BY <1>1, <1>2 DEF StartRun, RunRow
  <2> QED
    BY <1>1, <1>2, <2>1, <2>2, <2>3, GoesOn DEF StartRun
<1>3. CASE LookCache(r)
  <2>1. PICK d \in run[r].todo :
          LET rest == [run[r] EXCEPT !.todo = @ \ {d}]
          IN  Proceed(r, IF cache[d] # "none" THEN rest ELSE [rest EXCEPT !.st = "lists", !.name = d])
    BY <1>3 DEF LookCache
  <2>2. run[r].st = "loop" /\ d \in Found
    BY <1>1, <1>3, <2>1 DEF LookCache, RunType, RunRecord
  <2> DEFINE rest == [run[r] EXCEPT !.todo = @ \ {d}]
             asks == [rest EXCEPT !.st = "lists", !.name = d]
  <2>3. rest \in RunType /\ rest.st = "loop" /\ asks \in RunType /\ asks.st = "lists"
    BY <1>1, <2>2 DEF RunType, RunRecord
  <2> DEFINE rec == IF cache[d] # "none" THEN rest ELSE asks
  <2>4. Proceed(r, rec)
    BY <2>1
  <2>5. rec \in RunType /\ rec.st # "off"
    BY <2>3
  <2> HIDE DEF rec
  <2> QED
    BY <1>1, <1>3, <2>2, <2>4, <2>5, GoesOn DEF LookCache
<1>4. CASE LookLists(r)
  <2> DEFINE goes == [run[r] EXCEPT !.st = IF run[r].source = "feed" THEN "promote" ELSE "ask"]
             rec  == IF OnList(run[r].name) THEN NextName(r) ELSE goes
  <2>1. run[r].st = "lists" /\ Proceed(r, rec)
    BY <1>4 DEF LookLists
  <2>2. goes \in RunType /\ goes.st # "off"
    BY <1>1, <2>1 DEF RunType, RunRecord, Source
  <2>3. rec \in RunType /\ rec.st # "off"
    BY <1>1, <2>2, NextNameType
  <2> HIDE DEF rec
  <2> QED
    BY <1>1, <1>4, <2>1, <2>3, GoesOn DEF LookLists
<1>5. CASE PromoteFound(r)
  BY <1>1, <1>5, NextNameType, GoesOn DEF PromoteFound
<1>6. CASE EndLoop(r)
  <2> DEFINE st  == IF run[r].row THEN "finish" ELSE "release"
             rec == [run[r] EXCEPT !.st = st]
  <2>1. run[r].st = "loop" /\ Proceed(r, rec) /\ st \in {"finish", "release"}
    BY <1>6 DEF EndLoop, Advance
  <2>2. rec \in RunType /\ rec.st # "off"
    BY <1>1, <2>1, AdvanceType
  <2> HIDE DEF rec
  <2> QED
    BY <1>1, <1>6, <2>1, <2>2, GoesOn DEF EndLoop
<1>7. CASE FinishRun(r)
  <2> DEFINE rec == [run[r] EXCEPT !.st = "release"]
  <2>1. run[r].st = "finish" /\ Proceed(r, rec)
    BY <1>7 DEF FinishRun, Advance
  <2>2. rec \in RunType /\ rec.st # "off"
    BY <1>1, <2>1, AdvanceType
  <2> HIDE DEF rec
  <2> QED
    BY <1>1, <1>7, <2>1, <2>2, GoesOn DEF FinishRun
<1>8. CASE ReleaseLock(r)
  BY <1>8, Ends DEF ReleaseLock
<1> QED
  BY <1>2, <1>3, <1>4, <1>5, <1>6, <1>7, <1>8 DEF RunStep

LEMMA RunFailsHolds ==
    ASSUME ScrapeInv, NEW r \in Runner, RunFails(r)
    PROVE  ScrapeInv' /\ LeaseStep
<1>1. run[r] \in RunType /\ openRuns \in SUBSET RunRow /\ lock \in {"free", "manual", "cron"}
  BY DEF ScrapeInv, ScraperTypeOK
<1>2. CASE SourceFails(r)
  <2>1. PICK names \in SUBSET run[r].todo : Proceed(r, [AfterError(r) EXCEPT !.todo = @ \cap names])
    BY <1>2 DEF SourceFails
  <2>2. AfterError(r) \in RunType /\ AfterError(r).st = "loop"
    BY <1>1, AfterErrorType
  <2> DEFINE rec == [AfterError(r) EXCEPT !.todo = @ \cap names]
  <2>3. rec \in RunType /\ rec.st # "off"
    BY <2>2 DEF RunType, RunRecord
  <2>4. Proceed(r, rec)
    BY <2>1
  <2> HIDE DEF rec
  <2> QED
    BY <1>1, <1>2, <2>3, <2>4, GoesOn DEF SourceFails
<1>3. CASE LookupFails(r)
  <2>1. AfterError(r) \in RunType /\ AfterError(r).st = "loop"
    BY <1>1, AfterErrorType
  <2> QED
    BY <1>1, <1>3, <2>1, GoesOn DEF LookupFails
<1>4. CASE CallFails(r) \/ RowCallFails(r)
  <2>1. CASE CallFails(r)
    BY <1>1, <2>1, NextNameType, GoesOn DEF CallFails
  <2>2. CASE RowCallFails(r)
    <3> DEFINE st  == IF run[r].st = "start" THEN "loop" ELSE "release"
               rec == [run[r] EXCEPT !.st = st]
    <3>1. run[r].st \in {"start", "finish"} /\ Proceed(r, rec) /\ st \in {"loop", "release"}
      BY <2>2 DEF RowCallFails, Advance
    <3>2. rec \in RunType /\ rec.st # "off"
      BY <1>1, <3>1, AdvanceType
    <3>3. openRuns' \in SUBSET RunRow
      BY <1>1, <2>2 DEF RowCallFails, RunRow
    <3> HIDE DEF rec
    <3> QED
      BY <1>1, <2>2, <3>1, <3>2, <3>3, GoesOn DEF RowCallFails
  <2> QED
    BY <1>4, <2>1, <2>2
<1>5. CASE ReleaseFails(r)
  <2>1. CASE r = Cron
    BY <1>1, <1>5, <2>1, Dies DEF ReleaseFails
  <2>2. CASE r # Cron
    BY <1>5, <2>2, Ends DEF ReleaseFails
  <2> QED
    BY <2>1, <2>2
<1>6. CASE ClaimLost(r)
  <2>2. CASE ScraperStartsAgain(Running, "cron")
    BY <2>2, Dies
  <2>3. CASE /\ asked' = asked \cup {r} /\ r \in Manual /\ lock' = "manual"
             /\ UNCHANGED <<lapses, turn, run, openRuns>>
    <3>1. ScrapeInv'
      BY <2>3 DEF ScrapeInv, ScraperTypeOK
    <3>2. Running' = Running
      BY <2>3 DEF Running
    <3>3. Lease!ClaimLost
      BY <2>3, <3>2 DEF Lease!ClaimLost
    <3> QED
      BY <3>1, <3>3 DEF LeaseStep, Lease!Next
  <2> QED
    BY <1>6, <2>2, <2>3 DEF ClaimLost
<1> QED
  BY <1>2, <1>3, <1>4, <1>5, <1>6 DEF RunFails

LEMMA ExpiryHolds ==
    ASSUME ScrapeInv, LockExpires
    PROVE  ScrapeInv' /\ LeaseStep
<1>1. lapses \in 0..MaxLapses /\ MaxLapses \in Nat
  BY ScraperAssumption DEF ScrapeInv, ScraperTypeOK
<1>2. lapses' \in 0..MaxLapses /\ lapses' = lapses + (IF Running = {} THEN 0 ELSE 1)
  BY <1>1 DEF LockExpires
<1>3. ScrapeInv' /\ Running' = Running
  BY <1>2, Idle DEF LockExpires, ScrapeInv, ScraperTypeOK
<1>4. Lease!Lapse
  BY <1>2, <1>3 DEF LockExpires, Lease!Lapse
<1> QED
  BY <1>3, <1>4 DEF LeaseStep, Lease!Next

LEMMA ScraperHolds ==
    ASSUME ScrapeInv, ScraperNext
    PROVE  ScrapeInv' /\ LeaseStep
<1>1. ASSUME NEW r \in Runner, ScanTimesOut(r) PROVE ScrapeInv' /\ LeaseStep
  <2>1. run[r] \in RunType /\ openRuns \in SUBSET RunRow
    BY DEF ScrapeInv, ScraperTypeOK
  <2> QED
    BY <1>1, <2>1, NextNameType, GoesOn DEF ScanTimesOut
<1>2. CASE ScraperDies
  <2>1. lock \in {"free", "manual", "cron"}
    BY DEF ScrapeInv, ScraperTypeOK
  <2> QED
    BY <1>2, <2>1, Dies DEF ScraperDies
<1> QED
  BY <1>1, <1>2, CronStep, ManualStep, RunStepHolds, RunFailsHolds, ExpiryHolds DEF ScraperNext

LEMMA AskHolds ==
    ASSUME ScrapeInv, NEW r \in Runner, NEW j \in Job, AskScan(r, j)
    PROVE  ScrapeInv' /\ LeaseStep
<1>1. run[r] \in RunType /\ openRuns \in SUBSET RunRow
  BY DEF ScrapeInv, ScraperTypeOK
<1> DEFINE rec == [run[r] EXCEPT !.st = "wait", !.scan = j]
<1>2. run[r].st = "ask" /\ Proceed(r, rec)
  BY DEF AskScan
<1>3. rec \in RunType /\ rec.st # "off"
  BY <1>1, <1>2, ScrapeAssumption DEF RunType, RunRecord
<1> HIDE DEF rec
<1> QED
  BY <1>1, <1>2, <1>3, GoesOn DEF AskScan

\* The end of a scan moves the run that waits for it, and ends no run.
LEMMA ReportHolds ==
    ASSUME ScrapeInv, NEW complete \in BOOLEAN, Report(complete),
           UNCHANGED <<lock, lapses, turn, asked, openRuns>>
    PROVE  ScrapeInv' /\ LeaseStep
<1>1. run \in [Runner -> RunType]
  BY DEF ScrapeInv, ScraperTypeOK
<1>2. ASSUME NEW r \in Runner, run[r].scan # NoScan
      PROVE  /\ [run[r] EXCEPT !.st = "promote", !.scan = NoScan] \in RunType
             /\ [run[r] EXCEPT !.st = "promote", !.scan = NoScan].st = "promote"
             /\ run[r].st = "wait"
  BY <1>1, <1>2, ScraperAssumption DEF RunType, RunRecord
<1>3. ASSUME NEW r \in Runner
      PROVE  run'[r] \in RunType /\ (run'[r].st = "off" <=> run[r].st = "off")
  <2>1. run[r] \in RunType /\ NextName(r) \in RunType /\ NextName(r).st = "loop"
    BY <1>1, NextNameType
  <2>2. \/ run'[r] = run[r]
        \/ /\ run[r].scan # NoScan
           /\ run'[r] \in {[run[r] EXCEPT !.st = "promote", !.scan = NoScan], NextName(r)}
    BY DEF Report
  <2> QED
    BY <1>2, <2>1, <2>2
<1>4. run' \in [Runner -> RunType]
  BY <1>3 DEF Report
<1>5. Running' = Running
  BY <1>3 DEF Running
<1>6. ScrapeInv'
  BY <1>3, <1>4 DEF ScrapeInv, ScraperTypeOK, Runner
<1> QED
  BY <1>5, <1>6, LeaseStutter DEF LeaseStep

LEMMA OthersHold ==
    ASSUME ScrapeInv, UNCHANGED scraperVars
    PROVE  ScrapeInv' /\ LeaseStep
<1>1. UNCHANGED <<lock, lapses, turn, asked, run, openRuns>>
  BY DEF scraperVars
<1>2. ScrapeInv' /\ Running' = Running
  BY <1>1 DEF ScrapeInv, ScraperTypeOK, Running
<1> QED
  BY <1>1, <1>2, LeaseStutter DEF LeaseStep

LEMMA SystemStep == ScrapeInv /\ [Next]_scrapeVars => ScrapeInv' /\ LeaseStep
<1> SUFFICES ASSUME ScrapeInv, [Next]_scrapeVars PROVE ScrapeInv' /\ LeaseStep
  OBVIOUS
<1>1. CASE OfScraper(ScraperNext)
  BY <1>1, ScraperHolds DEF OfScraper
<1>2. ASSUME NEW r \in Runner, NEW j \in Job, OfScan(AskScan(r, j)) PROVE ScrapeInv' /\ LeaseStep
  BY <1>2, AskHolds DEF OfScan
<1>3. ASSUME NEW j \in Job, OfScan(ScanGoesOn(j)) PROVE ScrapeInv' /\ LeaseStep
  BY <1>3, ReportHolds DEF OfScan, ScanGoesOn
<1>4. CASE OfScan(ScannerDies)
  BY <1>4, ReportHolds DEF OfScan, ScannerDies
<1>5. CASE OfScanner(ScannerAlone) \/ OfAdmin(AdminNext) \/ OfPublic(PublicNext) \/ OfRedis(RedisExpiry)
  BY <1>5, OthersHold DEF OfScanner, OfAdmin, OfPublic, OfRedis
<1>6. CASE UNCHANGED scrapeVars
  BY <1>6, OthersHold DEF scrapeVars
<1> QED
  BY <1>1, <1>2, <1>3, <1>4, <1>5, <1>6 DEF Next

LEMMA ScrapeInvariance == Spec => []ScrapeInv
<1>1. Init => ScrapeInv
  BY ScrapeInvInit DEF Init
<1>2. ScrapeInv /\ [Next]_scrapeVars => ScrapeInv'
  BY SystemStep
<1> QED
  BY <1>1, <1>2, PTL DEF Spec

\* control.py run_handler, main.py run: the runs of the scraper implement LeaseLock,
\* whatever sites, scanner and administrators do, for any number of manual runs.
THEOREM ScrapeImplementsLease == Spec => ImplementsLease
<1>1. Init => Lease!Init
  BY OffRunType DEF Init, ScraperInit, Lease!Init, Running
<1>2. ScrapeInv /\ [Next]_scrapeVars => [Lease!Next]_Lease!leaseVars
  BY SystemStep DEF LeaseStep
<1> QED
  BY <1>1, <1>2, ScrapeInvariance, PTL DEF Spec, ImplementsLease, Lease!Spec

-----------------------------------------------------------------------------
(* What the lease gives.                                                   *)

\* RunsWithinLapses is not inductive: a run may take a free lock only because the
\* runs beside a free lock are one fewer than those beside a lock that is set.
LeaseInv ==
    /\ IsFiniteSet(Running)
    /\ lapses \in Nat
    /\ Cardinality(Running) <= lapses + (IF lock # "free" THEN 1 ELSE 0)

LEMMA LeaseInvStep == ScrapeInv /\ LeaseInv /\ LeaseStep /\ ScrapeInv' => LeaseInv'
<1> SUFFICES ASSUME ScrapeInv, LeaseInv, LeaseStep, ScrapeInv' PROVE LeaseInv'
  OBVIOUS
<1>1. lapses \in Nat /\ lapses' \in Nat /\ IsFiniteSet(Running) /\ Cardinality(Running) \in Nat
  BY FS_CardinalityType, ScraperAssumption DEF ScrapeInv, ScraperTypeOK, LeaseInv
<1>2. ASSUME NEW r \in Runner, Lease!Claim(r) PROVE LeaseInv'
  <2>1. r \notin Running /\ Running' = Running \cup {r} /\ lock = "free" /\ lock' # "free" /\ lapses' = lapses
    BY <1>2 DEF Lease!Claim
  <2>2. IsFiniteSet(Running') /\ Cardinality(Running') = Cardinality(Running) + 1
    BY <1>1, <2>1, FS_AddElement
  <2> QED
    BY <1>1, <2>1, <2>2 DEF LeaseInv
<1>3. ASSUME NEW r \in Runner, Lease!Finish(r) PROVE LeaseInv'
  <2>1. r \in Running /\ Running' = Running \ {r} /\ lapses' = lapses
    BY <1>3 DEF Lease!Finish
  <2>2. IsFiniteSet(Running') /\ Cardinality(Running') = Cardinality(Running) - 1
    BY <1>1, <2>1, FS_RemoveElement
  <2> QED
    BY <1>1, <2>1, <2>2 DEF LeaseInv
<1>4. CASE Lease!ClaimLost
  BY <1>1, <1>4 DEF Lease!ClaimLost, LeaseInv
<1>5. CASE Lease!Lapse
  <2>1. Running' = Running /\ lock' = "free" /\ lapses' = lapses + (IF Running = {} THEN 0 ELSE 1)
    BY <1>5 DEF Lease!Lapse
  <2>2. Running = {} => Cardinality(Running) = 0
    BY FS_EmptySet
  <2> QED
    BY <1>1, <2>1, <2>2 DEF LeaseInv
<1>6. CASE Lease!Die
  <2>1. Running' = {} /\ lapses' = lapses
    BY <1>6 DEF Lease!Die
  <2>2. IsFiniteSet(Running') /\ Cardinality(Running') = 0
    BY <2>1, FS_EmptySet
  <2> QED
    BY <1>1, <2>1, <2>2 DEF LeaseInv
<1>7. CASE UNCHANGED Lease!leaseVars
  BY <1>1, <1>7 DEF Lease!leaseVars, LeaseInv
<1> QED
  BY <1>2, <1>3, <1>4, <1>5, <1>6, <1>7 DEF LeaseStep, Lease!Next

\* control.py:4, "one scrape at a time": as many runs side by side as TTLs have ended
\* under a run, and one more, however often a run deletes the lock of another one.
THEOREM RunsStayWithinLapses == Spec => []RunsWithinLapses
<1>1. Init => LeaseInv
  <2>1. ASSUME Init PROVE Running = {} /\ lapses = 0
    BY <2>1, OffRunType DEF Init, ScraperInit, Running
  <2>2. ASSUME Init PROVE LeaseInv
    BY <2>1, <2>2, FS_EmptySet DEF LeaseInv
  <2> QED
    BY <2>2
<1>2. ScrapeInv /\ LeaseInv /\ [Next]_scrapeVars => LeaseInv'
  BY SystemStep, LeaseInvStep
<1>3. LeaseInv => RunsWithinLapses
  <2>1. IsFiniteSet(Running) => Cardinality(Running) \in Nat
    BY FS_CardinalityType
  <2> QED
    BY <2>1 DEF LeaseInv, RunsWithinLapses
<1> QED
  BY <1>1, <1>2, <1>3, ScrapeInvariance, PTL DEF Spec

-----------------------------------------------------------------------------
(* Types.                                                                  *)

\* Of the state that it shares with others the scraper writes the blocklist, with the
\* name of a run that promotes it.
LEMMA ScraperWrites ==
    ASSUME ScrapeInv, ScraperNext
    PROVE  /\ UNCHANGED faults \/ Fault
           /\ \/ UNCHANGED seed
              \/ \E r \in Runner : /\ run[r].st = "promote" /\ run[r].name \in Found
                                   /\ seed' = WithSeedRow(run[r].name, "scraped")
<1>1. CASE CronTurn \/ CronWakes \/ LockExpires
  BY <1>1 DEF CronTurn, CronWakes, LockExpires
<1>2. ASSUME NEW r \in Runner, ManualRun(r) \/ ScanTimesOut(r)
      PROVE  UNCHANGED <<seed, faults>>
  BY <1>2 DEF ManualRun, ScanTimesOut
<1>3. ASSUME NEW r \in Runner,
             \/ StartRun(r) \/ LookCache(r) \/ LookLists(r)
             \/ EndLoop(r) \/ FinishRun(r) \/ ReleaseLock(r)
      PROVE  UNCHANGED <<seed, faults>>
  BY <1>3 DEF StartRun, LookCache, LookLists, EndLoop, FinishRun, ReleaseLock
<1>4. ASSUME NEW r \in Runner, PromoteFound(r)
      PROVE  /\ UNCHANGED faults /\ run[r].st = "promote" /\ run[r].name \in Found
             /\ seed' = WithSeedRow(run[r].name, "scraped")
  <2>1. run[r] \in RunType
    BY DEF ScrapeInv, ScraperTypeOK
  <2> QED
    BY <1>4, <2>1 DEF PromoteFound, RunType
<1>5. ASSUME NEW r \in Runner, RunFails(r)
      PROVE  UNCHANGED seed /\ (UNCHANGED faults \/ Fault)
  BY <1>5 DEF RunFails, SourceFails, LookupFails, CallFails, RowCallFails, ReleaseFails, ClaimLost, ScraperStartsAgain
<1>6. CASE ScraperDies
  BY <1>6 DEF ScraperDies, ScraperStartsAgain
<1> QED
  BY <1>1, <1>2, <1>3, <1>4, <1>5, <1>6 DEF ScraperNext, RunStep

LEMMA ScraperKeepsType ==
    ASSUME ScrapeInv, SharedTypeOK, ScraperNext, UNCHANGED <<white, row, report, redisVars, memVars>>
    PROVE  SharedTypeOK'
<1>1. faults' \in 0..MaxFaults
  BY ScraperWrites, BoundAssumption DEF Fault, SharedTypeOK
<1>2. seed' \in [Domain -> {"none"} \cup Category]
  <2>1. Found \subseteq Domain /\ "scraped" \in Category
    BY ScraperAssumption DEF Category
  <2>2. seed \in [Domain -> {"none"} \cup Category]
    BY DEF SharedTypeOK
  <2>3. ASSUME NEW r \in Runner, run[r].name \in Found
        PROVE  WithSeedRow(run[r].name, "scraped") \in [Domain -> {"none"} \cup Category]
    BY <2>1, <2>3, SeedWritten
  <2> QED
    BY <2>2, <2>3, ScraperWrites
<1> QED
  BY <1>1, <1>2 DEF SharedTypeOK, redisVars, memVars

LEMMA ScanKeepsType ==
    ASSUME SharedTypeOK, ScannerTypeOK,
           \/ \E j \in Job : ScannerStep(j) \/ SaveFails(j) \/ UpsertFails(j) \/ PromoteScamFails(j)
           \/ ScannerRestart
    PROVE  SharedTypeOK' /\ ScannerTypeOK'
<1>1. ScannerNext
  BY DEF ScannerNext
<1> QED
  BY <1>1, ScannerKeepsType

LEMMA AloneKeepsType ==
    ASSUME SharedTypeOK, ScannerTypeOK, ScannerAlone
    PROVE  SharedTypeOK' /\ ScannerTypeOK'
<1>1. ScannerNext
  BY DEF ScannerAlone, ScannerNext
<1> QED
  BY <1>1, ScannerKeepsType

LEMMA RacesType ==
    ASSUME Races
    PROVE  raced' \in SUBSET Domain
BY DEF Races

LEMMA ScrapeTypeStep == ScrapeInv /\ TypeOK /\ [Next]_scrapeVars => TypeOK'
<1> SUFFICES ASSUME ScrapeInv, TypeOK, [Next]_scrapeVars PROVE TypeOK'
  OBVIOUS
<1>1. SharedTypeOK /\ ScannerTypeOK /\ AdminTypeOK /\ PublicTypeOK
  BY DEF TypeOK
<1>2. ScraperTypeOK'
  BY SystemStep DEF ScrapeInv
<1>3. CASE OfScraper(ScraperNext)
  <2>1. SharedTypeOK'
    BY <1>1, <1>3, ScraperKeepsType DEF OfScraper
  <2>2. ScannerTypeOK' /\ AdminTypeOK' /\ PublicTypeOK'
    BY <1>1, <1>3 DEF OfScraper, scannerVars, ScannerTypeOK, AdminTypeOK, PublicTypeOK
  <2> QED
    BY <1>2, <1>3, <2>1, <2>2, RacesType DEF OfScraper, TypeOK
<1>4. ASSUME NEW r \in Runner, NEW j \in Job, OfScan(AskScan(r, j)) PROVE TypeOK'
  <2>1. run[r].name \in Domain /\ ControlScan(j, run[r].name) /\ UNCHANGED <<admin, check>>
    <3>1. run[r] \in RunType /\ run[r].st = "ask"
      BY <1>4 DEF OfScan, AskScan, ScrapeInv, ScraperTypeOK
    <3> QED
      BY <1>4, <3>1, ScraperAssumption DEF OfScan, AskScan, RunType
  <2>2. SharedTypeOK' /\ ScannerTypeOK'
    BY <1>1, <2>1, ControlScanKeepsType
  <2> QED
    BY <1>1, <1>2, <1>4, <2>1, <2>2, RacesType DEF OfScan, TypeOK, AdminTypeOK, PublicTypeOK
<1>5. ASSUME NEW j \in Job, OfScan(ScanGoesOn(j)) PROVE TypeOK'
  <2>1. SharedTypeOK' /\ ScannerTypeOK' /\ UNCHANGED <<admin, check>>
    BY <1>1, <1>5, ScanKeepsType DEF OfScan, ScanGoesOn
  <2> QED
    BY <1>1, <1>2, <1>5, <2>1, RacesType DEF OfScan, TypeOK, AdminTypeOK, PublicTypeOK
<1>6. CASE OfScan(ScannerDies)
  <2>1. SharedTypeOK' /\ ScannerTypeOK' /\ UNCHANGED <<admin, check>>
    BY <1>1, <1>6, ScanKeepsType DEF OfScan, ScannerDies
  <2> QED
    BY <1>1, <1>2, <1>6, <2>1, RacesType DEF OfScan, TypeOK, AdminTypeOK, PublicTypeOK
<1>7. CASE OfScanner(ScannerAlone)
  <2>1. SharedTypeOK' /\ ScannerTypeOK' /\ UNCHANGED <<admin, check>>
    BY <1>1, <1>7, AloneKeepsType DEF OfScanner
  <2> QED
    BY <1>1, <1>2, <1>7, <2>1, RacesType DEF OfScanner, TypeOK, AdminTypeOK, PublicTypeOK
<1>8. CASE OfAdmin(AdminNext)
  <2>1. SharedTypeOK' /\ AdminTypeOK' /\ UNCHANGED <<scannerVars, check>>
    BY <1>1, <1>8, AdminKeepsType DEF OfAdmin
  <2> QED
    BY <1>1, <1>2, <1>8, <2>1, RacesType DEF OfAdmin, scannerVars, TypeOK, ScannerTypeOK, PublicTypeOK
<1>9. CASE OfPublic(PublicNext)
  <2>1. SharedTypeOK' /\ PublicTypeOK' /\ UNCHANGED <<scannerVars, admin>>
    BY <1>1, <1>9, PublicKeepsType DEF OfPublic
  <2> QED
    BY <1>1, <1>2, <1>9, <2>1, RacesType DEF OfPublic, scannerVars, TypeOK, ScannerTypeOK, AdminTypeOK
<1>10. CASE OfRedis(RedisExpiry)
  <2>1. SharedTypeOK' /\ UNCHANGED <<scannerVars, admin, check>>
    BY <1>1, <1>10, RedisKeepsType DEF OfRedis
  <2> QED
    BY <1>1, <1>2, <1>10, <2>1, RacesType
    DEF OfRedis, scannerVars, TypeOK, ScannerTypeOK, AdminTypeOK, PublicTypeOK
<1>11. CASE UNCHANGED scrapeVars
  <2>1. SharedTypeOK'
    BY <1>1, <1>11, SharedSame DEF scrapeVars
  <2> QED
    BY <1>1, <1>2, <1>11, <2>1
    DEF scrapeVars, scannerVars, TypeOK, ScannerTypeOK, AdminTypeOK, PublicTypeOK
<1> QED
  BY <1>3, <1>4, <1>5, <1>6, <1>7, <1>8, <1>9, <1>10, <1>11 DEF Next

\* Every variable keeps its type, for any number of manual runs, scans and names: in
\* particular a run waits for a scan exactly in its state "wait", and it is a run of
\* a search that does so.
THEOREM ScrapeTypeCorrect == Spec => []TypeOK
<1>1. Init => TypeOK
  <2>1. Init => ScraperTypeOK
    BY ScrapeInvInit DEF Init, ScrapeInv
  <2> QED
    BY <2>1, SharedInitType, ScannerInitType, AdminInitType, PublicInitType DEF Init, TypeOK
<1> QED
  BY <1>1, ScrapeTypeStep, ScrapeInvariance, PTL DEF Spec

-----------------------------------------------------------------------------
(* Races for the lists.                                                    *)

\* OnlyRacesListTwice is not inductive: a name that is in flight will be listed
\* without another look, so it must be known as raced before the row is written.
RaceInv ==
    /\ OnlyRacesListTwice
    /\ \A d \in Domain : InFlight(d) /\ d \in white => d \in raced

\* What a step may do: take up a name that it finds off the whitelist, and write a
\* row for a name that was in flight or is not on the whitelist.
NewFlights == \A d \in Domain : InFlight(d)' => InFlight(d) \/ d \notin white'
NewRows ==
    \A d \in Domain :
        seed'[d] \in Added /\ d \in white' => (seed[d] \in Added /\ d \in white) \/ InFlight(d)

LEMMA RacesAreNoticed ==
    ASSUME RaceInv, Races, NewFlights, NewRows
    PROVE  RaceInv'
<1>1. \A d \in Domain : d \in white' /\ (d \in raced \/ (d \notin white /\ InFlight(d))) => d \in raced'
  BY DEF Races
<1>2. ASSUME NEW d \in Domain, InFlight(d), d \in white' PROVE d \in raced'
  BY <1>1, <1>2 DEF RaceInv
<1>3. ASSUME NEW d \in Domain, seed'[d] \in Added, d \in white' PROVE d \in raced'
  BY <1>1, <1>2, <1>3 DEF RaceInv, OnlyRacesListTwice, NewRows
<1>4. ASSUME NEW d \in Domain, InFlight(d)', d \in white' PROVE d \in raced'
  BY <1>2, <1>4 DEF NewFlights
<1> QED
  BY <1>3, <1>4 DEF RaceInv, OnlyRacesListTwice

\* The name that a run is at work on.
OfRun(rec, d) == rec.name = d /\ rec.st \in {"ask", "wait", "promote"}

LEMMA FlightOf ==
    ASSUME NEW d
    PROVE  InFlight(d) <=> \E r \in Runner : OfRun(run[r], d)
BY DEF InFlight, OfRun

\* A run that goes on with the name that it was at work on, or with none.
LEMMA SameName ==
    ASSUME run \in [Runner -> RunType], NEW r \in Runner, NEW rec, Proceed(r, rec),
           \A d \in Domain : OfRun(rec, d) => OfRun(run[r], d) \/ d \notin white'
    PROVE  NewFlights
<1>1. \A q \in Runner : run'[q] = IF q = r THEN rec ELSE run[q]
  BY DEF Proceed
<1>2. ASSUME NEW d \in Domain, NEW q \in Runner, OfRun(run'[q], d)
      PROVE  InFlight(d) \/ d \notin white'
  BY <1>1, <1>2, FlightOf
<1> QED
  BY <1>2 DEF NewFlights, InFlight, OfRun

LEMMA NoName ==
    ASSUME run \in [Runner -> RunType], NEW r \in Runner, NEW rec, Proceed(r, rec),
           rec.st \notin {"ask", "wait", "promote"}
    PROVE  NewFlights
BY SameName DEF OfRun

LEMMA NoRuns ==
    ASSUME UNCHANGED run \/ \A r \in Runner : run'[r] = OffRun
    PROVE  NewFlights
<1>1. CASE UNCHANGED run
  BY <1>1 DEF NewFlights, InFlight
<1>2. CASE \A r \in Runner : run'[r] = OffRun
  BY <1>2, OffRunType DEF NewFlights, InFlight
<1> QED
  BY <1>1, <1>2

LEMMA ScraperFlights ==
    ASSUME ScrapeInv, ScraperNext, UNCHANGED white
    PROVE  NewFlights
<1>1. run \in [Runner -> RunType] /\ \A r \in Runner : run[r] \in RunType
  BY DEF ScrapeInv, ScraperTypeOK
<1>2. Cron \in Runner
  BY DEF Runner
<1>3. ASSUME NEW r \in Runner, NEW source, Claim(r, source) PROVE NewFlights
  <2>1. PICK names \in SUBSET Found :
          Proceed(r, [OffRun EXCEPT !.st = "start", !.source = source, !.todo = names])
    BY <1>3 DEF Claim
  <2>2. [OffRun EXCEPT !.st = "start", !.source = source, !.todo = names].st = "start"
    BY DEF OffRun
  <2> QED
    BY <1>1, <2>1, <2>2, NoName
<1>4. CASE CronTurn \/ CronWakes \/ LockExpires
  BY <1>2, <1>3, <1>4, NoRuns DEF CronTurn, CronWakes, LockExpires
<1>5. ASSUME NEW r \in Runner, ManualRun(r) PROVE NewFlights
  BY <1>3, <1>5, NoRuns DEF ManualRun
<1>6. ASSUME NEW r \in Runner, LookCache(r) PROVE NewFlights
  <2>1. PICK d \in run[r].todo :
          LET rest == [run[r] EXCEPT !.todo = @ \ {d}]
          IN  Proceed(r, IF cache[d] # "none" THEN rest ELSE [rest EXCEPT !.st = "lists", !.name = d])
    BY <1>6 DEF LookCache
  <2> DEFINE rest == [run[r] EXCEPT !.todo = @ \ {d}]
             rec  == IF cache[d] # "none" THEN rest ELSE [rest EXCEPT !.st = "lists", !.name = d]
  <2>2. rec.st \in {"loop", "lists"}
    BY <1>1, <1>6 DEF LookCache, RunType, RunRecord
  <2>3. Proceed(r, rec)
    BY <2>1
  <2> HIDE DEF rec
  <2> QED
    BY <1>1, <2>2, <2>3, NoName
<1>7. ASSUME NEW r \in Runner, LookLists(r) PROVE NewFlights
  <2> DEFINE goes == [run[r] EXCEPT !.st = IF run[r].source = "feed" THEN "promote" ELSE "ask"]
             rec  == IF OnList(run[r].name) THEN NextName(r) ELSE goes
  <2>1. Proceed(r, rec)
    BY <1>7 DEF LookLists
  <2>2. CASE OnList(run[r].name)
    <3>1. rec.st = "loop"
      BY <1>1, <2>2, NextNameType
    <3> HIDE DEF rec
    <3> QED
      BY <1>1, <2>1, <3>1, NoName
  <2>3. CASE ~OnList(run[r].name)
    <3>1. rec.name = run[r].name /\ rec.name \notin white'
      BY <1>1, <2>3 DEF OnList, RunType, RunRecord
    <3> HIDE DEF rec
    <3> QED
      BY <1>1, <2>1, <3>1, SameName DEF OfRun
  <2> QED
    BY <2>2, <2>3
<1>8. ASSUME NEW r \in Runner,
             StartRun(r) \/ EndLoop(r) \/ FinishRun(r) \/ ReleaseLock(r)
      PROVE  NewFlights
  <2>1. ASSUME NEW st \in {"loop", "finish", "release"}, NEW rec,
               rec \in {[run[r] EXCEPT !.st = st], [run[r] EXCEPT !.st = st, !.row = TRUE]}
        PROVE  rec.st \notin {"ask", "wait", "promote"}
    BY <1>1, <2>1 DEF RunType, RunRecord
  <2>2. CASE StartRun(r)
    BY <1>1, <2>1, <2>2, NoName DEF StartRun
  <2>3. CASE EndLoop(r)
    BY <1>1, <2>1, <2>3, NoName DEF EndLoop, Advance
  <2>4. CASE FinishRun(r)
    BY <1>1, <2>1, <2>4, NoName DEF FinishRun, Advance
  <2>5. CASE ReleaseLock(r)
    BY <1>1, <2>5, OffRunType, NoName DEF ReleaseLock
  <2> QED
    BY <1>8, <2>2, <2>3, <2>4, <2>5
<1>9. ASSUME NEW r \in Runner, PromoteFound(r) \/ ScanTimesOut(r) PROVE NewFlights
  <2>1. Proceed(r, NextName(r)) /\ NextName(r).st = "loop"
    BY <1>1, <1>9, NextNameType DEF PromoteFound, ScanTimesOut
  <2> QED
    BY <1>1, <2>1, NoName
<1>10. ASSUME NEW r \in Runner, SourceFails(r) \/ LookupFails(r) PROVE NewFlights
  <2>1. AfterError(r) \in RunType /\ AfterError(r).st = "loop"
    BY <1>1, AfterErrorType
  <2>2. CASE SourceFails(r)
    <3>1. PICK names \in SUBSET run[r].todo : Proceed(r, [AfterError(r) EXCEPT !.todo = @ \cap names])
      BY <2>2 DEF SourceFails
    <3>2. [AfterError(r) EXCEPT !.todo = @ \cap names].st = "loop"
      BY <2>1 DEF RunType, RunRecord
    <3> QED
      BY <1>1, <3>1, <3>2, NoName
  <2>3. CASE LookupFails(r)
    BY <1>1, <2>1, <2>3, NoName DEF LookupFails
  <2> QED
    BY <1>10, <2>2, <2>3
<1>11. ASSUME NEW r \in Runner, CallFails(r) \/ RowCallFails(r) PROVE NewFlights
  <2>1. CASE CallFails(r)
    BY <1>1, <2>1, NextNameType, NoName DEF CallFails
  <2>2. CASE RowCallFails(r)
    <3> DEFINE rec == [run[r] EXCEPT !.st = IF run[r].st = "start" THEN "loop" ELSE "release"]
    <3>1. Proceed(r, rec)
      BY <2>2 DEF RowCallFails, Advance
    <3>2. rec.st \in {"release", "loop"}
      BY <1>1 DEF RunType, RunRecord
    <3> HIDE DEF rec
    <3> QED
      BY <1>1, <3>1, <3>2, NoName
  <2> QED
    BY <1>11, <2>1, <2>2
<1>12. ASSUME NEW r \in Runner, ReleaseFails(r) \/ ClaimLost(r) PROVE NewFlights
  <2>1. UNCHANGED run \/ (\A q \in Runner : run'[q] = OffRun) \/ Proceed(r, OffRun)
    BY <1>12 DEF ReleaseFails, ClaimLost, ScraperStartsAgain
  <2> QED
    BY <1>1, <2>1, OffRunType, NoRuns, NoName
<1>13. CASE ScraperDies
  BY <1>13, NoRuns DEF ScraperDies, ScraperStartsAgain
<1> QED
  BY <1>4, <1>5, <1>6, <1>7, <1>8, <1>9, <1>10, <1>11, <1>12, <1>13
  DEF ScraperNext, RunStep, RunFails

\* A row for the name of a run.
LEMMA RowInFlight ==
    ASSUME seed \in [Domain -> {"none"} \cup Category], UNCHANGED white,
           NEW d \in Domain, InFlight(d), NEW category, seed' = WithSeedRow(d, category)
    PROVE  NewRows
BY DEF NewRows, WithSeedRow

LEMMA NoRow ==
    ASSUME UNCHANGED <<seed, white>>
    PROVE  NewRows
BY DEF NewRows

LEMMA ScraperRows ==
    ASSUME ScrapeInv, SharedTypeOK, ScraperNext, UNCHANGED white
    PROVE  NewRows
<1>1. CASE UNCHANGED seed
  BY <1>1, NoRow
<1>2. ASSUME NEW r \in Runner, run[r].st = "promote", run[r].name \in Found,
             seed' = WithSeedRow(run[r].name, "scraped")
      PROVE  NewRows
  <2>1. run[r].name \in Domain /\ InFlight(run[r].name)
    BY <1>2, ScraperAssumption DEF InFlight
  <2> QED
    BY <1>2, <2>1, RowInFlight DEF SharedTypeOK
<1> QED
  BY <1>1, <1>2, ScraperWrites

\* The promotion of a scan may put any name on both lists: its row is none of Added.
LEMMA ScanRows ==
    ASSUME seed \in [Domain -> {"none"} \cup Category], UNCHANGED white,
           NEW j \in Job, ScannerStep(j) \/ SaveFails(j) \/ UpsertFails(j) \/ PromoteScamFails(j)
    PROVE  NewRows
<1>1. CASE UNCHANGED seed
  BY <1>1, NoRow
<1>2. CASE seed' = WithSeedRow(jobs[j].name, "ai-confirmed")
  BY <1>2 DEF NewRows, WithSeedRow, Added
<1> QED
  BY <1>1, <1>2
  DEF ScannerStep, BeginScan, ControlScanEmpty, SaveVerdict, SaveError, UpsertRow, PromoteScam,
      SaveFails, UpsertFails, PromoteScamFails, pgVars

LEMMA ScanKeepsWhite ==
    ASSUME NEW j \in Job, ScannerStep(j) \/ SaveFails(j) \/ UpsertFails(j) \/ PromoteScamFails(j)
    PROVE  UNCHANGED white
BY DEF ScannerStep, BeginScan, ControlScanEmpty, SaveVerdict, SaveError, UpsertRow, PromoteScam,
       SaveFails, UpsertFails, PromoteScamFails, pgVars

\* The report of a scan takes a run from "wait" to "promote" with the same name, or to
\* its next name.
LEMMA ReportFlights ==
    ASSUME ScrapeInv, NEW complete \in BOOLEAN, Report(complete)
    PROVE  NewFlights
<1>1. ASSUME NEW r \in Runner, NEW d, OfRun(run'[r], d) PROVE OfRun(run[r], d)
  <2>1. run[r] \in RunType /\ NextName(r).st = "loop"
    BY NextNameType DEF ScrapeInv, ScraperTypeOK
  <2>2. \/ run'[r] = run[r]
        \/ run[r].scan # NoScan /\ run'[r] = [run[r] EXCEPT !.st = "promote", !.scan = NoScan]
        \/ run'[r] = NextName(r)
    BY DEF Report
  <2>3. run[r].scan # NoScan => run[r].st = "wait"
    BY <2>1 DEF RunType, RunRecord
  <2>4. [run[r] EXCEPT !.st = "promote", !.scan = NoScan].name = run[r].name
    BY <2>1 DEF RunType, RunRecord
  <2> QED
    BY <1>1, <2>1, <2>2, <2>3, <2>4 DEF OfRun
<1> QED
  BY <1>1 DEF NewFlights, InFlight, OfRun

LEMMA AskFlights ==
    ASSUME ScrapeInv, NEW r \in Runner, NEW j \in Job, AskScan(r, j)
    PROVE  NewFlights /\ NewRows
<1> DEFINE rec == [run[r] EXCEPT !.st = "wait", !.scan = j]
<1>1. run[r].st = "ask" /\ Proceed(r, rec) /\ UNCHANGED <<seed, white>>
  BY DEF AskScan, ControlScan, pgVars
<1>2. run \in [Runner -> RunType] /\ rec.name = run[r].name
  BY DEF ScrapeInv, ScraperTypeOK, RunType, RunRecord
<1> HIDE DEF rec
<1>3. NewFlights
  BY <1>1, <1>2, SameName DEF OfRun
<1> QED
  BY <1>1, <1>3, NoRow

\* An edit of the blocklist that adds a row takes the name off the whitelist, one of
\* the whitelist deletes the row; a confirmed report writes a row of another kind.
LEMMA AdminRows ==
    ASSUME SharedTypeOK, AdminNext
    PROVE  NewRows
<1>1. seed \in [Domain -> {"none"} \cup Category] /\ Managed \subseteq Domain /\ Reported \subseteq Domain
  BY AdminAssumption DEF SharedTypeOK
<1>2. ASSUME NEW d \in Managed, AddBlocklist(d) PROVE NewRows
  BY <1>1, <1>2 DEF AddBlocklist, NewRows, WithSeedRow
<1>3. ASSUME NEW d \in Managed, AddWhitelist(d) PROVE NewRows
  BY <1>1, <1>3 DEF AddWhitelist, NewRows, NoSeedRow, Added
<1>4. ASSUME NEW d \in Managed, RemoveBlocklist(d) \/ RemoveWhitelist(d) PROVE NewRows
  BY <1>1, <1>4 DEF RemoveBlocklist, RemoveWhitelist, NewRows, NoSeedRow, Added
<1>5. ASSUME NEW d \in Reported, ConfirmReport(d) PROVE NewRows
  BY <1>1, <1>5 DEF ConfirmReport, NewRows, WithSeedRow, Added
<1>6. ASSUME NEW d \in Reported, SubmitReport(d) \/ RejectReport(d) PROVE NewRows
  BY <1>6, NoRow DEF SubmitReport, RejectReport
<1>7. CASE AdminStep \/ AdminFails
  BY <1>7, NoRow DEF AdminStep, DemoteVerdict, ClearVerdict, AdminFails, pgVars
<1> QED
  BY <1>2, <1>3, <1>4, <1>5, <1>6, <1>7 DEF AdminNext

LEMMA RaceStep == ScrapeInv /\ TypeOK /\ RaceInv /\ [Next]_scrapeVars => RaceInv'
<1> SUFFICES ASSUME ScrapeInv, TypeOK, RaceInv, [Next]_scrapeVars PROVE RaceInv'
  OBVIOUS
<1>1. SharedTypeOK /\ seed \in [Domain -> {"none"} \cup Category]
  BY DEF TypeOK, SharedTypeOK
<1>2. CASE OfScraper(ScraperNext)
  <2>1. ScraperNext /\ UNCHANGED white /\ Races
    BY <1>2 DEF OfScraper
  <2> QED
    BY <1>1, <2>1, ScraperFlights, ScraperRows, RacesAreNoticed
<1>3. ASSUME NEW r \in Runner, NEW j \in Job, OfScan(AskScan(r, j)) PROVE RaceInv'
  BY <1>3, AskFlights, RacesAreNoticed DEF OfScan
<1>4. ASSUME NEW j \in Job, OfScan(ScanGoesOn(j)) PROVE RaceInv'
  <2>1. NewFlights
    BY <1>4, ReportFlights DEF OfScan, ScanGoesOn
  <2>2. NewRows
    BY <1>1, <1>4, ScanKeepsWhite, ScanRows DEF OfScan, ScanGoesOn
  <2> QED
    BY <1>4, <2>1, <2>2, RacesAreNoticed DEF OfScan
<1>5. CASE OfScan(ScannerDies)
  <2>1. UNCHANGED <<seed, white>>
    BY <1>5 DEF OfScan, ScannerDies, ScannerRestart, pgVars
  <2> QED
    BY <1>5, <2>1, ReportFlights, NoRow, RacesAreNoticed DEF OfScan, ScannerDies
<1>6. CASE OfAdmin(AdminNext)
  <2>1. UNCHANGED run
    BY <1>6 DEF OfAdmin, scraperVars
  <2> QED
    BY <1>1, <1>6, <2>1, NoRuns, AdminRows, RacesAreNoticed DEF OfAdmin
<1>7. CASE OfScanner(ScannerAlone) \/ OfPublic(PublicNext) \/ OfRedis(RedisExpiry)
  <2>1. UNCHANGED run /\ Races
    BY <1>7 DEF OfScanner, OfPublic, OfRedis, scraperVars
  <2>2. UNCHANGED <<seed, white>>
    <3>1. CASE ScannerAlone
      BY <3>1 DEF ScannerAlone, Pop, ControlScan, PopFails, OperatorRestart, pgVars
    <3>2. CASE PublicNext
      BY <3>2 DEF PublicNext, PublicStep, CheckBlocklist, CheckCache, CheckRow, CheckEnqueue,
                  CheckFails, pgVars
    <3>3. CASE RedisExpiry
      BY <3>3 DEF RedisExpiry, ExpireVerdict, ExpireRateLimit, pgVars
    <3> QED
      BY <1>7, <3>1, <3>2, <3>3 DEF OfScanner, OfPublic, OfRedis
  <2> QED
    BY <2>1, <2>2, NoRuns, NoRow, RacesAreNoticed
<1>8. CASE UNCHANGED scrapeVars
  BY <1>8 DEF scrapeVars, scraperVars, pgVars, RaceInv, OnlyRacesListTwice, InFlight
<1> QED
  BY <1>2, <1>3, <1>4, <1>5, <1>6, <1>7, <1>8 DEF Next

\* worker.py _already_known, admin.py add_whitelist: for any number of runs, scans and
\* names, whoever starts the scans, a name has a row that a run or an administrator added
\* and one of the whitelist only if it was whitelisted while a run was at work on it. No
\* other order of look-ups, scans, edits, expiries, crashes and failed calls leads there.
\* The rows that a scan adds itself are outside: PromotionHeedsWhitelist does not hold.
THEOREM ListedTwiceMeansRaced == Spec => []OnlyRacesListTwice
<1>1. Init => RaceInv
  <2> SUFFICES ASSUME Init PROVE RaceInv
    OBVIOUS
  <2>1. \A d \in Domain : seed[d] \notin Added
    BY DEF Init, SharedInit, Added
  <2>2. \A r \in Runner : run[r].st = "off"
    BY OffRunType DEF Init, ScraperInit
  <2> QED
    BY <2>1, <2>2 DEF RaceInv, OnlyRacesListTwice, InFlight
<1>2. RaceInv => OnlyRacesListTwice
  BY DEF RaceInv
<1> QED
  BY <1>1, <1>2, RaceStep, ScrapeInvariance, ScrapeTypeCorrect, PTL DEF Spec
=============================================================================
