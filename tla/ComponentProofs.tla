--------------------------- MODULE ComponentProofs ---------------------------
(***************************************************************************)
(* The steps of the scanner, of an administrator, of /check and of Redis   *)
(* keep the types of the shared state and their own: for ScamLens and      *)
(* ScrapeSystem, which both contain them.                                  *)
(***************************************************************************)
EXTENDS Scanner, AdminApi, PublicApi, TLAPS

USE DomainAssumption, BoundAssumption, ScannerAssumption, AdminAssumption,
    PublicAssumption

(* The shared state.                                                       *)

LEMMA SharedInitType == SharedInit => SharedTypeOK
  BY DEF SharedInit, SharedTypeOK, Category, RowValue, ReportStatus, CacheValue

LEMMA SharedSame ==
    ASSUME SharedTypeOK, UNCHANGED <<pgVars, redisVars, memVars>>, faults' = faults
    PROVE  SharedTypeOK'
  BY DEF SharedTypeOK, pgVars, redisVars, memVars

LEMMA SharedSameFault ==
    ASSUME SharedTypeOK, UNCHANGED <<pgVars, redisVars, memVars>>, Fault
    PROVE  SharedTypeOK'
  BY DEF SharedTypeOK, pgVars, redisVars, memVars, Fault

\* A step that gives a name a blocklist row.
LEMMA SeedWritten ==
    ASSUME SharedTypeOK, NEW d \in Domain, NEW category \in Category
    PROVE  WithSeedRow(d, category) \in [Domain -> {"none"} \cup Category]
  BY DEF SharedTypeOK, WithSeedRow

LEMMA EnqueueType ==
    ASSUME SharedTypeOK, NEW d \in Domain, Enqueue(d)
    PROVE  queue' \in Seq(Domain)
  BY DEF SharedTypeOK, Enqueue

LEMMA RedisKeepsType ==
    ASSUME SharedTypeOK, RedisExpiry
    PROVE  SharedTypeOK'
  <1>1. ASSUME NEW d \in Domain, ExpireVerdict(d) PROVE SharedTypeOK'
    <2>1. "none" \in CacheValue
      BY DEF CacheValue
    <2> QED BY <1>1, <2>1 DEF ExpireVerdict, SharedTypeOK, pgVars, memVars
  <1>2. ASSUME NEW d \in Domain, ExpireRateLimit(d) PROVE SharedTypeOK'
    BY <1>2 DEF ExpireRateLimit, SharedTypeOK, pgVars, memVars
  <1> QED BY <1>1, <1>2 DEF RedisExpiry

-----------------------------------------------------------------------------
(* The scanner.                                                            *)

LEMMA ScannerInitType == ScannerInit => ScannerTypeOK
  BY DEF ScannerInit, ScannerTypeOK, FreeJob, JobType, JobRecord

\* The records that a scan goes through.
LEMMA JobRecords ==
    ASSUME ScannerTypeOK, NEW j \in Job
    PROVE  /\ FreeJob \in JobType
           /\ \A d \in Domain, queued \in BOOLEAN, st \in {"waiting", "scanning"} :
                NewJob(st, queued, d) \in JobType
           /\ jobs[j].st = "waiting" => [jobs[j] EXCEPT !.st = "scanning"] \in JobType
           /\ jobs[j].st # "free" => jobs[j].name \in Domain
           /\ jobs[j].st = "upsert" => AfterUpsert(j) \in JobType
  <1> DEFINE rec == jobs[j]
  <1>1. rec \in JobType
    BY DEF ScannerTypeOK
  <1>2. FreeJob \in JobType
    BY DEF FreeJob, JobType, JobRecord
  <1>3. ASSUME NEW d \in Domain, NEW queued \in BOOLEAN, NEW st \in {"waiting", "scanning"}
        PROVE  NewJob(st, queued, d) \in JobType
    BY DEF NewJob, FreeJob, JobType, JobRecord
  <1>4. rec.st # "free" => rec.name \in Domain
    BY <1>1 DEF JobType
  <1>5. rec.st = "waiting" => [rec EXCEPT !.st = "scanning"] \in JobType
    BY <1>1 DEF JobType, JobRecord
  <1>6. rec.st = "upsert" => [rec EXCEPT !.st = "promote"] \in JobType
    BY <1>1 DEF JobType, JobRecord
  <1> QED BY <1>2, <1>3, <1>4, <1>5, <1>6 DEF AfterUpsert

\* /scan, for any name: the scraper asks for others than the administrators.
LEMMA ControlScanKeepsType ==
    ASSUME SharedTypeOK, ScannerTypeOK, NEW j \in Job, NEW d \in Domain, ControlScan(j, d)
    PROVE  SharedTypeOK' /\ ScannerTypeOK'
  <1>1. ScannerTypeOK'
    BY JobRecords DEF ControlScan, Become, ScannerTypeOK
  <1> QED BY <1>1, SharedSame DEF ControlScan

LEMMA ScannerKeepsType ==
    ASSUME SharedTypeOK, ScannerTypeOK, ScannerNext
    PROVE  SharedTypeOK' /\ ScannerTypeOK'
  <1>r. ASSUME NEW j \in Job, NEW rec \in JobType, Become(j, rec), popping' = popping
        PROVE  ScannerTypeOK'
    BY <1>r DEF Become, ScannerTypeOK
  <1>1. ASSUME NEW j \in Job, Pop(j) PROVE SharedTypeOK' /\ ScannerTypeOK'
    <2>1. Head(queue) \in Domain /\ Tail(queue) \in Seq(Domain)
      BY <1>1 DEF Pop, SharedTypeOK
    <2>2. ScannerTypeOK'
      BY <1>1, <1>r, <2>1, JobRecords DEF Pop
    <2>3. SharedTypeOK'
      BY <1>1, <2>1 DEF Pop, SharedTypeOK, pgVars, memVars
    <2> QED BY <2>2, <2>3
  <1>2. ASSUME NEW j \in Job, NEW d \in Controlled, ControlScan(j, d)
        PROVE  SharedTypeOK' /\ ScannerTypeOK'
    BY <1>2, ControlScanKeepsType
  <1>3. ASSUME NEW j \in Job, BeginScan(j) PROVE SharedTypeOK' /\ ScannerTypeOK'
    BY <1>3, <1>r, JobRecords, SharedSame DEF BeginScan
  <1>4. ASSUME NEW j \in Job, ControlScanEmpty(j) PROVE SharedTypeOK' /\ ScannerTypeOK'
    BY <1>4, <1>r, JobRecords, SharedSame DEF ControlScanEmpty
  <1>5. ASSUME NEW j \in Job, SaveVerdict(j) PROVE SharedTypeOK' /\ ScannerTypeOK'
    <2>1. jobs[j] \in JobType /\ jobs[j].st = "scanning" /\ jobs[j].name \in Domain
      BY <1>5 DEF SaveVerdict, ScannerTypeOK, JobType
    <2>2. PICK v \in {"safe", "suspicious", "scam"}, sure \in BOOLEAN :
            /\ sure => v = "scam"
            /\ cache' = [cache EXCEPT ![jobs[j].name] = v]
            /\ Become(j, [jobs[j] EXCEPT !.st = "upsert", !.verdict = v, !.sure = sure])
      BY <1>5 DEF SaveVerdict
    <2>3. [jobs[j] EXCEPT !.st = "upsert", !.verdict = v, !.sure = sure] \in JobType
      BY <2>1, <2>2 DEF JobType, JobRecord
    <2>4. v \in CacheValue
      BY DEF CacheValue, Blocking
    <2>5. SharedTypeOK'
      BY <1>5, <2>1, <2>2, <2>4 DEF SaveVerdict, SharedTypeOK, pgVars, memVars
    <2> QED BY <1>5, <1>r, <2>2, <2>3, <2>5 DEF SaveVerdict
  <1>6. ASSUME NEW j \in Job, SaveError(j) PROVE SharedTypeOK' /\ ScannerTypeOK'
    <2>1. jobs[j].name \in Domain /\ "unverified" \in CacheValue
      BY <1>6, JobRecords DEF SaveError, CacheValue, Blocking
    <2>2. SharedTypeOK'
      BY <1>6, <2>1 DEF SaveError, SharedTypeOK, pgVars, memVars
    <2> QED BY <1>6, <1>r, <2>2, JobRecords DEF SaveError
  <1>7. ASSUME NEW j \in Job, UpsertRow(j) PROVE SharedTypeOK' /\ ScannerTypeOK'
    <2>1. jobs[j].name \in Domain /\ jobs[j].verdict \in RowValue
      BY <1>7 DEF UpsertRow, ScannerTypeOK, JobType, JobRecord, RowValue, BadRow
    <2>2. SharedTypeOK'
      BY <1>7, <2>1 DEF UpsertRow, SharedTypeOK, redisVars, memVars
    <2> QED BY <1>7, <1>r, <2>2, JobRecords DEF UpsertRow
  <1>8. ASSUME NEW j \in Job, PromoteScam(j) PROVE SharedTypeOK' /\ ScannerTypeOK'
    <2>1. jobs[j].name \in Domain /\ "ai-confirmed" \in Category
      BY <1>8, JobRecords DEF PromoteScam, Category
    <2>2. seed' \in [Domain -> {"none"} \cup Category]
      BY <1>8, <2>1, SeedWritten DEF PromoteScam
    <2>3. SharedTypeOK'
      BY <1>8, <2>2 DEF PromoteScam, SharedTypeOK, redisVars, memVars
    <2> QED BY <1>8, <1>r, <2>3, JobRecords DEF PromoteScam
  <1>9. ASSUME NEW j \in Job, SaveFails(j) \/ UpsertFails(j) \/ PromoteScamFails(j)
        PROVE  SharedTypeOK' /\ ScannerTypeOK'
    BY <1>9, <1>r, JobRecords, SharedSameFault DEF SaveFails, UpsertFails, PromoteScamFails
  <1>10. ASSUME ScannerRestart PROVE SharedTypeOK' /\ ScannerTypeOK'
    <2>1. FreeJob \in JobType
      BY DEF FreeJob, JobType, JobRecord
    <2> QED BY <1>10, <2>1, SharedSameFault DEF ScannerRestart, ScannerTypeOK
  <1>11. ASSUME PopFails PROVE SharedTypeOK' /\ ScannerTypeOK'
    <2>1. queue' \in Seq(Domain)
      <3>1. queue \in Seq(Domain) /\ (queue # <<>> => Tail(queue) \in Seq(Domain))
        BY DEF SharedTypeOK
      <3> QED BY <1>11, <3>1 DEF PopFails
    <2>2. SharedTypeOK'
      BY <1>11, <2>1 DEF PopFails, Fault, SharedTypeOK, pgVars, memVars
    <2> QED BY <1>11, <2>2 DEF PopFails, ScannerTypeOK
  <1>12. ASSUME OperatorRestart PROVE SharedTypeOK' /\ ScannerTypeOK'
    BY <1>12, SharedSame DEF OperatorRestart, ScannerTypeOK
  <1> QED
    BY <1>1, <1>2, <1>3, <1>4, <1>5, <1>6, <1>7, <1>8, <1>9, <1>10, <1>11, <1>12
    DEF ScannerNext, ScannerStep

-----------------------------------------------------------------------------
(* The administrator.                                                      *)

LEMMA AdminInitType == AdminInit => AdminTypeOK
  BY DEF AdminInit, AdminTypeOK, IdleAdmin, AdminRecord

LEMMA AdminKeepsType ==
    ASSUME SharedTypeOK, AdminTypeOK, AdminNext
    PROVE  SharedTypeOK' /\ AdminTypeOK'
  <1>h. ASSUME NEW d \in Domain, NEW st \in {"demote", "clear"},
               NEW op \in {"add_blocklist", "remove_blocklist", "add_whitelist", "remove_whitelist"},
               Handle(st, op, d)
        PROVE  AdminTypeOK'
    BY <1>h DEF Handle, AdminTypeOK, AdminRecord
  <1>i. admin' = IdleAdmin => AdminTypeOK'
    BY DEF IdleAdmin, AdminTypeOK, AdminRecord
  <1>c. {"manual", "user-report"} \subseteq Category
    BY DEF Category
  <1>s. ASSUME NEW d \in Domain
        PROVE  /\ NoSeedRow(d) \in [Domain -> {"none"} \cup Category]
               /\ Demoted(d) \in [Domain -> RowValue]
    BY DEF SharedTypeOK, NoSeedRow, Demoted, RowValue, BadRow
  <1>1. ASSUME NEW d \in Managed, AddBlocklist(d) PROVE SharedTypeOK' /\ AdminTypeOK'
    <2>1. seed' \in [Domain -> {"none"} \cup Category] /\ white' \in SUBSET Domain
      BY <1>1, <1>c, SeedWritten DEF AddBlocklist, SharedTypeOK
    <2>2. SharedTypeOK'
      BY <1>1, <2>1 DEF AddBlocklist, SharedTypeOK, redisVars, memVars
    <2> QED BY <1>1, <1>h, <2>2 DEF AddBlocklist
  <1>2. ASSUME NEW d \in Managed, RemoveBlocklist(d) PROVE SharedTypeOK' /\ AdminTypeOK'
    <2>1. seed' \in [Domain -> {"none"} \cup Category]
      BY <1>2, <1>s DEF RemoveBlocklist
    <2>2. SharedTypeOK'
      BY <1>2, <2>1 DEF RemoveBlocklist, SharedTypeOK, redisVars, memVars
    <2> QED BY <1>2, <1>h, <2>2 DEF RemoveBlocklist
  <1>3. ASSUME NEW d \in Managed, AddWhitelist(d) PROVE SharedTypeOK' /\ AdminTypeOK'
    <2>1. seed' \in [Domain -> {"none"} \cup Category] /\ row' \in [Domain -> RowValue]
      BY <1>3, <1>s DEF AddWhitelist
    <2>2. white' \in SUBSET Domain
      BY <1>3 DEF AddWhitelist, SharedTypeOK
    <2>3. SharedTypeOK'
      BY <1>3, <2>1, <2>2 DEF AddWhitelist, SharedTypeOK, redisVars, memVars
    <2> QED BY <1>3, <1>h, <2>3 DEF AddWhitelist
  <1>4. ASSUME NEW d \in Managed, RemoveWhitelist(d) PROVE SharedTypeOK' /\ AdminTypeOK'
    <2>1. SharedTypeOK'
      BY <1>4 DEF RemoveWhitelist, SharedTypeOK, redisVars, memVars
    <2> QED BY <1>4, <1>h, <2>1 DEF RemoveWhitelist
  <1>5. ASSUME NEW d \in Reported, SubmitReport(d) \/ ConfirmReport(d) \/ RejectReport(d)
        PROVE  SharedTypeOK' /\ AdminTypeOK'
    <2>1. report' \in [Domain -> ReportStatus]
      <3>1. \E status \in ReportStatus : report' = [report EXCEPT ![d] = status]
        BY <1>5 DEF SubmitReport, ConfirmReport, RejectReport, ReportStatus
      <3> QED BY <3>1 DEF SharedTypeOK
    <2>2. seed' \in [Domain -> {"none"} \cup Category]
      <3>1. d \in Domain /\ "user-report" \in Category
        BY <1>c
      <3>2. seed' = seed \/ seed' = WithSeedRow(d, "user-report")
        BY <1>5 DEF SubmitReport, ConfirmReport, RejectReport
      <3>3. seed \in [Domain -> {"none"} \cup Category]
        BY DEF SharedTypeOK
      <3> QED BY <3>1, <3>2, <3>3, SeedWritten
    <2>3. UNCHANGED <<white, row, redisVars, memVars, faults, admin>>
      BY <1>5 DEF SubmitReport, ConfirmReport, RejectReport
    <2> QED BY <2>1, <2>2, <2>3 DEF SharedTypeOK, AdminTypeOK, redisVars, memVars
  <1>6. ASSUME DemoteVerdict PROVE SharedTypeOK' /\ AdminTypeOK'
    <2>1. admin.name \in Domain
      BY <1>6 DEF DemoteVerdict, AdminTypeOK
    <2>2. row' \in [Domain -> RowValue]
      BY <1>6, <1>s, <2>1 DEF DemoteVerdict
    <2>3. SharedTypeOK'
      BY <1>6, <2>2 DEF DemoteVerdict, SharedTypeOK, redisVars, memVars
    <2>4. AdminTypeOK'
      BY <1>6, <2>1 DEF DemoteVerdict, Handle, AdminTypeOK, AdminRecord
    <2> QED BY <2>3, <2>4
  <1>7. ASSUME ClearVerdict PROVE SharedTypeOK' /\ AdminTypeOK'
    <2>1. admin.name \in Domain /\ "none" \in CacheValue
      BY <1>7 DEF ClearVerdict, AdminTypeOK, CacheValue
    <2>2. SharedTypeOK'
      BY <1>7, <2>1 DEF ClearVerdict, SharedTypeOK, pgVars, memVars
    <2> QED BY <1>7, <1>i, <2>2 DEF ClearVerdict
  <1>8. ASSUME AdminFails PROVE SharedTypeOK' /\ AdminTypeOK'
    BY <1>8, <1>i, SharedSameFault DEF AdminFails
  <1> QED
    BY <1>1, <1>2, <1>3, <1>4, <1>5, <1>6, <1>7, <1>8 DEF AdminNext, AdminStep

-----------------------------------------------------------------------------
(* A visitor of /check.                                                    *)

LEMMA PublicInitType == PublicInit => PublicTypeOK
  BY DEF PublicInit, PublicTypeOK, IdleCheck, CheckRecord

LEMMA PublicKeepsType ==
    ASSUME SharedTypeOK, PublicTypeOK, PublicNext
    PROVE  SharedTypeOK' /\ PublicTypeOK'
  <1>n. ASSUME NEW c \in Client, NEW found \in BOOLEAN, NEW st \in {"cache", "row", "push"},
               NEW d \in Domain, NextSource(c, found, st, d)
        PROVE  PublicTypeOK'
    BY <1>n DEF NextSource, PublicTypeOK, CheckRecord, IdleCheck
  <1>1. ASSUME NEW c \in Client, NEW d \in Checked, CheckBlocklist(c, d)
        PROVE  SharedTypeOK' /\ PublicTypeOK'
    BY <1>1, <1>n, SharedSame DEF CheckBlocklist
  <1>2. ASSUME NEW c \in Client, CheckCache(c) PROVE SharedTypeOK' /\ PublicTypeOK'
    <2>1. check[c].name \in Domain
      BY <1>2 DEF CheckCache, PublicTypeOK
    <2> QED BY <1>2, <1>n, <2>1, SharedSame DEF CheckCache
  <1>3. ASSUME NEW c \in Client, CheckRow(c) PROVE SharedTypeOK' /\ PublicTypeOK'
    <2>1. check[c].name \in Domain
      BY <1>3 DEF CheckRow, PublicTypeOK
    <2> QED BY <1>3, <1>n, <2>1, SharedSame DEF CheckRow
  <1>4. ASSUME NEW c \in Client, CheckEnqueue(c) PROVE SharedTypeOK' /\ PublicTypeOK'
    <2>1. check[c].name \in Domain
      BY <1>4 DEF CheckEnqueue, PublicTypeOK
    <2>2. queue' \in Seq(Domain)
      BY <1>4, <2>1, EnqueueType DEF CheckEnqueue
    <2>3. SharedTypeOK'
      BY <1>4, <2>2 DEF CheckEnqueue, SharedTypeOK, pgVars, memVars
    <2>4. PublicTypeOK'
      BY <1>4 DEF CheckEnqueue, PublicTypeOK, CheckRecord, IdleCheck
    <2> QED BY <2>3, <2>4
  <1>5. ASSUME NEW c \in Client, CheckFails(c) PROVE SharedTypeOK' /\ PublicTypeOK'
    BY <1>5, SharedSameFault DEF CheckFails, PublicTypeOK, CheckRecord, IdleCheck
  <1> QED
    BY <1>1, <1>2, <1>3, <1>4, <1>5 DEF PublicNext, PublicStep
=============================================================================
