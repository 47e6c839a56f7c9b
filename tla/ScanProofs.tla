------------------------------ MODULE ScanProofs ------------------------------
(***************************************************************************)
(* The scan markers of ScamLens: no pending marker without a scan on its   *)
(* way, no verdict hidden by a marker, and the pipeline implements          *)
(* ScanTickets, step by step.                                              *)
(***************************************************************************)
EXTENDS ScamLensProofs

LEMMA OwnersSame ==
    ASSUME NEW d, query' = query, jobs' = jobs, queue' = queue
    PROVE  Owned(d)' <=> Owned(d)
  BY DEF Owned, ClaimHolds, JobHolds, InQueue

\* A request that is not about to push owns no marker.
LEMMA GotoKeepsOwners ==
    ASSUME TypeOK, NEW q \in Query, NEW rec, Goto(q, rec), "push" \notin query[q].todo,
           jobs' = jobs, queue' = queue,
           NEW d \in Domain, Owned(d)
    PROVE  Owned(d)'
  <1>1. query \in [Query -> QueryType]
    BY DEF TypeOK, ResolverTypeOK
  <1>2. ClaimHolds(d) => ClaimHolds(d)'
    BY <1>1 DEF ClaimHolds, Goto
  <1> QED BY <1>2 DEF Owned, JobHolds, InQueue

LEMMA TodoOf ==
    ASSUME TypeOK, NEW q \in Query
    PROVE  /\ query[q].st \notin {"claim", "blocked"} => query[q].todo = {}
           /\ {"log", "cache", "promote", "mark", "rate"} \cap query[q].todo # {}
                => "push" \notin query[q].todo
  <1>1. query[q] \in QueryType
    BY DEF TypeOK, ResolverTypeOK
  <1> QED BY <1>1 DEF QueryType

LEMMA QueueGrows ==
    ASSUME TypeOK, NEW d \in Domain, Enqueue(d)
    PROVE  /\ InQueue(d)'
           /\ \A e \in Domain : InQueue(e) => InQueue(e)'
  <1>1. queue \in Seq(Domain) /\ queue' = Append(queue, d)
    BY DEF TypeOK, SharedTypeOK, Enqueue
  <1>2. /\ Len(queue') = Len(queue) + 1 /\ Len(queue) \in Nat
        /\ queue'[Len(queue) + 1] = d
        /\ \A i \in 1..Len(queue) : queue'[i] = queue[i]
    BY <1>1
  <1>3. Len(queue) + 1 \in 1..Len(queue')
    BY <1>2
  <1>4. \A i \in 1..Len(queue) : i \in 1..Len(queue')
    BY <1>2
  <1> QED BY <1>2, <1>3, <1>4 DEF InQueue

LEMMA ResolverKeepsOwners ==
    ASSUME TypeOK, NoOrphanMarker, ResolverNext, jobs' = jobs
    PROVE  NoOrphanMarker'
  <1> SUFFICES ASSUME faults' = 0, NEW d \in Domain, cache'[d] = "pending"
               PROVE  Owned(d)'
    BY DEF NoOrphanMarker
  <1>t. /\ SharedTypeOK /\ faults \in Nat
        /\ cache \in [Domain -> CacheValue]
        /\ query \in [Query -> QueryType]
    BY DEF TypeOK, SharedTypeOK, ResolverTypeOK
  <1>f. ~Fault
    BY <1>t DEF Fault
  <1>o. faults = 0 /\ cache[d] = "pending" => Owned(d)
    BY DEF NoOrphanMarker
  <1>k. ASSUME NEW q \in Query, NEW rec, Goto(q, rec), "push" \notin query[q].todo,
               queue' = queue, faults' = faults, cache[d] = "pending"
        PROVE  Owned(d)'
    BY <1>k, <1>o, GotoKeepsOwners
  <1>1. ASSUME NEW q \in Query, NEW e \in Asked, Arrive(q, e) PROVE Owned(d)'
    BY <1>1, <1>k, TodoOf DEF Arrive, InState, redisVars
  <1>2. ASSUME NEW q \in Query, Lookup(q) PROVE Owned(d)'
    BY <1>2, <1>k, TodoOf DEF Lookup, InState, redisVars
  <1>3. ASSUME NEW q \in Query, Answer(q) PROVE Owned(d)'
    BY <1>3, <1>k, TodoOf DEF Answer, InState, redisVars
  <1>4. ASSUME NEW q \in Query, RateLimit(q) PROVE Owned(d)'
    BY <1>4, <1>k, TodoOf DEF RateLimit, Due
  <1>5. ASSUME NEW q \in Query, MarkPending(q) PROVE Owned(d)'
    <2>0. /\ "push" \notin query[q].todo /\ queue' = queue /\ faults' = faults
          /\ \E rec : Goto(q, rec)
      BY <1>5, TodoOf DEF MarkPending, Due
    <2>1. CASE cache[d] = "pending"
      BY <2>0, <2>1, <1>k
    <2>2. CASE cache[d] # "pending"
      <3>1. query[q].name = d /\ Goto(q, Claiming(d, "push"))
        BY <1>5, <2>2, <1>t DEF MarkPending
      <3>2. query'[q].name = d /\ "push" \in query'[q].todo
        BY <3>1, <1>t DEF Goto, Claiming, IdleQuery
      <3> QED BY <3>2 DEF Owned, ClaimHolds
    <2> QED BY <2>1, <2>2
  <1>6. ASSUME NEW q \in Query, EnqueueScan(q) PROVE Owned(d)'
    <2>1. PICK e \in Domain : e = query[q].name
      BY <1>6, <1>t, DueName DEF EnqueueScan
    <2>2. InQueue(e)' /\ (InQueue(d) => InQueue(d)')
      BY <1>6, <2>1, QueueGrows DEF EnqueueScan
    <2>3. Owned(d)
      BY <1>6, <1>o DEF EnqueueScan
    <2>4. ClaimHolds(d) => d = e \/ ClaimHolds(d)'
      BY <1>6, <2>1, <1>t DEF EnqueueScan, ClaimHolds, Goto
    <2>5. JobHolds(d) => JobHolds(d)'
      BY DEF JobHolds
    <2> QED BY <2>2, <2>3, <2>4, <2>5 DEF Owned
  <1>7. ASSUME NEW q \in Query, LogBlock(q) \/ Promote(q) PROVE Owned(d)'
    BY <1>7, <1>k, TodoOf DEF LogBlock, Promote, Due, redisVars
  <1>8. ASSUME NEW q \in Query, CacheTyposquat(q) PROVE Owned(d)'
    <2>1. cache[d] = "pending"
      BY <1>8, <1>t DEF CacheTyposquat
    <2> QED BY <1>8, <2>1, <1>k, TodoOf DEF CacheTyposquat, Due
  <1>9. ASSUME NEW q \in Query, ClientGivesUp(q) PROVE Owned(d)'
    BY <1>9, <1>k, TodoOf DEF ClientGivesUp, InState, redisVars
  <1>10. ASSUME NEW q \in Query, LookupFails(q) \/ TaskFails(q) \/ MarkAnswerLost(q) PROVE Owned(d)'
    BY <1>10, <1>f DEF LookupFails, TaskFails, MarkAnswerLost
  <1> QED
    BY <1>1, <1>2, <1>3, <1>4, <1>5, <1>6, <1>7, <1>8, <1>9, <1>10 DEF ResolverNext, ResolverStep

LEMMA ScannerKeepsOwners ==
    ASSUME TypeOK, NoOrphanMarker, ScannerNext, query' = query
    PROVE  NoOrphanMarker'
  <1> SUFFICES ASSUME faults' = 0, NEW d \in Domain, cache'[d] = "pending"
               PROVE  Owned(d)'
    BY DEF NoOrphanMarker
  <1>t. /\ faults \in Nat
        /\ cache \in [Domain -> CacheValue]
        /\ queue \in Seq(Domain)
        /\ jobs \in [Job -> JobType]
    BY DEF TypeOK, SharedTypeOK, ScannerTypeOK
  <1>f. ~Fault
    BY <1>t DEF Fault
  <1>o. faults = 0 /\ cache[d] = "pending" => Owned(d)
    BY DEF NoOrphanMarker
  <1>c. ClaimHolds(d) => ClaimHolds(d)'
    BY DEF ClaimHolds
  <1>q. queue' = queue => (InQueue(d) => InQueue(d)')
    BY DEF InQueue
  \* A job that holds no marker of d may change.
  <1>k. ASSUME NEW j \in Job, NEW rec, Become(j, rec), queue' = queue, faults' = faults,
               cache[d] = "pending",
               ~(jobs[j].name = d /\ jobs[j].queued /\ jobs[j].st \in {"waiting", "scanning"})
        PROVE  Owned(d)'
    <2>1. JobHolds(d) => JobHolds(d)'
      BY <1>k, <1>t DEF JobHolds, Become
    <2> QED BY <1>k, <1>o, <1>c, <1>q, <2>1 DEF Owned
  <1>1. ASSUME NEW j \in Job, Pop(j) PROVE Owned(d)'
    <2>1. queue # <<>> /\ queue' = Tail(queue) /\ faults' = faults /\ cache' = cache
      BY <1>1 DEF Pop
    <2>2. Owned(d)
      BY <2>1, <1>o
    <2>3. JobHolds(d) => JobHolds(d)'
      BY <1>1, <1>t DEF Pop, JobHolds, Become
    <2>4. InQueue(d) => JobHolds(d)' \/ InQueue(d)'
      <3> SUFFICES ASSUME NEW i \in 1..Len(queue), queue[i] = d
                   PROVE  JobHolds(d)' \/ InQueue(d)'
        BY DEF InQueue
      <3>1. CASE i = 1
        <4>1. Head(queue) = d
          BY <3>1, <2>1, <1>t
        <4>2. jobs'[j] = NewJob("waiting", TRUE, d)
          BY <1>1, <1>t, <4>1 DEF Pop, Become
        <4> QED BY <4>2 DEF JobHolds, NewJob, FreeJob
      <3>2. CASE i # 1
        <4>1. i - 1 \in 1..Len(Tail(queue)) /\ Tail(queue)[i - 1] = queue[i]
          BY <3>2, <2>1, <1>t
        <4> QED BY <4>1, <2>1 DEF InQueue
      <3> QED BY <3>1, <3>2
    <2> QED BY <2>2, <2>3, <2>4, <1>c DEF Owned
  <1>2. ASSUME NEW j \in Job, NEW e \in Controlled, ControlScan(j, e) PROVE Owned(d)'
    BY <1>2, <1>k DEF ControlScan, redisVars
  <1>3. ASSUME NEW j \in Job, BeginScan(j) PROVE Owned(d)'
    <2>1. JobHolds(d) => JobHolds(d)'
      BY <1>3, <1>t DEF BeginScan, Become, JobHolds, JobType, JobRecord
    <2> QED BY <1>3, <1>o, <1>c, <1>q, <2>1 DEF BeginScan, redisVars, Owned
  <1>4. ASSUME NEW j \in Job, ControlScanEmpty(j) PROVE Owned(d)'
    BY <1>4, <1>k DEF ControlScanEmpty, redisVars
  <1>5. ASSUME NEW j \in Job, SaveVerdict(j) PROVE Owned(d)'
    <2>1. jobs[j].name # d /\ cache[d] = "pending" /\ queue' = queue /\ faults' = faults
      BY <1>5, <1>t DEF SaveVerdict
    <2> QED BY <1>5, <2>1, <1>k DEF SaveVerdict
  <1>6. ASSUME NEW j \in Job, SaveError(j) PROVE Owned(d)'
    <2>1. jobs[j].name # d /\ cache[d] = "pending" /\ queue' = queue /\ faults' = faults
      BY <1>6, <1>t DEF SaveError
    <2> QED BY <1>6, <2>1, <1>k DEF SaveError
  <1>7. ASSUME NEW j \in Job, UpsertRow(j) \/ PromoteScam(j) PROVE Owned(d)'
    BY <1>7, <1>k DEF UpsertRow, PromoteScam, redisVars
  <1>8. ASSUME NEW j \in Job, SaveFails(j) \/ UpsertFails(j) \/ PromoteScamFails(j) PROVE Owned(d)'
    BY <1>8, <1>f DEF SaveFails, UpsertFails, PromoteScamFails
  <1>9. ASSUME ScannerRestart PROVE Owned(d)'
    BY <1>9, <1>f DEF ScannerRestart
  <1>10. ASSUME PopFails PROVE Owned(d)'
    BY <1>10, <1>f DEF PopFails
  <1>11. ASSUME OperatorRestart PROVE Owned(d)'
    <2>1. JobHolds(d) => JobHolds(d)'
      BY <1>11 DEF OperatorRestart, JobHolds
    <2> QED BY <1>11, <1>o, <1>c, <1>q, <2>1 DEF OperatorRestart, redisVars, Owned
  <1> QED
    BY <1>1, <1>2, <1>3, <1>4, <1>5, <1>6, <1>7, <1>8, <1>9, <1>10, <1>11 DEF ScannerNext, ScannerStep

\* A step that touches neither the queue nor the scans, nor sets a marker.
LEMMA OthersKeepOwners ==
    ASSUME TypeOK, NoOrphanMarker, faults' = faults,
           query' = query, jobs' = jobs,
           \A d \in Domain : InQueue(d) => InQueue(d)',
           \A d \in Domain : cache'[d] = "pending" => cache[d] = "pending"
    PROVE  NoOrphanMarker'
  <1>1. \A d \in Domain : Owned(d) => Owned(d)'
    BY DEF Owned, ClaimHolds, JobHolds
  <1> QED BY <1>1 DEF NoOrphanMarker

LEMMA StepKeepsOwners == TypeOK /\ NoOrphanMarker /\ [Next]_vars => NoOrphanMarker'
  <1> SUFFICES ASSUME TypeOK, NoOrphanMarker, [Next]_vars PROVE NoOrphanMarker'
    OBVIOUS
  <1>t. cache \in [Domain -> CacheValue] /\ faults \in Nat
    BY DEF TypeOK, SharedTypeOK
  <1>f. Fault => NoOrphanMarker'
    BY <1>t DEF Fault, NoOrphanMarker
  <1>q. queue' = queue => \A d \in Domain : InQueue(d) => InQueue(d)'
    BY DEF InQueue
  <1>1. CASE OfResolver(ResolverNext)
    BY <1>1, ResolverKeepsOwners DEF OfResolver, scannerVars
  <1>2. CASE OfRefresh(RefreshNext)
    <2>1. Fault \/ UNCHANGED <<faults, cache, queue, query>>
      BY <1>2 DEF OfRefresh, scannerVars, RefreshNext, RefreshStep, LoadBlocklist, ReplaceBlocklist, LoadWhitelist,
         LoadWhitelistFails, ReplaceWhitelist, LoadBrands, LoadBrandsFails, FinishRefresh, redisVars
    <2> QED BY <1>2, <2>1, <1>f, <1>q, OthersKeepOwners DEF OfRefresh, scannerVars
  <1>3. CASE OfRefresh(DnsRestart)
    BY <1>3, <1>f DEF OfRefresh, scannerVars, DnsRestart
  <1>4. CASE OfScanner(ScannerNext)
    BY <1>4, ScannerKeepsOwners DEF OfScanner
  <1>5. CASE OfAdmin(AdminNext)
    <2>1. AdminFails \/ UNCHANGED <<faults, cache, queue>> \/ ClearVerdict
      BY <1>5 DEF OfAdmin, scannerVars, AdminNext, AdminStep, AddBlocklist, RemoveBlocklist, AddWhitelist,
         RemoveWhitelist, SubmitReport, ConfirmReport, RejectReport, DemoteVerdict, redisVars
    <2>2. ClearVerdict => /\ UNCHANGED <<faults, queue>>
                          /\ \A d \in Domain : cache'[d] = "pending" => cache[d] = "pending"
      BY <1>t DEF ClearVerdict
    <2> QED BY <1>5, <2>1, <2>2, <1>f, <1>q, OthersKeepOwners DEF OfAdmin, scannerVars, AdminFails
  <1>6. CASE OfPublic(PublicNext)
    <2>1. ASSUME NEW c \in Client, CheckEnqueue(c) PROVE NoOrphanMarker'
      <3>1. check[c].name \in Domain
        BY <2>1 DEF CheckEnqueue, TypeOK, PublicTypeOK
      <3> QED BY <1>6, <2>1, <3>1, QueueGrows, OthersKeepOwners DEF OfPublic, scannerVars, CheckEnqueue
    <2>2. CASE UNCHANGED redisVars /\ faults' = faults
      BY <1>6, <2>2, <1>q, OthersKeepOwners DEF OfPublic, scannerVars, redisVars
    <2>3. ASSUME NEW c \in Client, CheckFails(c) PROVE NoOrphanMarker'
      BY <2>3, <1>f DEF CheckFails
    <2> QED BY <1>6, <2>1, <2>2, <2>3 DEF OfPublic, scannerVars, PublicNext, PublicStep, CheckBlocklist, CheckCache, CheckRow
  <1>7. CASE OfRedis(RedisExpiry)
    <2>1. /\ UNCHANGED <<faults, queue>>
          /\ \A d \in Domain : cache'[d] = "pending" => cache[d] = "pending"
      BY <1>7, <1>t DEF OfRedis, scannerVars, RedisExpiry, ExpireVerdict, ExpireRateLimit
    <2> QED BY <1>7, <2>1, <1>q, OthersKeepOwners DEF OfRedis, scannerVars
  <1>8. CASE UNCHANGED vars
    BY <1>8, <1>q, OthersKeepOwners DEF vars, scannerVars, redisVars
  <1> QED BY <1>1, <1>2, <1>3, <1>4, <1>5, <1>6, <1>7, <1>8 DEF Next

\* As long as nothing crashes and no store call fails, a pending marker always
\* has a scan on its way: the request that claimed the name, an entry of the
\* queue, or a task of the worker, handed over without a gap.
THEOREM NoOrphan == Spec => []NoOrphanMarker
  <1>1. Init => NoOrphanMarker
    BY DEF Init, SharedInit, NoOrphanMarker
  <1>2. TypeOK /\ NoOrphanMarker /\ [Next]_vars => TypeOK' /\ NoOrphanMarker'
    BY StepType, StepKeepsOwners
  <1> QED BY InitType, <1>1, <1>2, PTL DEF Spec

-----------------------------------------------------------------------------
\* What a step may write to verdict:<name>, and over what.
LEMMA MarkerStep ==
    ASSUME TypeOK, [Next]_vars, NEW d \in Domain, cache[d] \notin {"none", "pending"}
    PROVE  cache'[d] # "pending"
  <1>t. cache \in [Domain -> CacheValue]
    BY DEF TypeOK, SharedTypeOK
  <1>s. CASE cache' = cache
    BY <1>s
  <1>1. CASE OfResolver(ResolverNext)
    BY <1>1, <1>s, <1>t
    DEF OfResolver, scannerVars, ResolverNext, ResolverStep, Arrive, Lookup, Answer, RateLimit, MarkPending, CanMark,
        EnqueueScan, LogBlock, CacheTyposquat, Promote, ClientGivesUp, LookupFails, TaskFails,
        MarkAnswerLost, redisVars
  <1>2. CASE OfRefresh(RefreshNext) \/ OfRefresh(DnsRestart)
    BY <1>2, <1>s
    DEF OfRefresh, scannerVars, RefreshNext, RefreshStep, LoadBlocklist, ReplaceBlocklist, LoadWhitelist,
        LoadWhitelistFails, ReplaceWhitelist, LoadBrands, LoadBrandsFails, FinishRefresh, DnsRestart, redisVars
  <1>3. CASE OfScanner(ScannerNext)
    BY <1>3, <1>s, <1>t
    DEF OfScanner, ScannerNext, ScannerStep, Pop, ControlScan, BeginScan, ControlScanEmpty, SaveVerdict,
        SaveError, UpsertRow, PromoteScam, SaveFails, UpsertFails, PromoteScamFails,
        PopFails, ScannerRestart, OperatorRestart, redisVars
  <1>4. CASE OfAdmin(AdminNext)
    BY <1>4, <1>s, <1>t
    DEF OfAdmin, scannerVars, AdminNext, AdminStep, AddBlocklist, RemoveBlocklist, AddWhitelist, RemoveWhitelist,
        SubmitReport, ConfirmReport, RejectReport, DemoteVerdict, ClearVerdict, AdminFails, redisVars
  <1>5. CASE OfPublic(PublicNext)
    BY <1>5, <1>s
    DEF OfPublic, scannerVars, PublicNext, PublicStep, CheckBlocklist, CheckCache, CheckRow,
        CheckEnqueue, CheckFails, redisVars
  <1>6. CASE OfRedis(RedisExpiry)
    BY <1>6, <1>t DEF OfRedis, scannerVars, RedisExpiry, ExpireVerdict, ExpireRateLimit
  <1>7. CASE UNCHANGED vars
    BY <1>7, <1>s DEF vars, scannerVars, redisVars
  <1> QED BY <1>1, <1>2, <1>3, <1>4, <1>5, <1>6, <1>7 DEF Next

\* A pending marker never takes the place of a verdict: a scan that was saved
\* while a request waited for the upstream answer is not hidden again.
THEOREM VerdictsStayVisible == Spec => MarkerNeverHidesVerdict
  <1>1. TypeOK /\ [Next]_vars
          => [\A d \in Domain : cache[d] \notin {"none", "pending"} => cache'[d] # "pending"]_vars
    BY MarkerStep
  <1> QED BY TypeCorrect, <1>1, PTL DEF Spec, MarkerNeverHidesVerdict

-----------------------------------------------------------------------------
(* The refinement.                                                         *)

\* What ScanTickets sees of a step.
Silent == Marker' = Marker /\ Open' = Open /\ faults' = faults

SameOwners == \A d \in Domain : Owned(d)' <=> Owned(d)
LessOwners == \A d \in Domain : Owned(d)' => Owned(d)

LEMMA SilentStep ==
    ASSUME cache' = cache, SameOwners, faults' = faults
    PROVE  Silent
  BY DEF Silent, Marker, Open, SameOwners

\* A write of verdict:<name> changes one marker.
LEMMA MarkerWritten ==
    ASSUME TypeOK, NEW e \in Domain, NEW v \in CacheValue, cache' = [cache EXCEPT ![e] = v]
    PROVE  Marker' = [Marker EXCEPT ![e] = IF v \in {"none", "pending"} THEN v ELSE "verdict"]
  <1>1. cache \in [Domain -> CacheValue]
    BY DEF TypeOK, SharedTypeOK
  <1>2. \A d \in Domain : cache'[d] = IF d = e THEN v ELSE cache[d]
    BY <1>1
  <1> QED BY <1>2 DEF Marker

LEMMA FailStep ==
    ASSUME Fault, LessOwners,
           \/ cache' = cache
           \/ \E e \in Domain : cache[e] = "none" /\ cache' = [cache EXCEPT ![e] = "pending"],
           TypeOK
    PROVE  Tickets!Fail
  <1>1. Open' \in SUBSET Open
    BY DEF Open, LessOwners
  <1>2. \/ Marker' = Marker
        \/ \E e \in Domain : Marker[e] = "none" /\ Marker' = [Marker EXCEPT ![e] = "pending"]
    <2>1. CASE cache' = cache
      BY <2>1 DEF Marker
    <2>2. ASSUME NEW e \in Domain, cache[e] = "none", cache' = [cache EXCEPT ![e] = "pending"]
          PROVE  Marker[e] = "none" /\ Marker' = [Marker EXCEPT ![e] = "pending"]
      <3>1. "pending" \in CacheValue
        BY DEF CacheValue
      <3>2. Marker' = [Marker EXCEPT ![e] = "pending"]
        BY <2>2, <3>1, MarkerWritten
      <3> QED BY <2>2, <3>2 DEF Marker
    <2> QED BY <2>1, <2>2
  <1> QED BY <1>1, <1>2 DEF Fault, Tickets!Fail

LEMMA VanishStep ==
    ASSUME TypeOK, NEW e \in Domain, cache' = [cache EXCEPT ![e] = "none"],
           SameOwners, faults' = faults
    PROVE  Tickets!Vanish(e)
  <1>1. "none" \in CacheValue
    BY DEF CacheValue
  <1>2. Marker' = [Marker EXCEPT ![e] = "none"]
    BY <1>1, MarkerWritten
  <1>3. Open' = Open
    BY DEF Open, SameOwners
  <1> QED BY <1>2, <1>3 DEF Tickets!Vanish

\* A verdict is written for e; only e's own scan may be over with it.
LEMMA FinishStep ==
    ASSUME TypeOK, NEW e \in Domain, NEW v \in CacheValue \ {"none", "pending"},
           cache' = [cache EXCEPT ![e] = v], faults' = faults,
           \A d \in Domain : d # e => (Owned(d)' <=> Owned(d)),
           Owned(e)' => Owned(e)
    PROVE  Tickets!Finish(e)
  <1>1. Marker' = [Marker EXCEPT ![e] = "verdict"]
    BY MarkerWritten
  <1>2. Open' \in {Open, Open \ {e}}
    BY DEF Open
  <1> QED BY <1>1, <1>2 DEF Tickets!Finish

-----------------------------------------------------------------------------
(* Who owns a marker before and after a step.                              *)

LEMMA OwnersUnchanged ==
    ASSUME query' = query, jobs' = jobs, queue' = queue
    PROVE  SameOwners
  BY OwnersSame DEF SameOwners

\* A request that is not about to push, neither before nor after the step.
LEMMA GotoSameOwners ==
    ASSUME TypeOK, NEW q \in Query, NEW rec, Goto(q, rec),
           "push" \notin query[q].todo, "push" \notin rec.todo,
           jobs' = jobs, queue' = queue
    PROVE  SameOwners
  <1>1. query \in [Query -> QueryType]
    BY DEF TypeOK, ResolverTypeOK
  <1>2. \A d \in Domain : ClaimHolds(d)' <=> ClaimHolds(d)
    BY <1>1 DEF ClaimHolds, Goto
  <1> QED BY <1>2 DEF SameOwners, Owned, JobHolds, InQueue

\* A request that is not about to push after the step.
LEMMA GotoLessOwners ==
    ASSUME TypeOK, NEW q \in Query, NEW rec, Goto(q, rec), "push" \notin rec.todo,
           jobs' = jobs, queue' = queue
    PROVE  LessOwners
  <1>1. query \in [Query -> QueryType]
    BY DEF TypeOK, ResolverTypeOK
  <1>2. \A d \in Domain : ClaimHolds(d)' => ClaimHolds(d)
    BY <1>1 DEF ClaimHolds, Goto
  <1> QED BY <1>2 DEF LessOwners, Owned, JobHolds, InQueue

Holds(rec, d) == rec.name = d /\ rec.queued /\ rec.st \in {"waiting", "scanning"}

\* A scan moves on and holds what it held.
LEMMA BecomeSameOwners ==
    ASSUME TypeOK, NEW j \in Job, NEW rec, Become(j, rec),
           \A d \in Domain : Holds(rec, d) <=> Holds(jobs[j], d),
           query' = query, queue' = queue
    PROVE  SameOwners
  <1>1. jobs \in [Job -> JobType]
    BY DEF TypeOK, ScannerTypeOK
  <1>2. \A d \in Domain : JobHolds(d)' <=> JobHolds(d)
    BY <1>1 DEF JobHolds, Become, Holds
  <1> QED BY <1>2 DEF SameOwners, Owned, ClaimHolds, InQueue

\* A scan holds nothing any more: only its own name can lose an owner.
LEMMA BecomeLessOwners ==
    ASSUME TypeOK, NEW j \in Job, NEW rec, Become(j, rec),
           \A d \in Domain : ~Holds(rec, d),
           query' = query, queue' = queue
    PROVE  /\ LessOwners
           /\ \A d \in Domain : d # jobs[j].name => (Owned(d)' <=> Owned(d))
  <1>1. jobs \in [Job -> JobType]
    BY DEF TypeOK, ScannerTypeOK
  <1>2. \A d \in Domain : JobHolds(d)' => JobHolds(d)
    BY <1>1 DEF JobHolds, Become, Holds
  <1>3. \A d \in Domain : d # jobs[j].name /\ JobHolds(d) => JobHolds(d)'
    BY <1>1 DEF JobHolds, Become
  <1>4. \A d \in Domain : (ClaimHolds(d)' <=> ClaimHolds(d)) /\ (InQueue(d)' <=> InQueue(d))
    BY DEF ClaimHolds, InQueue
  <1> QED BY <1>2, <1>3, <1>4 DEF LessOwners, Owned

LEMMA EnqueueOwners ==
    ASSUME TypeOK, NEW e \in Domain, Enqueue(e), NEW d \in Domain
    PROVE  InQueue(d)' <=> (d = e \/ InQueue(d))
  <1>1. queue \in Seq(Domain) /\ queue' = Append(queue, e)
    BY DEF TypeOK, SharedTypeOK, Enqueue
  <1>2. /\ Len(queue') = Len(queue) + 1 /\ Len(queue) \in Nat
        /\ queue'[Len(queue) + 1] = e
        /\ \A i \in 1..Len(queue) : queue'[i] = queue[i]
    BY <1>1
  <1>3. \A i : i \in 1..Len(queue') <=> i \in 1..Len(queue) \/ i = Len(queue) + 1
    BY <1>2
  <1> QED BY <1>2, <1>3 DEF InQueue

LEMMA PopOwners ==
    ASSUME TypeOK, queue # <<>>, queue' = Tail(queue), NEW d \in Domain
    PROVE  (d = Head(queue) \/ InQueue(d)') <=> InQueue(d)
  <1>1. queue \in Seq(Domain)
    BY DEF TypeOK, SharedTypeOK
  <1>2. /\ Len(queue) \in Nat /\ Len(queue) > 0 /\ Head(queue) = queue[1]
        /\ Len(queue') = Len(queue) - 1
        /\ \A i \in 1..Len(queue') : queue'[i] = queue[i + 1]
    BY <1>1
  <1>3. ASSUME NEW i \in 1..Len(queue'), queue'[i] = d PROVE InQueue(d)
    <2>1. i + 1 \in 1..Len(queue) /\ queue[i + 1] = d
      BY <1>2, <1>3
    <2> QED BY <2>1 DEF InQueue
  <1>4. ASSUME NEW i \in 1..Len(queue), queue[i] = d PROVE d = Head(queue) \/ InQueue(d)'
    <2>1. CASE i = 1
      BY <1>2, <1>4, <2>1
    <2>2. CASE i # 1
      <3>1. i - 1 \in 1..Len(queue') /\ queue'[i - 1] = d
        BY <1>2, <1>4, <2>2
      <3> QED BY <3>1 DEF InQueue
    <2> QED BY <2>1, <2>2
  <1>5. d = Head(queue) => InQueue(d)
    <2>1. 1 \in 1..Len(queue)
      BY <1>2
    <2> QED BY <1>2, <2>1 DEF InQueue
  <1> QED BY <1>3, <1>4, <1>5 DEF InQueue

-----------------------------------------------------------------------------
(* The steps of each component.                                            *)

\* In a request, only the task that claimed a marker is about to push.
LEMMA TodoFacts ==
    ASSUME TypeOK, NEW q \in Query
    PROVE  /\ query[q].st \notin {"claim", "blocked"} => query[q].todo = {}
           /\ {"log", "cache", "promote", "mark", "rate"} \cap query[q].todo # {}
                => "push" \notin query[q].todo /\ query[q].name \in Domain
           /\ query[q].todo # {} => query[q].name \in Domain
           /\ \A task \in query[q].todo : "push" \notin AfterTask(q, task).todo
  <1> DEFINE rec == query[q]
  <1>1. rec \in QueryType
    BY DEF TypeOK, ResolverTypeOK
  <1>2. rec \in QueryRecord /\ (rec.st = "idle" => rec.todo = {})
    BY <1>1 DEF QueryType
  <1>3. "push" \in rec.todo => rec.todo = {"push"}
    BY <1>1 DEF QueryType
  <1>4. \A task \in rec.todo : "push" \notin AfterTask(q, task).todo
    BY <1>2, <1>3 DEF AfterTask, IdleQuery, QueryRecord
  <1>5. rec.todo # {} => rec.name \in Domain
    BY <1>1, <1>2 DEF QueryType
  <1>6. rec.st \notin {"claim", "blocked"} => rec.todo = {}
    BY <1>1 DEF QueryType
  <1> QED BY <1>3, <1>4, <1>5, <1>6

LEMMA NoPushRecords ==
    /\ "push" \notin IdleQuery.todo
    /\ \A d, v : "push" \notin Forwarding(d, v).todo
    /\ \A d, v, todo : "push" \notin todo => "push" \notin Blocked(d, v, todo).todo
    /\ \A d, task : task # "push" => "push" \notin Claiming(d, task).todo
  BY DEF IdleQuery, Forwarding, Blocked, Claiming

LEMMA ResolverMaps ==
    ASSUME TypeOK, ResolverNext, jobs' = jobs
    PROVE  Silent \/ Tickets!Next
  <1>t. /\ cache \in [Domain -> CacheValue]
        /\ query \in [Query -> QueryType]
    BY DEF TypeOK, SharedTypeOK, ResolverTypeOK
  <1>c. {"none", "pending", "typosquat"} \subseteq CacheValue
    BY DEF CacheValue, Blocking
  <1>k. ASSUME NEW q \in Query, NEW rec, Goto(q, rec),
               "push" \notin query[q].todo, "push" \notin rec.todo,
               queue' = queue, faults' = faults, cache' = cache
        PROVE  Silent
    BY <1>k, GotoSameOwners, SilentStep
  <1>1. ASSUME NEW q \in Query, NEW e \in Asked, Arrive(q, e) PROVE Silent
    <2>1. "push" \notin OnArrival(e).todo
      BY NoPushRecords DEF OnArrival, IdleQuery
    <2> QED BY <1>1, <1>k, <2>1, TodoFacts DEF Arrive, InState, redisVars
  <1>2. ASSUME NEW q \in Query, Lookup(q) PROVE Silent
    <2>1. "push" \notin query[q].todo
      BY <1>2, TodoFacts DEF Lookup, InState
    <2>2. \A d, v : "push" \notin OnVerdict(d, v).todo
      BY NoPushRecords DEF OnVerdict
    <2>3. "push" \notin [query[q] EXCEPT !.at = query[q].at + 1].todo
      BY <2>1, <1>t DEF QueryType, QueryRecord
    <2>4. \E rec : Goto(q, rec) /\ "push" \notin rec.todo
      BY <1>2, <2>2, <2>3 DEF Lookup
    <2> QED BY <1>2, <1>k, <2>1, <2>4 DEF Lookup, redisVars
  <1>3. ASSUME NEW q \in Query, Answer(q) PROVE Silent
    <2>1. \E rec : Goto(q, rec) /\ "push" \notin rec.todo
      BY <1>3, NoPushRecords DEF Answer
    <2> QED BY <1>3, <1>k, <2>1, TodoFacts DEF Answer, InState, redisVars
  <1>4. ASSUME NEW q \in Query, RateLimit(q) PROVE Silent
    <2>1. \E rec : Goto(q, rec) /\ "push" \notin rec.todo
      BY <1>4, NoPushRecords DEF RateLimit
    <2> QED BY <1>4, <1>k, <2>1, TodoFacts DEF RateLimit, Due
  <1>5. ASSUME NEW q \in Query, MarkPending(q) PROVE Silent \/ Tickets!Next
    <2>0. "push" \notin query[q].todo /\ query[q].name \in Domain /\ queue' = queue /\ faults' = faults
      BY <1>5, TodoFacts DEF MarkPending, Due
    <2>1. PICK e \in Domain : e = query[q].name
      BY <2>0
    <2>2. CASE CanMark(e)
      <3>1. cache[e] = "none" /\ cache' = [cache EXCEPT ![e] = "pending"] /\ Goto(q, Claiming(e, "push"))
        BY <1>5, <2>1, <2>2 DEF MarkPending, CanMark
      <3>2. Marker[e] = "none" /\ Marker' = [Marker EXCEPT ![e] = "pending"]
        BY <3>1, <1>c, MarkerWritten DEF Marker
      <3>3. \A d \in Domain : ClaimHolds(d)' <=> ClaimHolds(d) \/ d = e
        BY <3>1, <2>0, <1>t DEF ClaimHolds, Goto, Claiming, IdleQuery
      <3>4. Open' = Open \cup {e}
        BY <2>0, <3>3 DEF Open, Owned, JobHolds, InQueue
      <3>5. Tickets!Claim(e)
        BY <3>2, <3>4, <2>0 DEF Tickets!Claim
      <3> QED BY <3>5 DEF Tickets!Next
    <2>3. CASE ~CanMark(e)
      <3>1. Goto(q, IdleQuery) /\ cache' = cache
        BY <1>5, <2>1, <2>3 DEF MarkPending
      <3> QED BY <3>1, <2>0, <1>k, NoPushRecords
    <2> QED BY <2>2, <2>3
  <1>6. ASSUME NEW q \in Query, EnqueueScan(q) PROVE Silent
    <2>1. PICK e \in Domain : e = query[q].name
      BY <1>6, TodoFacts DEF EnqueueScan, Due
    <2>2. /\ Enqueue(e) /\ "push" \in query[q].todo /\ Goto(q, IdleQuery)
          /\ cache' = cache /\ faults' = faults
      BY <1>6, <2>1 DEF EnqueueScan, Due
    <2>3. \A d \in Domain : InQueue(d)' <=> d = e \/ InQueue(d)
      BY <2>2, EnqueueOwners
    <2>4. \A d \in Domain : ClaimHolds(d)' \/ d = e <=> ClaimHolds(d) \/ d = e
      BY <2>1, <2>2, <1>t DEF ClaimHolds, Goto, IdleQuery
    <2>5. ClaimHolds(e)
      BY <2>1, <2>2 DEF ClaimHolds
    <2>6. SameOwners
      BY <2>3, <2>4, <2>5 DEF SameOwners, Owned, JobHolds
    <2> QED BY <2>2, <2>6, SilentStep
  <1>7. ASSUME NEW q \in Query, LogBlock(q) \/ Promote(q) PROVE Silent
    <2>1. PICK task \in {"log", "promote"} : Due(q, task) /\ Goto(q, AfterTask(q, task))
      BY <1>7 DEF LogBlock, Promote
    <2>2. "push" \notin query[q].todo /\ "push" \notin AfterTask(q, task).todo
      BY <2>1, TodoFacts DEF Due
    <2> QED BY <1>7, <1>k, <2>1, <2>2 DEF LogBlock, Promote, redisVars
  <1>8. ASSUME NEW q \in Query, CacheTyposquat(q) PROVE Tickets!Next
    <2>1. PICK e \in Domain : e = query[q].name
      BY <1>8, TodoFacts DEF CacheTyposquat, Due
    <2>2. /\ cache' = [cache EXCEPT ![e] = "typosquat"] /\ Goto(q, AfterTask(q, "cache"))
          /\ faults' = faults /\ queue' = queue
      BY <1>8, <2>1 DEF CacheTyposquat
    <2>3. "push" \notin query[q].todo /\ "push" \notin AfterTask(q, "cache").todo
      BY <1>8, TodoFacts DEF CacheTyposquat, Due
    <2>4. SameOwners
      BY <2>2, <2>3, GotoSameOwners
    <2>5. Tickets!Finish(e)
      BY <2>2, <2>4, <1>c, FinishStep DEF SameOwners
    <2> QED BY <2>5 DEF Tickets!Next
  <1>9. ASSUME NEW q \in Query, ClientGivesUp(q) PROVE Silent
    BY <1>9, <1>k, NoPushRecords, TodoFacts DEF ClientGivesUp, InState, redisVars
  <1>10. ASSUME NEW q \in Query, LookupFails(q) \/ TaskFails(q) PROVE Tickets!Next
    <2>1. \E rec : Goto(q, rec) /\ "push" \notin rec.todo
      <3>1. CASE LookupFails(q)
        <4> DEFINE rec == [IdleQuery EXCEPT !.st = "dropped", !.name = query[q].name]
        <4>1. "push" \notin rec.todo
          BY DEF IdleQuery
        <4>2. Goto(q, rec)
          BY <3>1 DEF LookupFails
        <4> QED BY <4>1, <4>2
      <3>2. CASE TaskFails(q)
        <4>1. PICK task \in query[q].todo : Goto(q, AfterTask(q, task))
          BY <3>2 DEF TaskFails
        <4> QED BY <4>1, TodoFacts
      <3> QED BY <1>10, <3>1, <3>2
    <2>2. Fault /\ queue' = queue /\ cache' = cache
      BY <1>10 DEF LookupFails, TaskFails, redisVars
    <2>3. LessOwners
      BY <2>1, <2>2, GotoLessOwners
    <2>4. Tickets!Fail
      BY <2>2, <2>3, FailStep
    <2> QED BY <2>4 DEF Tickets!Next
  <1>11. ASSUME NEW q \in Query, MarkAnswerLost(q) PROVE Tickets!Next
    <2>1. PICK e \in Domain : e = query[q].name
      BY <1>11, TodoFacts DEF MarkAnswerLost, Due
    <2>2. /\ cache[e] = "none" /\ cache' = [cache EXCEPT ![e] = "pending"]
          /\ Goto(q, IdleQuery) /\ Fault /\ queue' = queue
      BY <1>11, <2>1 DEF MarkAnswerLost, CanMark
    <2>3. LessOwners
      BY <2>2, GotoLessOwners, NoPushRecords
    <2>4. Tickets!Fail
      BY <2>2, <2>3, FailStep
    <2> QED BY <2>4 DEF Tickets!Next
  <1> QED
    BY <1>1, <1>2, <1>3, <1>4, <1>5, <1>6, <1>7, <1>8, <1>9, <1>10, <1>11 DEF ResolverNext, ResolverStep

LEMMA RefreshMaps ==
    ASSUME TypeOK, RefreshNext \/ DnsRestart, jobs' = jobs
    PROVE  Silent \/ Tickets!Next
  <1>1. ASSUME RefreshStep PROVE Silent
    <2>1. query' = query /\ queue' = queue /\ cache' = cache /\ faults' = faults
      BY <1>1 DEF RefreshStep, LoadBlocklist, ReplaceBlocklist, LoadWhitelist, ReplaceWhitelist,
                  LoadBrands, FinishRefresh, redisVars
    <2> QED BY <2>1, OwnersUnchanged, SilentStep
  <1>2. ASSUME LoadWhitelistFails \/ LoadBrandsFails PROVE Tickets!Next
    <2>1. query' = query /\ queue' = queue /\ cache' = cache /\ Fault
      BY <1>2 DEF LoadWhitelistFails, LoadBrandsFails, FinishRefresh, redisVars
    <2>2. LessOwners
      BY <2>1, OwnersUnchanged DEF SameOwners, LessOwners
    <2>3. Tickets!Fail
      BY <2>1, <2>2, FailStep
    <2> QED BY <2>3 DEF Tickets!Next
  <1>3. ASSUME DnsRestart PROVE Tickets!Next
    <2>1. query' = [q \in Query |-> IdleQuery] /\ queue' = queue /\ cache' = cache /\ Fault
      BY <1>3 DEF DnsRestart, ResolverCrash, redisVars
    <2>2. \A d \in Domain : ~ClaimHolds(d)'
      BY <2>1, NoPushRecords DEF ClaimHolds
    <2>3. LessOwners
      BY <2>1, <2>2 DEF LessOwners, Owned, JobHolds, InQueue
    <2>4. Tickets!Fail
      BY <2>1, <2>3, FailStep
    <2> QED BY <2>4 DEF Tickets!Next
  <1> QED BY <1>1, <1>2, <1>3 DEF RefreshNext

LEMMA ScannerMaps ==
    ASSUME TypeOK, ScannerNext, query' = query
    PROVE  Silent \/ Tickets!Next
  <1>t. /\ cache \in [Domain -> CacheValue]
        /\ jobs \in [Job -> JobType]
    BY DEF TypeOK, SharedTypeOK, ScannerTypeOK
  <1>n. ASSUME NEW j \in Job, jobs[j].st # "free" PROVE jobs[j].name \in Domain
    BY <1>t, <1>n DEF JobType
  <1>v. {"safe", "suspicious", "scam", "unverified"} \subseteq CacheValue \ {"none", "pending"}
    BY DEF CacheValue, Blocking
  <1>e. \A d \in Domain : ~Holds(FreeJob, d)
    BY DEF Holds, FreeJob
  <1>u. ASSUME NEW j \in Job
        PROVE  \A d \in Domain : ~Holds(AfterUpsert(j), d)
    <2>1. jobs[j] \in JobRecord
      BY <1>t DEF JobType
    <2> QED BY <2>1 DEF AfterUpsert, Holds, FreeJob, JobRecord
  <1>1. ASSUME NEW j \in Job, Pop(j) PROVE Silent
    <2>1. /\ jobs[j].st = "free" /\ queue # <<>> /\ queue' = Tail(queue)
          /\ Become(j, NewJob("waiting", TRUE, Head(queue)))
          /\ cache' = cache /\ faults' = faults
      BY <1>1 DEF Pop
    <2>2. \A d \in Domain : JobHolds(d)' <=> JobHolds(d) \/ d = Head(queue)
      BY <2>1, <1>t DEF JobHolds, Become, NewJob, FreeJob
    <2>3. \A d \in Domain : (d = Head(queue) \/ InQueue(d)') <=> InQueue(d)
      BY <2>1, PopOwners
    <2>4. SameOwners
      BY <2>2, <2>3 DEF SameOwners, Owned, ClaimHolds
    <2> QED BY <2>1, <2>4, SilentStep
  <1>2. ASSUME NEW j \in Job, NEW rec, Become(j, rec), \A d \in Domain : Holds(rec, d) <=> Holds(jobs[j], d),
               queue' = queue, cache' = cache, faults' = faults
        PROVE  Silent
    BY <1>2, BecomeSameOwners, SilentStep
  <1>3. ASSUME NEW j \in Job, NEW d \in Controlled, ControlScan(j, d) PROVE Silent
    <2>1. \A e \in Domain : ~Holds(NewJob("scanning", FALSE, d), e) /\ ~Holds(jobs[j], e)
      BY <1>3 DEF ControlScan, Holds, NewJob, FreeJob
    <2> QED BY <1>3, <1>2, <2>1 DEF ControlScan, redisVars
  <1>4. ASSUME NEW j \in Job, BeginScan(j) PROVE Silent
    <2>1. jobs[j] \in JobRecord /\ jobs[j].st = "waiting"
      BY <1>4, <1>t DEF BeginScan, JobType
    <2>2. \A e \in Domain : Holds([jobs[j] EXCEPT !.st = "scanning"], e) <=> Holds(jobs[j], e)
      BY <2>1 DEF Holds, JobRecord
    <2> QED BY <1>4, <1>2, <2>2 DEF BeginScan, redisVars
  <1>5. ASSUME NEW j \in Job, ControlScanEmpty(j) PROVE Silent
    <2>1. \A e \in Domain : ~Holds(jobs[j], e)
      BY <1>5 DEF ControlScanEmpty, Holds
    <2> QED BY <1>5, <1>2, <1>e, <2>1 DEF ControlScanEmpty, redisVars
  <1>6. ASSUME NEW j \in Job, UpsertRow(j) PROVE Silent
    <2>1. \A e \in Domain : ~Holds(jobs[j], e)
      BY <1>6 DEF UpsertRow, Holds
    <2> QED BY <1>6, <1>2, <1>u, <2>1 DEF UpsertRow, redisVars
  <1>7. ASSUME NEW j \in Job, PromoteScam(j) PROVE Silent
    <2>1. \A e \in Domain : ~Holds(jobs[j], e)
      BY <1>7 DEF PromoteScam, Holds
    <2> QED BY <1>7, <1>2, <1>e, <2>1 DEF PromoteScam, redisVars
  <1>8. ASSUME NEW j \in Job, NEW e \in Domain, e = jobs[j].name, NEW rec, Become(j, rec),
               \A d \in Domain : ~Holds(rec, d),
               NEW v \in CacheValue \ {"none", "pending"}, cache' = [cache EXCEPT ![e] = v],
               queue' = queue, faults' = faults
        PROVE  Tickets!Next
    <2>1. LessOwners /\ \A d \in Domain : d # e => (Owned(d)' <=> Owned(d))
      BY <1>8, BecomeLessOwners
    <2>2. Tickets!Finish(e)
      BY <1>8, <2>1, FinishStep DEF LessOwners
    <2> QED BY <2>2 DEF Tickets!Next
  <1>9. ASSUME NEW j \in Job, SaveVerdict(j) PROVE Tickets!Next
    <2>1. PICK e \in Domain : e = jobs[j].name
      BY <1>9, <1>n DEF SaveVerdict
    <2>2. PICK v \in {"safe", "suspicious", "scam"}, sure \in BOOLEAN :
            /\ cache' = [cache EXCEPT ![e] = v]
            /\ Become(j, [jobs[j] EXCEPT !.st = "upsert", !.verdict = v, !.sure = sure])
      BY <1>9, <2>1 DEF SaveVerdict
    <2>3. \A d \in Domain : ~Holds([jobs[j] EXCEPT !.st = "upsert", !.verdict = v, !.sure = sure], d)
      BY <1>t DEF Holds, JobType, JobRecord
    <2>4. queue' = queue /\ faults' = faults
      BY <1>9 DEF SaveVerdict
    <2> QED BY <1>8, <1>v, <2>1, <2>2, <2>3, <2>4
  <1>10. ASSUME NEW j \in Job, SaveError(j) PROVE Tickets!Next
    <2>1. PICK e \in Domain : e = jobs[j].name
      BY <1>10, <1>n DEF SaveError
    <2> QED BY <1>8, <1>10, <1>v, <1>e, <2>1 DEF SaveError
  <1>11. ASSUME NEW j \in Job, SaveFails(j) \/ UpsertFails(j) \/ PromoteScamFails(j)
         PROVE  Tickets!Next
    <2>1. \E rec : Become(j, rec) /\ \A d \in Domain : ~Holds(rec, d)
      BY <1>11, <1>e, <1>u DEF SaveFails, UpsertFails, PromoteScamFails
    <2>2. Fault /\ cache' = cache /\ queue' = queue
      BY <1>11 DEF SaveFails, UpsertFails, PromoteScamFails, redisVars
    <2>3. Tickets!Fail
      BY <2>1, <2>2, BecomeLessOwners, FailStep
    <2> QED BY <2>3 DEF Tickets!Next
  <1>12. ASSUME ScannerRestart PROVE Tickets!Next
    <2>1. Fault /\ cache' = cache /\ queue' = queue /\ jobs' = [j \in Job |-> FreeJob]
      BY <1>12 DEF ScannerRestart, redisVars
    <2>2. \A d \in Domain : ~JobHolds(d)'
      BY <2>1 DEF JobHolds, FreeJob
    <2>3. LessOwners
      BY <2>1, <2>2 DEF LessOwners, Owned, ClaimHolds, InQueue
    <2>4. Tickets!Fail
      BY <2>1, <2>3, FailStep
    <2> QED BY <2>4 DEF Tickets!Next
  <1>13. ASSUME PopFails PROVE Tickets!Next
    <2>1. Fault /\ cache' = cache /\ jobs' = jobs
      BY <1>13 DEF PopFails
    <2>2. \A d \in Domain : InQueue(d)' => InQueue(d)
      <3>1. CASE queue' = queue
        BY <3>1 DEF InQueue
      <3>2. CASE queue # <<>> /\ queue' = Tail(queue)
        BY <3>2, PopOwners
      <3> QED BY <1>13, <3>1, <3>2 DEF PopFails
    <2>3. LessOwners
      BY <2>1, <2>2 DEF LessOwners, Owned, ClaimHolds, JobHolds
    <2>4. Tickets!Fail
      BY <2>1, <2>3, FailStep
    <2> QED BY <2>4 DEF Tickets!Next
  <1>14. ASSUME OperatorRestart PROVE Silent
    BY <1>14, OwnersUnchanged, SilentStep DEF OperatorRestart, redisVars
  <1> QED
    BY <1>1, <1>3, <1>4, <1>5, <1>6, <1>7, <1>9, <1>10, <1>11, <1>12, <1>13, <1>14 DEF ScannerNext, ScannerStep

LEMMA AdminMaps ==
    ASSUME TypeOK, AdminNext, query' = query, jobs' = jobs
    PROVE  Silent \/ Tickets!Next
  <1>1. ASSUME queue' = queue, cache' = cache, faults' = faults PROVE Silent
    BY <1>1, OwnersUnchanged, SilentStep
  <1>2. ASSUME NEW d \in Managed,
               AddBlocklist(d) \/ RemoveBlocklist(d) \/ AddWhitelist(d) \/ RemoveWhitelist(d)
        PROVE  Silent
    BY <1>1, <1>2 DEF AddBlocklist, RemoveBlocklist, AddWhitelist, RemoveWhitelist, redisVars
  <1>3. ASSUME NEW d \in Reported, SubmitReport(d) \/ ConfirmReport(d) \/ RejectReport(d)
        PROVE  Silent
    BY <1>1, <1>3 DEF SubmitReport, ConfirmReport, RejectReport, redisVars
  <1>4. ASSUME DemoteVerdict PROVE Silent
    BY <1>1, <1>4 DEF DemoteVerdict, redisVars
  <1>5. ASSUME ClearVerdict PROVE Tickets!Next
    <2>1. PICK e \in Domain : e = admin.name
      BY <1>5 DEF ClearVerdict, TypeOK, AdminTypeOK
    <2>2. cache' = [cache EXCEPT ![e] = "none"] /\ queue' = queue /\ faults' = faults
      BY <1>5, <2>1 DEF ClearVerdict
    <2>3. Tickets!Vanish(e)
      BY <2>2, OwnersUnchanged, VanishStep
    <2> QED BY <2>3 DEF Tickets!Next
  <1>6. ASSUME AdminFails PROVE Tickets!Next
    <2>1. Fault /\ cache' = cache /\ queue' = queue
      BY <1>6 DEF AdminFails, redisVars
    <2>2. Tickets!Fail
      BY <2>1, OwnersUnchanged, FailStep DEF SameOwners, LessOwners
    <2> QED BY <2>2 DEF Tickets!Next
  <1> QED BY <1>2, <1>3, <1>4, <1>5, <1>6 DEF AdminNext, AdminStep

LEMMA PublicMaps ==
    ASSUME TypeOK, PublicNext, query' = query, jobs' = jobs
    PROVE  Silent \/ Tickets!Next
  <1>1. ASSUME NEW c \in Client, CheckEnqueue(c) PROVE Tickets!Next
    <2>1. PICK e \in Domain : e = check[c].name
      BY <1>1 DEF CheckEnqueue, TypeOK, PublicTypeOK
    <2>2. Enqueue(e) /\ cache' = cache /\ faults' = faults
      BY <1>1, <2>1 DEF CheckEnqueue
    <2>3. \A d \in Domain : InQueue(d)' <=> d = e \/ InQueue(d)
      BY <2>2, EnqueueOwners
    <2>4. Open' = Open \cup {e}
      BY <2>3 DEF Open, Owned, ClaimHolds, JobHolds
    <2>5. Marker' = Marker
      BY <2>2 DEF Marker
    <2>6. Tickets!Request(e)
      BY <2>2, <2>4, <2>5 DEF Tickets!Request
    <2> QED BY <2>6 DEF Tickets!Next
  <1>2. ASSUME NEW c \in Client,
               CheckCache(c) \/ CheckRow(c) \/ \E d \in Checked : CheckBlocklist(c, d)
        PROVE  Silent
    <2>1. queue' = queue /\ cache' = cache /\ faults' = faults
      BY <1>2 DEF CheckCache, CheckRow, CheckBlocklist, redisVars
    <2> QED BY <2>1, OwnersUnchanged, SilentStep
  <1>3. ASSUME NEW c \in Client, CheckFails(c) PROVE Tickets!Next
    <2>1. Fault /\ cache' = cache /\ queue' = queue
      BY <1>3 DEF CheckFails, redisVars
    <2>2. Tickets!Fail
      BY <2>1, OwnersUnchanged, FailStep DEF SameOwners, LessOwners
    <2> QED BY <2>2 DEF Tickets!Next
  <1> QED BY <1>1, <1>2, <1>3 DEF PublicNext, PublicStep

LEMMA RedisMaps ==
    ASSUME TypeOK, RedisExpiry, query' = query, jobs' = jobs
    PROVE  Silent \/ Tickets!Next
  <1>1. ASSUME NEW d \in Domain, ExpireVerdict(d) PROVE Tickets!Next
    <2>1. cache' = [cache EXCEPT ![d] = "none"] /\ queue' = queue /\ faults' = faults
      BY <1>1 DEF ExpireVerdict
    <2>2. Tickets!Vanish(d)
      BY <2>1, OwnersUnchanged, VanishStep
    <2> QED BY <2>2 DEF Tickets!Next
  <1>2. ASSUME NEW d \in Domain, ExpireRateLimit(d) PROVE Silent
    <2>1. queue' = queue /\ cache' = cache /\ faults' = faults
      BY <1>2 DEF ExpireRateLimit
    <2> QED BY <2>1, OwnersUnchanged, SilentStep
  <1> QED BY <1>1, <1>2 DEF RedisExpiry

-----------------------------------------------------------------------------
LEMMA InitMaps == Init => Tickets!Init
  <1> SUFFICES ASSUME Init PROVE Tickets!Init
    OBVIOUS
  <1>1. Marker = [d \in Domain |-> "none"]
    BY DEF Init, SharedInit, Marker
  <1>2. \A d \in Domain : ~Owned(d)
    BY NoPushRecords DEF Init, SharedInit, ResolverInit, ScannerInit, FreeJob,
                         Owned, ClaimHolds, JobHolds, InQueue
  <1>3. Open = {}
    BY <1>2 DEF Open
  <1> QED BY <1>1, <1>3 DEF Init, SharedInit, Tickets!Init

LEMMA StepMaps == TypeOK /\ [Next]_vars => [Tickets!Next]_(Tickets!ticketVars)
  <1> SUFFICES ASSUME TypeOK, [Next]_vars PROVE Silent \/ Tickets!Next
    BY DEF Silent, Tickets!ticketVars
  <1>1. CASE OfResolver(ResolverNext)
    BY <1>1, ResolverMaps DEF OfResolver, scannerVars
  <1>2. CASE OfRefresh(RefreshNext) \/ OfRefresh(DnsRestart)
    BY <1>2, RefreshMaps DEF OfRefresh, scannerVars
  <1>3. CASE OfScanner(ScannerNext)
    BY <1>3, ScannerMaps DEF OfScanner
  <1>4. CASE OfAdmin(AdminNext)
    BY <1>4, AdminMaps DEF OfAdmin, scannerVars
  <1>5. CASE OfPublic(PublicNext)
    BY <1>5, PublicMaps DEF OfPublic, scannerVars
  <1>6. CASE OfRedis(RedisExpiry)
    BY <1>6, RedisMaps DEF OfRedis, scannerVars
  <1>7. CASE UNCHANGED vars
    BY <1>7, OwnersUnchanged, SilentStep DEF vars, scannerVars, redisVars
  <1> QED BY <1>1, <1>2, <1>3, <1>4, <1>5, <1>6, <1>7 DEF Next

\* The pipeline of DNS server, scanner and APIs keeps the promise of
\* ScanTickets, with crashes and failed store calls at any point.
THEOREM RefinesTickets == Spec => ImplementsTickets
  BY InitMaps, InitType, StepType, StepMaps, PTL DEF Spec, ImplementsTickets, Tickets!Spec
=============================================================================
