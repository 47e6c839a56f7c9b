--------------------------- MODULE ScamLensProofs ---------------------------
(***************************************************************************)
(* Theorems about ScamLens, for every name tree, every number of requests, *)
(* scans and clients, every queue length and every number of faults.       *)
(***************************************************************************)
EXTENDS ScamLens, ComponentProofs, TLAPS

USE DomainAssumption, BoundAssumption, ResolverAssumption, RefreshAssumption,
    ScannerAssumption, AdminAssumption, PublicAssumption

-----------------------------------------------------------------------------
(* The records that the actions build.                                     *)

LEMMA ChainType ==
    ASSUME NEW d \in Domain
    PROVE  /\ Chain[d] \in Seq(Domain)
           /\ Len(Chain[d]) \in Nat
           /\ 1 \in 1..Len(Chain[d])
           /\ \A i \in 1..Len(Chain[d]) : Chain[d][i] \in Domain
           /\ Parents(d) \subseteq Domain
           /\ d \in Parents(d)
  <1>1. Chain[d] \in Seq(Domain) /\ Len(Chain[d]) > 0 /\ Chain[d][1] = d
    OBVIOUS
  <1>2. Len(Chain[d]) \in Nat /\ \A i \in 1..Len(Chain[d]) : Chain[d][i] \in Domain
    BY <1>1
  <1>3. 1 \in 1..Len(Chain[d])
    BY <1>1, <1>2
  <1> QED BY <1>1, <1>2, <1>3 DEF Parents

LEMMA IdleQueryType == IdleQuery \in QueryType
  BY DEF IdleQuery, QueryType, QueryRecord, CacheValue

LEMMA ForwardingType ==
    ASSUME NEW d \in Domain, NEW v \in CacheValue
    PROVE  Forwarding(d, v) \in QueryType
  BY DEF Forwarding, IdleQuery, QueryType, QueryRecord, CacheValue

LEMMA BlockedType ==
    ASSUME NEW d \in Domain, NEW v \in CacheValue, NEW todo \in SUBSET {"log", "cache", "promote"}
    PROVE  Blocked(d, v, todo) \in QueryType
  BY DEF Blocked, IdleQuery, QueryType, QueryRecord, CacheValue, Task

LEMMA ClaimingType ==
    ASSUME NEW d \in Domain, NEW task \in {"rate", "mark", "push"}
    PROVE  Claiming(d, task) \in QueryType
  BY DEF Claiming, IdleQuery, QueryType, QueryRecord, CacheValue, Task

LEMMA OnArrivalType ==
    ASSUME NEW d \in Domain
    PROVE  OnArrival(d) \in QueryType
  <1>1. [IdleQuery EXCEPT !.st = "lookup", !.name = d, !.at = 1] \in QueryType
    BY ChainType DEF IdleQuery, QueryType, QueryRecord, CacheValue
  <1>2. "safe" \in CacheValue /\ "none" \in CacheValue
    BY DEF CacheValue
  <1> QED BY <1>1, <1>2, ForwardingType, BlockedType DEF OnArrival

LEMMA OnVerdictType ==
    ASSUME NEW d \in Domain, NEW v \in CacheValue
    PROVE  OnVerdict(d, v) \in QueryType
  <1>1. "safe" \in CacheValue /\ "typosquat" \in CacheValue
    BY DEF CacheValue, Blocking
  <1> QED BY <1>1, ForwardingType, BlockedType DEF OnVerdict

LEMMA AfterTaskType ==
    ASSUME NEW q \in Query, query \in [Query -> QueryType], NEW task \in query[q].todo
    PROVE  AfterTask(q, task) \in QueryType
  <1>1. CASE query[q].todo = {task}
    BY <1>1, IdleQueryType DEF AfterTask
  <1>2. CASE query[q].todo # {task}
    <2> DEFINE rec == query[q]
    <2>1. rec \in QueryType
      OBVIOUS
    <2>2. rec \in QueryRecord /\ rec.st = "blocked" /\ rec.name \in Domain /\ rec.todo \subseteq {"log", "cache", "promote"}
      BY <1>2, <2>1 DEF QueryType
    <2>3. [rec EXCEPT !.todo = rec.todo \ {task}] \in QueryType
      BY <2>2 DEF QueryType, QueryRecord
    <2> QED BY <1>2, <2>3 DEF AfterTask
  <1> QED BY <1>1, <1>2

LEMMA GotoType ==
    ASSUME query \in [Query -> QueryType], NEW q \in Query, NEW rec \in QueryType, Goto(q, rec)
    PROVE  query' \in [Query -> QueryType]
  BY DEF Goto

\* A request with a background call still to make is about a name.
LEMMA DueName ==
    ASSUME query \in [Query -> QueryType], NEW q \in Query, NEW task, Due(q, task)
    PROVE  /\ query[q].name \in Domain
           /\ query[q].seen \in CacheValue
           /\ query[q].st \in {"claim", "blocked"}
  <1>1. query[q] \in QueryType
    OBVIOUS
  <1> QED BY <1>1 DEF Due, QueryType, QueryRecord

-----------------------------------------------------------------------------
(* Type correctness, one lemma per component.                              *)

LEMMA ResolverKeepsType ==
    ASSUME SharedTypeOK, ResolverTypeOK, ResolverNext
    PROVE  SharedTypeOK' /\ ResolverTypeOK'
  <1> SUFFICES ASSUME NEW q \in Query,
                      \/ \E d \in Asked : Arrive(q, d)
                      \/ ResolverStep(q)
                      \/ LookupFails(q) \/ TaskFails(q) \/ MarkAnswerLost(q)
               PROVE  SharedTypeOK' /\ ResolverTypeOK'
    BY DEF ResolverNext
  <1>q. query \in [Query -> QueryType] /\ query[q] \in QueryType
    BY DEF ResolverTypeOK
  <1>r. ASSUME NEW rec \in QueryType, Goto(q, rec), serving' = serving
        PROVE  ResolverTypeOK'
    BY <1>q, <1>r, GotoType DEF ResolverTypeOK
  <1>v. "none" \in CacheValue /\ "pending" \in CacheValue /\ "typosquat" \in CacheValue
    BY DEF CacheValue, Blocking
  <1>1. ASSUME NEW d \in Asked, Arrive(q, d) PROVE SharedTypeOK' /\ ResolverTypeOK'
    BY <1>1, <1>r, OnArrivalType, SharedSame DEF Arrive
  <1>2. ASSUME Lookup(q) PROVE SharedTypeOK' /\ ResolverTypeOK'
    <2> DEFINE d == query[q].name
               at == query[q].at
               v == cache[Chain[d][at]]
    <2>1. d \in Domain /\ at \in 1..Len(Chain[d]) /\ query[q] \in QueryRecord
      BY <1>2, <1>q DEF Lookup, InState, QueryType
    <2>2. v \in CacheValue
      BY <2>1, ChainType DEF SharedTypeOK
    <2>3. OnVerdict(d, v) \in QueryType
      BY <2>1, <2>2, OnVerdictType
    <2>4. ASSUME MoreParents(d, at) PROVE [query[q] EXCEPT !.at = at + 1] \in QueryType
      <3>0. Len(Chain[d]) \in Nat /\ at \in Nat /\ at >= 1 /\ at < Len(Chain[d])
        BY <2>1, <2>4, ChainType DEF MoreParents, QueryRecord
      <3> HIDE DEF d, at
      <3>1. at + 1 \in 1..Len(Chain[d]) /\ at + 1 \in Nat
        BY <3>0
      <3> USE DEF d, at
      <3>2. query[q].st = "lookup"
        BY <1>2 DEF Lookup, InState
      <3> QED BY <1>q, <2>1, <3>1, <3>2 DEF QueryType, QueryRecord
    <2> QED BY <1>2, <1>r, <2>3, <2>4, SharedSame DEF Lookup
  <1>3. ASSUME Answer(q) PROVE SharedTypeOK' /\ ResolverTypeOK'
    <2>1. query[q].name \in Domain
      BY <1>3, <1>q DEF Answer, InState, QueryType
    <2>2. Claiming(query[q].name, "rate") \in QueryType
      BY <2>1, ClaimingType
    <2> QED BY <1>3, <1>r, <2>2, IdleQueryType, SharedSame DEF Answer
  <1>4. ASSUME RateLimit(q) PROVE SharedTypeOK' /\ ResolverTypeOK'
    <2>1. query[q].name \in Domain
      BY <1>4, <1>q, DueName DEF RateLimit
    <2>2. Claiming(query[q].name, "mark") \in QueryType
      BY <2>1, ClaimingType
    <2>3. ResolverTypeOK'
      BY <1>4, <1>r, <2>2, IdleQueryType DEF RateLimit
    <2>4. limited' \in SUBSET Domain
      BY <1>4, <2>1 DEF RateLimit, SharedTypeOK
    <2>5. SharedTypeOK'
      BY <1>4, <2>4 DEF RateLimit, SharedTypeOK, pgVars, memVars
    <2> QED BY <2>3, <2>5
  <1>5. ASSUME MarkPending(q) PROVE SharedTypeOK' /\ ResolverTypeOK'
    <2>1. query[q].name \in Domain
      BY <1>5, <1>q, DueName DEF MarkPending
    <2>2. Claiming(query[q].name, "push") \in QueryType
      BY <2>1, ClaimingType
    <2>3. ResolverTypeOK'
      BY <1>5, <1>r, <2>2, IdleQueryType DEF MarkPending
    <2>4. cache \in [Domain -> CacheValue]
      BY DEF SharedTypeOK
    <2>5. cache' = cache \/ cache' = [cache EXCEPT ![query[q].name] = "pending"]
      BY <1>5 DEF MarkPending
    <2>6. cache' \in [Domain -> CacheValue]
      BY <2>1, <2>4, <2>5, <1>v
    <2>7. SharedTypeOK'
      BY <1>5, <2>6 DEF MarkPending, SharedTypeOK, pgVars, memVars
    <2> QED BY <2>3, <2>7
  <1>6. ASSUME EnqueueScan(q) PROVE SharedTypeOK' /\ ResolverTypeOK'
    <2>1. query[q].name \in Domain
      BY <1>6, <1>q, DueName DEF EnqueueScan
    <2>2. ResolverTypeOK'
      BY <1>6, <1>r, IdleQueryType DEF EnqueueScan
    <2>3. queue' \in Seq(Domain)
      BY <1>6, <2>1, EnqueueType DEF EnqueueScan
    <2>4. SharedTypeOK'
      BY <1>6, <2>3 DEF EnqueueScan, SharedTypeOK, pgVars, memVars
    <2> QED BY <2>2, <2>4
  <1>7. ASSUME LogBlock(q) PROVE SharedTypeOK' /\ ResolverTypeOK'
    BY <1>7, <1>q, <1>r, AfterTaskType, SharedSame DEF LogBlock, Due
  <1>8. ASSUME CacheTyposquat(q) PROVE SharedTypeOK' /\ ResolverTypeOK'
    <2>1. query[q].name \in Domain
      BY <1>8, <1>q, DueName DEF CacheTyposquat
    <2>2. ResolverTypeOK'
      BY <1>8, <1>q, <1>r, AfterTaskType DEF CacheTyposquat, Due
    <2>3. SharedTypeOK'
      BY <1>8, <2>1, <1>v DEF CacheTyposquat, SharedTypeOK, pgVars, memVars
    <2> QED BY <2>2, <2>3
  <1>9. ASSUME Promote(q) PROVE SharedTypeOK' /\ ResolverTypeOK'
    <2>1. query[q].name \in Domain
      BY <1>9, <1>q, DueName DEF Promote
    <2>2. ResolverTypeOK'
      BY <1>9, <1>q, <1>r, AfterTaskType DEF Promote, Due
    <2>3. CategoryFor(query[q].seen) \in Category
      BY DEF CategoryFor, Category
    <2>4. seed' \in [Domain -> {"none"} \cup Category]
      BY <1>9, <2>1, <2>3, SeedWritten DEF Promote
    <2>5. SharedTypeOK'
      BY <1>9, <2>4 DEF Promote, SharedTypeOK, redisVars, memVars
    <2> QED BY <2>2, <2>5
  <1>10. ASSUME ClientGivesUp(q) PROVE SharedTypeOK' /\ ResolverTypeOK'
    BY <1>10, <1>r, IdleQueryType, SharedSame DEF ClientGivesUp
  <1>11. ASSUME LookupFails(q) PROVE SharedTypeOK' /\ ResolverTypeOK'
    <2> DEFINE rec == [IdleQuery EXCEPT !.st = "dropped", !.name = query[q].name]
    <2>1. query[q].name \in Domain
      BY <1>11, <1>q DEF LookupFails, InState, QueryType
    <2>2. rec \in QueryType
      BY <2>1, <1>v DEF IdleQuery, QueryType, QueryRecord
    <2> QED BY <1>11, <1>r, <2>2, SharedSameFault DEF LookupFails
  <1>12. ASSUME TaskFails(q) PROVE SharedTypeOK' /\ ResolverTypeOK'
    BY <1>12, <1>q, <1>r, AfterTaskType, SharedSameFault DEF TaskFails
  <1>13. ASSUME MarkAnswerLost(q) PROVE SharedTypeOK' /\ ResolverTypeOK'
    <2>1. query[q].name \in Domain
      BY <1>13, <1>q, DueName DEF MarkAnswerLost
    <2>2. ResolverTypeOK'
      BY <1>13, <1>r, IdleQueryType DEF MarkAnswerLost
    <2>3. SharedTypeOK'
      BY <1>13, <2>1, <1>v DEF MarkAnswerLost, SharedTypeOK, pgVars, memVars, Fault
    <2> QED BY <2>2, <2>3
  <1> QED
    BY <1>1, <1>2, <1>3, <1>4, <1>5, <1>6, <1>7, <1>8, <1>9, <1>10, <1>11, <1>12, <1>13
    DEF ResolverStep

LEMMA RefreshKeepsType ==
    ASSUME SharedTypeOK, ResolverTypeOK, RefreshTypeOK, RefreshNext \/ DnsRestart
    PROVE  SharedTypeOK' /\ ResolverTypeOK' /\ RefreshTypeOK'
  <1>1. ASSUME LoadBlocklist PROVE SharedTypeOK' /\ ResolverTypeOK' /\ RefreshTypeOK'
    <2>1. BlocklistUnion \subseteq Domain
      BY DEF BlocklistUnion
    <2> QED BY <1>1, <2>1, SharedSame DEF LoadBlocklist, ResolverTypeOK, RefreshTypeOK, RefreshRecord
  <1>2. ASSUME ReplaceBlocklist PROVE SharedTypeOK' /\ ResolverTypeOK' /\ RefreshTypeOK'
    <2>1. refresh' \in RefreshRecord
      BY <1>2 DEF ReplaceBlocklist, RefreshRecord
    <2>2. memBlock' \in SUBSET Domain
      BY <1>2 DEF ReplaceBlocklist, RefreshTypeOK, RefreshRecord
    <2> QED BY <1>2, <2>1, <2>2
        DEF ReplaceBlocklist, ResolverTypeOK, RefreshTypeOK, SharedTypeOK, pgVars, redisVars
  <1>3. ASSUME LoadWhitelist PROVE SharedTypeOK' /\ ResolverTypeOK' /\ RefreshTypeOK'
    BY <1>3, SharedSame DEF LoadWhitelist, ResolverTypeOK, RefreshTypeOK, RefreshRecord, SharedTypeOK
  <1>4. ASSUME LoadWhitelistFails PROVE SharedTypeOK' /\ ResolverTypeOK' /\ RefreshTypeOK'
    BY <1>4, SharedSameFault DEF LoadWhitelistFails, ResolverTypeOK, RefreshTypeOK, RefreshRecord
  <1>5. ASSUME ReplaceWhitelist PROVE SharedTypeOK' /\ ResolverTypeOK' /\ RefreshTypeOK'
    <2>1. refresh' \in RefreshRecord
      BY <1>5 DEF ReplaceWhitelist, RefreshRecord
    <2>2. memWhite' \in SUBSET Domain
      BY <1>5 DEF ReplaceWhitelist, RefreshTypeOK, RefreshRecord
    <2> QED BY <1>5, <2>1, <2>2
        DEF ReplaceWhitelist, ResolverTypeOK, RefreshTypeOK, SharedTypeOK, pgVars, redisVars
  <1>6. ASSUME NEW alike \in SUBSET Domain, FinishRefresh(alike), faults' \in 0..MaxFaults
        PROVE  SharedTypeOK' /\ ResolverTypeOK' /\ RefreshTypeOK'
    BY <1>6 DEF FinishRefresh, Sleeping, ResolverTypeOK, RefreshTypeOK, RefreshRecord,
                SharedTypeOK, pgVars, redisVars
  <1>7. ASSUME LoadBrands PROVE SharedTypeOK' /\ ResolverTypeOK' /\ RefreshTypeOK'
    BY <1>6, <1>7 DEF LoadBrands, SharedTypeOK
  <1>8. ASSUME LoadBrandsFails PROVE SharedTypeOK' /\ ResolverTypeOK' /\ RefreshTypeOK'
    BY <1>6, <1>8 DEF LoadBrandsFails, Fault, SharedTypeOK
  <1>9. ASSUME DnsRestart PROVE SharedTypeOK' /\ ResolverTypeOK' /\ RefreshTypeOK'
    <2>1. query' \in [Query -> QueryType]
      BY <1>9, IdleQueryType DEF DnsRestart, ResolverCrash
    <2>2. SharedTypeOK'
      BY <1>9 DEF DnsRestart, ResolverCrash, Fault, SharedTypeOK, pgVars, redisVars
    <2> QED BY <1>9, <2>1, <2>2
        DEF DnsRestart, ResolverCrash, Sleeping, ResolverTypeOK, RefreshTypeOK, RefreshRecord
  <1> QED
    BY <1>1, <1>2, <1>3, <1>4, <1>5, <1>7, <1>8, <1>9 DEF RefreshNext, RefreshStep

-----------------------------------------------------------------------------
LEMMA InitType == Init => TypeOK
  <1> SUFFICES ASSUME Init PROVE TypeOK
    OBVIOUS
  <1>1. SharedTypeOK
    BY SharedInitType DEF Init
  <1>2. ResolverTypeOK
    BY IdleQueryType DEF Init, ResolverInit, ResolverTypeOK
  <1>3. RefreshTypeOK
    BY DEF Init, RefreshInit, RefreshTypeOK, RefreshRecord, Sleeping
  <1>4. ScannerTypeOK
    BY ScannerInitType DEF Init
  <1>5. AdminTypeOK
    BY AdminInitType DEF Init
  <1>6. PublicTypeOK
    BY PublicInitType DEF Init
  <1> QED BY <1>1, <1>2, <1>3, <1>4, <1>5, <1>6 DEF Init, TypeOK

LEMMA HistoryType ==
    ASSUME TypeOK, AdminTypeOK, History
    PROVE  cleared' \in SUBSET Domain
  BY DEF TypeOK, AdminTypeOK, History, Removed

LEMMA StepType == TypeOK /\ [Next]_vars => TypeOK'
  <1> SUFFICES ASSUME TypeOK, [Next]_vars PROVE TypeOK'
    OBVIOUS
  <1>t. SharedTypeOK /\ ResolverTypeOK /\ RefreshTypeOK /\ ScannerTypeOK /\ AdminTypeOK /\ PublicTypeOK
    BY DEF TypeOK
  <1>1. CASE OfResolver(ResolverNext)
    BY <1>1, <1>t, ResolverKeepsType, HistoryType
    DEF OfResolver, scannerVars, TypeOK, RefreshTypeOK, ScannerTypeOK, AdminTypeOK, PublicTypeOK
  <1>2. CASE OfRefresh(RefreshNext) \/ OfRefresh(DnsRestart)
    BY <1>2, <1>t, RefreshKeepsType, HistoryType
    DEF OfRefresh, scannerVars, TypeOK, ScannerTypeOK, AdminTypeOK, PublicTypeOK
  <1>3. CASE OfScanner(ScannerNext)
    BY <1>3, <1>t, ScannerKeepsType, HistoryType
    DEF OfScanner, TypeOK, ResolverTypeOK, RefreshTypeOK, AdminTypeOK, PublicTypeOK
  <1>4. CASE OfAdmin(AdminNext)
    BY <1>4, <1>t, AdminKeepsType, HistoryType
    DEF OfAdmin, scannerVars, TypeOK, ResolverTypeOK, RefreshTypeOK, ScannerTypeOK, PublicTypeOK
  <1>5. CASE OfPublic(PublicNext)
    BY <1>5, <1>t, PublicKeepsType, HistoryType
    DEF OfPublic, scannerVars, TypeOK, ResolverTypeOK, RefreshTypeOK, ScannerTypeOK, AdminTypeOK
  <1>6. CASE OfRedis(RedisExpiry)
    BY <1>6, <1>t, RedisKeepsType, HistoryType
    DEF OfRedis, scannerVars, TypeOK, ResolverTypeOK, RefreshTypeOK, ScannerTypeOK, AdminTypeOK, PublicTypeOK
  <1>7. CASE UNCHANGED vars
    BY <1>7, <1>t, SharedSame
    DEF vars, scannerVars, pgVars, redisVars, memVars, TypeOK, ResolverTypeOK, RefreshTypeOK, ScannerTypeOK, AdminTypeOK, PublicTypeOK
  <1> QED BY <1>1, <1>2, <1>3, <1>4, <1>5, <1>6, <1>7 DEF Next

\* Every variable keeps its type: in particular a request that still has a
\* store call to make is about a name, and the parent walk never leaves the chain.
THEOREM TypeCorrect == Spec => []TypeOK
  BY InitType, StepType, PTL DEF Spec

-----------------------------------------------------------------------------
(* A removal from the blocklist is durable: nothing in progress - a         *)
(* request's background calls, a scan between its writes - can still put    *)
(* the name back.                                                          *)


\* No store blocks d, and no call that is still to come will.
Clean(d) ==
    /\ seed[d] = "none" /\ row[d] \notin BadRow
    /\ \A q \in Query : query[q].name = d => "promote" \notin query[q].todo
    /\ \A j \in Job : jobs[j].name = d =>
          /\ jobs[j].st # "promote"
          /\ jobs[j].st = "upsert" => jobs[j].verdict \notin BadRow

\* The detector in memory never matches more than the one with all brands.
DetectorBound == memAlike \subseteq LooksAlike

RemovalInv == DetectorBound /\ \A d \in cleared : Clean(d)

LEMMA UntouchedIsClean ==
    ASSUME TypeOK, NEW d \in Domain, Untouched(d)
    PROVE  Clean(d)
  BY DEF Untouched, Clean

\* A request moves on to a record that promotes nothing for d.
LEMMA GotoKeepsClean ==
    ASSUME TypeOK, NEW d \in Domain, Clean(d), NEW q \in Query, NEW rec, Goto(q, rec),
           rec.name = d => "promote" \notin rec.todo,
           seed' = seed, row' = row, jobs' = jobs
    PROVE  Clean(d)'
  <1>1. query \in [Query -> QueryType]
    BY DEF TypeOK, ResolverTypeOK
  <1> QED BY <1>1 DEF Clean, Goto

LEMMA ResolverKeepsClean ==
    ASSUME TypeOK, DetectorBound, NEW d \in Domain, Clean(d), ~Accused(d)',
           ResolverNext, jobs' = jobs
    PROVE  Clean(d)'
  <1>t. query \in [Query -> QueryType] /\ seed \in [Domain -> {"none"} \cup Category]
    BY DEF TypeOK, SharedTypeOK, ResolverTypeOK
  <1>i. "promote" \notin IdleQuery.todo
    BY DEF IdleQuery
  <1>c. ASSUME NEW e, NEW task \in {"rate", "mark", "push"} PROVE "promote" \notin Claiming(e, task).todo
    BY <1>c DEF Claiming, IdleQuery
  <1>a. ASSUME NEW q \in Query, NEW task \in query[q].todo
        PROVE  AfterTask(q, task).name = d => "promote" \notin AfterTask(q, task).todo
    <2>1. query[q] \in QueryRecord
      BY <1>t DEF QueryType
    <2>2. query[q].name = d => "promote" \notin query[q].todo
      BY DEF Clean
    <2> QED BY <2>1, <2>2, <1>i DEF AfterTask, QueryRecord
  <1>1. ASSUME NEW q \in Query, NEW e \in Asked, Arrive(q, e) PROVE Clean(d)'
    <2>1. "promote" \notin OnArrival(e).todo
      BY DEF OnArrival, Forwarding, Blocked, IdleQuery
    <2> QED BY <1>1, <2>1, GotoKeepsClean DEF Arrive, pgVars
  <1>2. ASSUME NEW q \in Query, Lookup(q) PROVE Clean(d)'
    <2> DEFINE e == query[q].name
               at == query[q].at
               v == cache[Chain[e][at]]
    <2>1. e \in Domain /\ at \in 1..Len(Chain[e]) /\ query[q].todo = {}
      BY <1>2, <1>t DEF Lookup, InState, QueryType
    <2>2. v \in Blocking => e # d
      BY <1>2, <2>1 DEF Lookup, Accused, Parents, redisVars
    <2>3. e \in memAlike => e # d
      BY <1>2 DEF Accused, DetectorBound
    <2>4. OnVerdict(e, v).name = e /\ (e = d => "promote" \notin OnVerdict(e, v).todo)
      BY <2>2, <2>3 DEF OnVerdict, Forwarding, Blocked, IdleQuery
    <2>5. "promote" \notin [query[q] EXCEPT !.at = at + 1].todo
      BY <1>t, <2>1 DEF QueryType, QueryRecord
    <2> QED BY <1>2, <2>4, <2>5, GotoKeepsClean DEF Lookup, pgVars
  <1>3. ASSUME NEW q \in Query, Answer(q) PROVE Clean(d)'
    BY <1>3, <1>i, <1>c, GotoKeepsClean DEF Answer, pgVars
  <1>4. ASSUME NEW q \in Query, RateLimit(q) PROVE Clean(d)'
    BY <1>4, <1>i, <1>c, GotoKeepsClean DEF RateLimit, pgVars
  <1>5. ASSUME NEW q \in Query, MarkPending(q) PROVE Clean(d)'
    BY <1>5, <1>i, <1>c, GotoKeepsClean DEF MarkPending, pgVars
  <1>6. ASSUME NEW q \in Query, EnqueueScan(q) PROVE Clean(d)'
    BY <1>6, <1>i, GotoKeepsClean DEF EnqueueScan, pgVars
  <1>7. ASSUME NEW q \in Query, LogBlock(q) \/ CacheTyposquat(q) PROVE Clean(d)'
    BY <1>7, <1>a, GotoKeepsClean DEF LogBlock, CacheTyposquat, Due, pgVars
  <1>8. ASSUME NEW q \in Query, Promote(q) PROVE Clean(d)'
    <2>1. PICK e \in Domain : e = query[q].name
      BY <1>8, <1>t, DueName DEF Promote
    <2>2. e # d
      BY <1>8, <2>1 DEF Promote, Due, Clean
    <2>3. seed'[d] = "none" /\ row' = row
      BY <1>8, <1>t, <2>1, <2>2 DEF Promote, WithSeedRow, Clean
    <2>4. \A r \in Query : query'[r].name = d => "promote" \notin query'[r].todo
      BY <1>8, <1>t, <1>a DEF Promote, Due, Goto, Clean
    <2> QED BY <2>3, <2>4 DEF Clean
  <1>9. ASSUME NEW q \in Query, ClientGivesUp(q) PROVE Clean(d)'
    BY <1>9, <1>i, GotoKeepsClean DEF ClientGivesUp, pgVars
  <1>10. ASSUME NEW q \in Query, LookupFails(q) PROVE Clean(d)'
    <2>1. "promote" \notin [IdleQuery EXCEPT !.st = "dropped", !.name = query[q].name].todo
      BY DEF IdleQuery
    <2> QED BY <1>10, <2>1, GotoKeepsClean DEF LookupFails, pgVars
  <1>11. ASSUME NEW q \in Query, TaskFails(q) PROVE Clean(d)'
    BY <1>11, <1>a, GotoKeepsClean DEF TaskFails, pgVars
  <1>12. ASSUME NEW q \in Query, MarkAnswerLost(q) PROVE Clean(d)'
    BY <1>12, <1>i, GotoKeepsClean DEF MarkAnswerLost, pgVars
  <1> QED
    BY <1>1, <1>2, <1>3, <1>4, <1>5, <1>6, <1>7, <1>8, <1>9, <1>10, <1>11, <1>12
    DEF ResolverNext, ResolverStep

LEMMA RefreshKeepsClean ==
    ASSUME TypeOK, NEW d \in Domain, Clean(d), RefreshNext \/ DnsRestart, jobs' = jobs
    PROVE  Clean(d)'
  <1>1. seed' = seed /\ row' = row
    BY DEF RefreshNext, RefreshStep, LoadBlocklist, ReplaceBlocklist, LoadWhitelist, LoadWhitelistFails,
           ReplaceWhitelist, LoadBrands, LoadBrandsFails, FinishRefresh, DnsRestart, pgVars
  <1>2. query' = query \/ query' = [q \in Query |-> IdleQuery]
    BY DEF RefreshNext, RefreshStep, LoadBlocklist, ReplaceBlocklist, LoadWhitelist, LoadWhitelistFails,
           ReplaceWhitelist, LoadBrands, LoadBrandsFails, FinishRefresh, DnsRestart, ResolverCrash
  <1> QED BY <1>1, <1>2 DEF Clean, IdleQuery

LEMMA ScannerKeepsClean ==
    ASSUME TypeOK, NEW d \in Domain, Clean(d), ~Accused(d)', ScannerNext, query' = query
    PROVE  Clean(d)'
  <1>t. /\ jobs \in [Job -> JobType]
        /\ cache \in [Domain -> CacheValue] /\ row \in [Domain -> RowValue]
        /\ seed \in [Domain -> {"none"} \cup Category]
    BY DEF TypeOK, SharedTypeOK, ScannerTypeOK
  \* A scan moves on, and writes neither table for d.
  <1>k. ASSUME NEW j \in Job, NEW rec, Become(j, rec),
               rec.name = d => rec.st # "promote" /\ (rec.st = "upsert" => rec.verdict \notin BadRow),
               seed'[d] = seed[d], row'[d] \notin BadRow
        PROVE  Clean(d)'
    BY <1>k, <1>t DEF Clean, Become
  <1>f. FreeJob.st = "free"
    BY DEF FreeJob
  <1>n. ASSUME NEW st \in {"waiting", "scanning"}, NEW queued, NEW e PROVE NewJob(st, queued, e).st = st
    BY <1>n DEF NewJob, FreeJob
  <1>r. row[d] \notin BadRow
    BY DEF Clean
  \* A scan of d that has a verdict has a good one, and is not confident of a scam.
  <1>s. ASSUME NEW j \in Job, jobs[j].st = "upsert", jobs[j].name = d
        PROVE  jobs[j].verdict \notin BadRow /\ ~jobs[j].sure
    BY <1>s, <1>t DEF Clean, BadRow, JobType
  <1>a. ASSUME NEW j \in Job, jobs[j].st = "upsert"
        PROVE  AfterUpsert(j).name = d => AfterUpsert(j).st = "free"
    <2>1. jobs[j] \in JobRecord
      BY <1>t DEF JobType
    <2>2. CASE jobs[j].sure
      <3>1. jobs[j].name # d
        BY <1>a, <1>s, <2>2
      <3> QED BY <2>1, <2>2, <3>1 DEF AfterUpsert, JobRecord
    <2>3. CASE ~jobs[j].sure
      BY <2>3, <1>f DEF AfterUpsert
    <2> QED BY <2>2, <2>3
  <1>1. ASSUME NEW j \in Job, Pop(j) PROVE Clean(d)'
    BY <1>1, <1>k, <1>n, <1>r DEF Pop, pgVars
  <1>2. ASSUME NEW j \in Job, NEW e \in Controlled, ControlScan(j, e) PROVE Clean(d)'
    BY <1>2, <1>k, <1>n, <1>r DEF ControlScan, pgVars
  <1>3. ASSUME NEW j \in Job, BeginScan(j) PROVE Clean(d)'
    <2>1. [jobs[j] EXCEPT !.st = "scanning"].st = "scanning"
      BY <1>t DEF JobType, JobRecord
    <2> QED BY <1>3, <1>k, <1>r, <2>1 DEF BeginScan, pgVars
  <1>4. ASSUME NEW j \in Job, ControlScanEmpty(j) PROVE Clean(d)'
    BY <1>4, <1>k, <1>f, <1>r DEF ControlScanEmpty, pgVars
  <1>5. ASSUME NEW j \in Job, SaveVerdict(j) PROVE Clean(d)'
    <2>1. PICK v \in {"safe", "suspicious", "scam"}, sure \in BOOLEAN :
            /\ cache' = [cache EXCEPT ![jobs[j].name] = v]
            /\ Become(j, [jobs[j] EXCEPT !.st = "upsert", !.verdict = v, !.sure = sure])
      BY <1>5 DEF SaveVerdict
    <2> DEFINE rec == [jobs[j] EXCEPT !.st = "upsert", !.verdict = v, !.sure = sure]
    <2>2. rec.name = jobs[j].name /\ rec.st = "upsert" /\ rec.verdict = v
      BY <1>t DEF JobType, JobRecord
    <2>3. jobs[j].name = d => v \notin BadRow
      <3>1. cache'[d] \notin Blocking
        BY ChainType DEF Accused
      <3> QED BY <2>1, <3>1, <1>t DEF Blocking, BadRow
    <2>4. rec.name = d => rec.st # "promote" /\ (rec.st = "upsert" => rec.verdict \notin BadRow)
      BY <2>2, <2>3
    <2>5. seed' = seed /\ row' = row
      BY <1>5 DEF SaveVerdict, pgVars
    <2> HIDE DEF rec
    <2>6. Become(j, rec)
      BY <2>1 DEF rec
    <2> QED BY <2>4, <2>5, <2>6, <1>k, <1>r
  <1>6. ASSUME NEW j \in Job, SaveError(j) PROVE Clean(d)'
    BY <1>6, <1>k, <1>f, <1>r DEF SaveError, pgVars
  <1>7. ASSUME NEW j \in Job, UpsertRow(j) PROVE Clean(d)'
    <2>1. row'[d] \notin BadRow
      BY <1>7, <1>s, <1>r, <1>t DEF UpsertRow
    <2> QED BY <1>7, <1>a, <1>k, <2>1 DEF UpsertRow
  <1>8. ASSUME NEW j \in Job, PromoteScam(j) PROVE Clean(d)'
    <2>1. jobs[j].name # d
      BY <1>8 DEF PromoteScam, Clean
    <2>2. seed'[d] = seed[d]
      BY <1>8, <1>t, <2>1 DEF PromoteScam, WithSeedRow
    <2> QED BY <1>8, <1>f, <1>k, <1>r, <2>2 DEF PromoteScam
  <1>9. ASSUME NEW j \in Job, SaveFails(j) \/ PromoteScamFails(j) PROVE Clean(d)'
    BY <1>9, <1>k, <1>f, <1>r DEF SaveFails, PromoteScamFails, pgVars
  <1>10. ASSUME NEW j \in Job, UpsertFails(j) PROVE Clean(d)'
    BY <1>10, <1>k, <1>a, <1>r DEF UpsertFails, pgVars
  <1>11. ASSUME ScannerRestart PROVE Clean(d)'
    BY <1>11 DEF ScannerRestart, Clean, FreeJob, pgVars
  <1>12. ASSUME PopFails \/ OperatorRestart PROVE Clean(d)'
    BY <1>12 DEF PopFails, OperatorRestart, Clean, pgVars
  <1> QED
    BY <1>1, <1>2, <1>3, <1>4, <1>5, <1>6, <1>7, <1>8, <1>9, <1>10, <1>11, <1>12 DEF ScannerNext, ScannerStep

LEMMA AdminKeepsClean ==
    ASSUME TypeOK, NEW d \in Domain, Clean(d), ~Accused(d)', AdminNext,
           query' = query, jobs' = jobs
    PROVE  Clean(d)'
  <1>t. /\ seed \in [Domain -> {"none"} \cup Category] /\ row \in [Domain -> RowValue]
        /\ report \in [Domain -> ReportStatus]
    BY DEF TypeOK, SharedTypeOK
  <1>k. ASSUME seed'[d] = "none", row'[d] \notin BadRow PROVE Clean(d)'
    BY <1>k DEF Clean
  <1>d. seed[d] = "none" /\ row[d] \notin BadRow
    BY DEF Clean
  <1>w. ASSUME NEW e, NEW category, e # d, seed' = WithSeedRow(e, category), row' = row
        PROVE  Clean(d)'
    BY <1>w, <1>t, <1>d, <1>k DEF WithSeedRow
  <1>n. ASSUME NEW e \in Domain
        PROVE  NoSeedRow(e)[d] = "none" /\ Demoted(e)[d] \notin BadRow
    BY <1>t, <1>d DEF NoSeedRow, Demoted, BadRow
  <1>1. ASSUME NEW e \in Managed, AddBlocklist(e) PROVE Clean(d)'
    <2>1. e # d
      BY <1>1 DEF AddBlocklist, Handle, Accused
    <2> QED BY <1>1, <2>1, <1>w DEF AddBlocklist
  <1>2. ASSUME NEW e \in Managed, RemoveBlocklist(e) PROVE Clean(d)'
    BY <1>2, <1>n, <1>d, <1>k, AdminAssumption DEF RemoveBlocklist
  <1>3. ASSUME NEW e \in Managed, AddWhitelist(e) PROVE Clean(d)'
    BY <1>3, <1>n, <1>k, AdminAssumption DEF AddWhitelist
  <1>4. ASSUME NEW e \in Managed, RemoveWhitelist(e) PROVE Clean(d)'
    BY <1>4, <1>d, <1>k DEF RemoveWhitelist
  <1>5. ASSUME NEW e \in Reported, SubmitReport(e) \/ RejectReport(e) PROVE Clean(d)'
    BY <1>5, <1>d, <1>k DEF SubmitReport, RejectReport
  <1>6. ASSUME NEW e \in Reported, ConfirmReport(e) PROVE Clean(d)'
    <2>1. e # d
      BY <1>6, <1>t DEF ConfirmReport, Accused
    <2> QED BY <1>6, <2>1, <1>w DEF ConfirmReport
  <1>7. ASSUME DemoteVerdict PROVE Clean(d)'
    <2>1. admin.name \in Domain
      BY <1>7 DEF DemoteVerdict, TypeOK, AdminTypeOK
    <2> QED BY <1>7, <2>1, <1>n, <1>d, <1>k DEF DemoteVerdict
  <1>8. ASSUME ClearVerdict \/ AdminFails PROVE Clean(d)'
    BY <1>8, <1>d, <1>k DEF ClearVerdict, AdminFails, pgVars
  <1> QED
    BY <1>1, <1>2, <1>3, <1>4, <1>5, <1>6, <1>7, <1>8 DEF AdminNext, AdminStep

LEMMA StepKeepsClean ==
    ASSUME TypeOK, DetectorBound, [Next]_vars, NEW d \in Domain, Clean(d), ~Accused(d)'
    PROVE  Clean(d)'
  <1>k. ASSUME UNCHANGED <<seed, row, query, jobs>> PROVE Clean(d)'
    BY <1>k DEF Clean
  <1>1. CASE OfResolver(ResolverNext)
    BY <1>1, ResolverKeepsClean DEF OfResolver, scannerVars
  <1>2. CASE OfRefresh(RefreshNext) \/ OfRefresh(DnsRestart)
    BY <1>2, RefreshKeepsClean DEF OfRefresh, scannerVars
  <1>3. CASE OfScanner(ScannerNext)
    BY <1>3, ScannerKeepsClean DEF OfScanner
  <1>4. CASE OfAdmin(AdminNext)
    BY <1>4, AdminKeepsClean DEF OfAdmin, scannerVars
  <1>5. CASE OfPublic(PublicNext)
    BY <1>5, <1>k
    DEF OfPublic, scannerVars, PublicNext, PublicStep, CheckBlocklist, CheckCache, CheckRow,
         CheckEnqueue, CheckFails, pgVars
  <1>6. CASE OfRedis(RedisExpiry)
    BY <1>6, <1>k DEF OfRedis, scannerVars, RedisExpiry, ExpireVerdict, ExpireRateLimit, pgVars
  <1>7. CASE UNCHANGED vars
    BY <1>7, <1>k DEF vars, scannerVars, pgVars
  <1> QED BY <1>1, <1>2, <1>3, <1>4, <1>5, <1>6, <1>7 DEF Next

LEMMA StepKeepsDetector ==
    ASSUME DetectorBound, [Next]_vars
    PROVE  DetectorBound'
  <1>1. memAlike' = memAlike \/ memAlike' = {} \/ memAlike' = LooksAlike
    <2>1. CASE OfResolver(ResolverNext)
      BY <2>1 DEF OfResolver, scannerVars, ResolverNext, ResolverStep, Arrive, Lookup, Answer, RateLimit, MarkPending,
         EnqueueScan, LogBlock, CacheTyposquat, Promote, ClientGivesUp, LookupFails, TaskFails,
         MarkAnswerLost, memVars
    <2>2. CASE OfRefresh(RefreshNext) \/ OfRefresh(DnsRestart)
      BY <2>2 DEF OfRefresh, scannerVars, RefreshNext, RefreshStep, LoadBlocklist, ReplaceBlocklist, LoadWhitelist,
         LoadWhitelistFails, ReplaceWhitelist, LoadBrands, LoadBrandsFails, FinishRefresh, DnsRestart,
         ResolverCrash, memVars
    <2>3. CASE OfScanner(ScannerNext)
      BY <2>3 DEF OfScanner, ScannerNext, ScannerStep, Pop, ControlScan, BeginScan, ControlScanEmpty,
         SaveVerdict, SaveError, UpsertRow, PromoteScam, SaveFails, UpsertFails, PromoteScamFails,
         PopFails, ScannerRestart, OperatorRestart, memVars
    <2>4. CASE OfAdmin(AdminNext)
      BY <2>4 DEF OfAdmin, scannerVars, AdminNext, AdminStep, AddBlocklist, RemoveBlocklist, AddWhitelist,
         RemoveWhitelist, SubmitReport, ConfirmReport, RejectReport, DemoteVerdict, ClearVerdict,
         AdminFails, memVars
    <2>5. CASE OfPublic(PublicNext)
      BY <2>5 DEF OfPublic, scannerVars, PublicNext, PublicStep, CheckBlocklist, CheckCache, CheckRow,
         CheckEnqueue, CheckFails, memVars
    <2>6. CASE OfRedis(RedisExpiry)
      BY <2>6 DEF OfRedis, scannerVars, RedisExpiry, ExpireVerdict, ExpireRateLimit, memVars
    <2>7. CASE UNCHANGED vars
      BY <2>7 DEF vars, scannerVars, memVars
    <2> QED BY <2>1, <2>2, <2>3, <2>4, <2>5, <2>6, <2>7 DEF Next
  <1> QED BY <1>1 DEF DetectorBound

\* A name joins "cleared" when nothing touches it, and stays while nobody accuses it.
LEMMA ClearedStep ==
    ASSUME TypeOK, [Next]_vars, NEW d \in cleared'
    PROVE  /\ d \in Domain
           /\ d \in cleared \/ Untouched(d)
           /\ UNCHANGED vars \/ ~Accused(d)'
  <1>1. CASE History
    BY <1>1 DEF History, Removed, TypeOK, AdminTypeOK
  <1>2. CASE UNCHANGED vars
    BY <1>2 DEF vars, scannerVars, TypeOK
  <1> QED BY <1>1, <1>2 DEF Next, OfResolver, OfRefresh, OfScanner, OfAdmin, OfPublic, OfRedis

LEMMA StepKeepsRemoval == TypeOK /\ RemovalInv /\ [Next]_vars => RemovalInv'
  <1> SUFFICES ASSUME TypeOK, RemovalInv, [Next]_vars PROVE RemovalInv'
    OBVIOUS
  <1>1. DetectorBound /\ DetectorBound'
    BY StepKeepsDetector DEF RemovalInv
  <1>2. ASSUME NEW d \in cleared' PROVE Clean(d)'
    <2>1. d \in Domain /\ Clean(d)
      BY <1>2, ClearedStep, UntouchedIsClean DEF RemovalInv
    <2>2. CASE UNCHANGED vars
      BY <2>1, <2>2 DEF vars, scannerVars, pgVars, Clean
    <2>3. CASE ~Accused(d)'
      BY <2>1, <2>3, <1>1, StepKeepsClean
    <2> QED BY <1>2, <2>2, <2>3, ClearedStep
  <1> QED BY <1>1, <1>2 DEF RemovalInv

\* A completed removal is undone only for a reason that came up after it: with
\* a stale blocklist in the memory of the DNS server, with any interleaving of
\* requests, scans and edits, with crashes and failed calls.
THEOREM RemovalDurable == Spec => []RemovalIsDurable
  <1>1. Init => RemovalInv
    BY DEF Init, SharedInit, RemovalInv, DetectorBound
  <1>2. RemovalInv => RemovalIsDurable
    BY DEF RemovalInv, RemovalIsDurable, Clean
  <1> QED BY InitType, StepType, <1>1, StepKeepsRemoval, <1>2, PTL DEF Spec
=============================================================================
