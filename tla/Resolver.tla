------------------------------ MODULE Resolver ------------------------------
(***************************************************************************)
(* dns_server/resolver.py: one slot of Query is one request, from its      *)
(* arrival to the end of the background tasks it starts. A step ends where *)
(* the coroutine awaits: each Redis read of the parent chain, the upstream *)
(* answer, and each store call of a background task is a step of its own.  *)
(* Requests that do not parse and names without a dot change no state and  *)
(* are left out.                                                           *)
(***************************************************************************)
EXTENDS SharedState

CONSTANTS
    Query,      \* requests that can be in progress at one time
    Asked,      \* the names DNS clients ask for
    QType       \* the query types they use: "address" stands for A, AAAA, HTTPS

ASSUME ResolverAssumption == Asked \subseteq Domain /\ QType \subseteq {"address", "other"}

VARIABLES
    query,      \* the state of each request
    serving     \* the listeners are open (after the first load of the lists)

Task == {"log", "cache", "promote", "rate", "mark", "push"}

(* st: "lookup" reads verdict:<Chain[name][at]> next; "forward" awaits the  *)
(* upstream answer; "blocked" was answered with the sinkhole; "claim" was   *)
(* answered and runs _enqueue_if_new; "dropped" gets no answer.             *)
(* seen: the cached verdict the decision was made on.                       *)
(* todo: the background calls that have not run yet.                        *)
QueryRecord ==
    [st   : {"idle", "lookup", "forward", "blocked", "claim", "dropped"},
     name : Domain \cup {NoDomain},
     at   : Nat,
     seen : CacheValue,
     todo : SUBSET Task]

IdleQuery == [st |-> "idle", name |-> NoDomain, at |-> 0, seen |-> "none", todo |-> {}]

\* What the fields hold in each state of a request.
QueryType ==
    {rec \in QueryRecord :
       /\ rec.st # "idle" => rec.name \in Domain
       /\ rec.st = "lookup" => rec.at \in 1..Len(Chain[rec.name])
       /\ rec.st = "claim" => rec.todo \in {{"rate"}, {"mark"}, {"push"}}
       /\ rec.st = "blocked" => rec.todo \subseteq {"log", "cache", "promote"}
       /\ rec.st \notin {"claim", "blocked"} => rec.todo = {}}

ResolverTypeOK ==
    /\ query \in [Query -> QueryType]
    /\ serving \in BOOLEAN

ResolverInit ==
    /\ query = [q \in Query |-> IdleQuery]
    /\ serving = FALSE

-----------------------------------------------------------------------------
InState(q, st) == query[q].st = st

\* The request moves on; fields that no longer matter are reset.
Forwarding(d, seen) == [IdleQuery EXCEPT !.st = "forward", !.name = d, !.seen = seen]
Blocked(d, seen, todo) ==
    [IdleQuery EXCEPT !.st = "blocked", !.name = d, !.seen = seen, !.todo = todo]
Claiming(d, task) == [IdleQuery EXCEPT !.st = "claim", !.name = d, !.todo = {task}]

\* A background call is done; the slot is free after the last one.
AfterTask(q, task) ==
    IF query[q].todo = {task} THEN IdleQuery
    ELSE [query[q] EXCEPT !.todo = @ \ {task}]

Goto(q, rec) == query' = [query EXCEPT ![q] = rec]

\* resolve(), up to the first await: whitelist before blocklist, both from
\* memory. A block that comes from the lists promotes nothing.
Trusted(d) == d \in Bypass \/ MatchChain(d, memWhite)
Listed(d)  == MatchChain(d, memBlock)

\* MUTANT of OnArrival: a block from the lists is promoted like any other.
OnArrivalPromotesLists(d) ==
    IF Trusted(d) THEN Forwarding(d, "safe")
    ELSE IF Listed(d) THEN Blocked(d, "scam", {"log", "promote"})
    ELSE [IdleQuery EXCEPT !.st = "lookup", !.name = d, !.at = 1]

OnArrival(d) ==
    IF Trusted(d) THEN Forwarding(d, "safe")
    ELSE IF Listed(d) THEN Blocked(d, "none", {"log"})
    ELSE [IdleQuery EXCEPT !.st = "lookup", !.name = d, !.at = 1]

Arrive(q, d) ==
    /\ serving
    /\ InState(q, "idle")
    /\ Goto(q, OnArrival(d))
    /\ UNCHANGED <<pgVars, redisVars, memVars, faults, serving>>

\* MUTANT of OnVerdict: only typosquat hits are promoted, as in _block_with_brand.
OnVerdictNotPromoted(d, v) ==
    CASE v \in Blocking -> Blocked(d, v, {"log"})
      [] v = "safe"     -> Forwarding(d, "safe")
      [] v \in {"none", "pending"} /\ d \in memAlike ->
            Blocked(d, "typosquat", {"log", "cache", "promote"})
      [] OTHER -> Forwarding(d, v)

\* What resolve() does once the lookup has found v on the chain, or nothing.
OnVerdict(d, v) ==
    CASE v \in Blocking -> Blocked(d, v, {"log", "promote"})
      [] v = "safe"     -> Forwarding(d, "safe")
      [] v \in {"none", "pending"} /\ d \in memAlike ->
            Blocked(d, "typosquat", {"log", "cache", "promote"})
      [] OTHER -> Forwarding(d, v)

\* MUTANT of MoreParents: the walk goes on past the last parent.
MoreParentsOffByOne(d, at) == at <= Len(Chain[d])

MoreParents(d, at) == at < Len(Chain[d])

\* _cache_lookup: one get per name of the chain, the first entry found wins.
Lookup(q) ==
    /\ InState(q, "lookup")
    /\ LET d  == query[q].name
           at == query[q].at
           v  == cache[Chain[d][at]]
       IN  Goto(q, IF v = "none" /\ MoreParents(d, at)
                   THEN [query[q] EXCEPT !.at = at + 1]
                   ELSE OnVerdict(d, v))
    /\ UNCHANGED <<pgVars, redisVars, memVars, faults, serving>>

\* The upstream answer (or its SERVFAIL) goes out. A name with no cached entry
\* is then claimed for a scan, if the query was for an address.
ToClaim(q, type) == query[q].seen = "none" /\ type = "address"

Answer(q) ==
    /\ InState(q, "forward")
    /\ \E type \in QType :
         Goto(q, IF ToClaim(q, type) THEN Claiming(query[q].name, "rate") ELSE IdleQuery)
    /\ UNCHANGED <<pgVars, redisVars, memVars, faults, serving>>

-----------------------------------------------------------------------------
(* Background tasks of a request.                                          *)

Due(q, task) == task \in query[q].todo

\* rate_limit_ok: SET rl:<name> NX EX 60
RateLimit(q) ==
    /\ Due(q, "rate")
    /\ LET d == query[q].name
       IN  \/ /\ d \in limited
              /\ Goto(q, IdleQuery)
              /\ UNCHANGED limited
           \/ /\ d \notin limited
              /\ Goto(q, Claiming(d, "mark"))
              /\ limited' = limited \cup {d}
    /\ UNCHANGED <<pgVars, cache, queue, memVars, faults, serving>>

\* MUTANT of CanMark: SET without NX.
CanMarkAlways(d) == d \in Domain

\* SET ... NX: only a name without an entry can be claimed.
CanMark(d) == cache[d] = "none"

\* mark_pending
MarkPending(q) ==
    /\ Due(q, "mark")
    /\ LET d == query[q].name
       IN  \/ /\ CanMark(d)
              /\ cache' = [cache EXCEPT ![d] = "pending"]
              /\ Goto(q, Claiming(d, "push"))
           \/ /\ ~CanMark(d)
              /\ Goto(q, IdleQuery)
              /\ UNCHANGED cache
    /\ UNCHANGED <<pgVars, limited, queue, memVars, faults, serving>>

\* enqueue_scan
EnqueueScan(q) ==
    /\ Due(q, "push")
    /\ Enqueue(query[q].name)
    /\ Goto(q, IdleQuery)
    /\ UNCHANGED <<pgVars, cache, limited, memVars, faults, serving>>

\* _resolve_then_log: the block log and the block event (see BlockEvents).
LogBlock(q) ==
    /\ Due(q, "log")
    /\ Goto(q, AfterTask(q, "log"))
    /\ UNCHANGED <<pgVars, redisVars, memVars, faults, serving>>

\* The verdict of a typosquat hit is cached for scam_ttl.
CacheTyposquat(q) ==
    /\ Due(q, "cache")
    /\ cache' = [cache EXCEPT ![query[q].name] = "typosquat"]
    /\ Goto(q, AfterTask(q, "cache"))
    /\ UNCHANGED <<pgVars, limited, queue, memVars, faults, serving>>

\* _category_for
CategoryFor(v) ==
    CASE v = "unverified" -> "ai-scan-error"
      [] v = "typosquat"  -> "typosquat"
      [] OTHER            -> "ai-confirmed"

\* promote_to_blocklist
Promote(q) ==
    /\ Due(q, "promote")
    /\ seed' = WithSeedRow(query[q].name, CategoryFor(query[q].seen))
    /\ Goto(q, AfterTask(q, "promote"))
    /\ UNCHANGED <<white, row, report, redisVars, memVars, faults, serving>>

-----------------------------------------------------------------------------
(* Failures.                                                               *)

\* A Redis error in _cache_lookup leaves resolve() as an exception: the UDP
\* handler logs it and sends no reply, the client waits for its own timeout.
LookupFails(q) ==
    /\ InState(q, "lookup")
    /\ Fault
    /\ Goto(q, [IdleQuery EXCEPT !.st = "dropped", !.name = query[q].name])
    /\ UNCHANGED <<pgVars, redisVars, memVars, serving>>

ClientGivesUp(q) ==
    /\ InState(q, "dropped")
    /\ Goto(q, IdleQuery)
    /\ UNCHANGED <<pgVars, redisVars, memVars, faults, serving>>

\* A store error in a background task ends that task, and only that task.
TaskFails(q) ==
    \E task \in query[q].todo :
        /\ Fault
        /\ Goto(q, AfterTask(q, task))
        /\ UNCHANGED <<pgVars, redisVars, memVars, serving>>

\* Redis set the marker, but its answer did not come back: the task ends.
MarkAnswerLost(q) ==
    /\ Due(q, "mark")
    /\ CanMark(query[q].name)
    /\ Fault
    /\ cache' = [cache EXCEPT ![query[q].name] = "pending"]
    /\ Goto(q, IdleQuery)
    /\ UNCHANGED <<pgVars, limited, queue, memVars, serving>>

\* The DNS process dies: requests, tasks and lists are gone.
ResolverCrash ==
    /\ query' = [q \in Query |-> IdleQuery]
    /\ serving' = FALSE
    /\ memBlock' = {}
    /\ memWhite' = {}
    /\ memAlike' = {}

ResolverStep(q) ==
    \/ Lookup(q) \/ Answer(q)
    \/ RateLimit(q) \/ MarkPending(q) \/ EnqueueScan(q)
    \/ LogBlock(q) \/ CacheTyposquat(q) \/ Promote(q)
    \/ ClientGivesUp(q)

ResolverNext ==
    \E q \in Query :
        \/ \E d \in Asked : Arrive(q, d)
        \/ ResolverStep(q)
        \/ LookupFails(q) \/ TaskFails(q) \/ MarkAnswerLost(q)
=============================================================================
