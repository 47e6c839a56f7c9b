------------------------------ MODULE ScamLens ------------------------------
(***************************************************************************)
(* The DNS server, the scanner, the admin API and the public API over the  *)
(* stores they share. Every step is a step of one of them, or a Redis key  *)
(* reaching the end of its TTL.                                            *)
(***************************************************************************)
EXTENDS ListRefresh, Scanner, AdminApi, PublicApi

\* History, for RemovalIsDurable only: names whose removal from the blocklist
\* was complete, and that nothing has given a new reason to block since.
VARIABLE cleared

vars == <<pgVars, redisVars, memVars, faults, query, serving, refresh, scannerVars, admin, check, cleared>>

TypeOK ==
    /\ SharedTypeOK
    /\ ResolverTypeOK
    /\ RefreshTypeOK
    /\ ScannerTypeOK
    /\ AdminTypeOK
    /\ PublicTypeOK
    /\ cleared \in SUBSET Domain

Init ==
    /\ SharedInit
    /\ ResolverInit
    /\ RefreshInit
    /\ ScannerInit
    /\ AdminInit
    /\ PublicInit
    /\ cleared = {}

-----------------------------------------------------------------------------
\* Nothing in progress is about d, and no store holds a reason to block it.
Untouched(d) ==
    /\ \A q \in Query : query[q].name # d
    /\ \A j \in Job : jobs[j].name # d
    /\ seed[d] = "none"
    /\ row[d] \notin BadRow

\* A verdict, a report or an administrator says that d is to be blocked.
Accused(d) ==
    \/ \E p \in Parents(d) : cache[p] \in Blocking
    \/ report[d] = "confirmed"
    \/ d \in LooksAlike
    \/ admin.op = "add_blocklist" /\ admin.name = d

Removed ==
    IF /\ admin.st = "clear"
       /\ admin' = IdleAdmin
       /\ admin.op \in {"remove_blocklist", "add_whitelist"}
       /\ Untouched(admin.name)
    THEN {admin.name} ELSE {}

\* Conjoined to every step.
History == cleared' = {d \in cleared \cup Removed : ~Accused(d)'}

-----------------------------------------------------------------------------
\* A step of one component leaves the others' own state alone.
OfResolver(A) == A /\ UNCHANGED <<refresh, scannerVars, admin, check>> /\ History
OfRefresh(A)  == A /\ UNCHANGED <<scannerVars, admin, check>> /\ History
OfScanner(A)  == A /\ UNCHANGED <<query, serving, refresh, admin, check>> /\ History
OfAdmin(A)    == A /\ UNCHANGED <<query, serving, refresh, scannerVars, check>> /\ History
OfPublic(A)   == A /\ UNCHANGED <<query, serving, refresh, scannerVars, admin>> /\ History

OfRedis(A)    == A /\ UNCHANGED <<query, serving, refresh, scannerVars, admin, check>> /\ History

Next ==
    \/ OfResolver(ResolverNext)
    \/ OfRefresh(RefreshNext)
    \/ OfRefresh(DnsRestart)
    \/ OfScanner(ScannerNext)
    \/ OfAdmin(AdminNext)
    \/ OfPublic(PublicNext)
    \/ OfRedis(RedisExpiry)

Spec == Init /\ [][Next]_vars

-----------------------------------------------------------------------------
(* Scan markers.                                                           *)

\* A DNS request set the marker of d and is about to push d.
ClaimHolds(d) == \E q \in Query : query[q].name = d /\ "push" \in query[q].todo

\* The worker popped d and has not written its verdict yet.
JobHolds(d) == \E j \in Job : jobs[j].name = d /\ jobs[j].queued /\ jobs[j].st \in {"waiting", "scanning"}

InQueue(d) == \E i \in 1..Len(queue) : queue[i] = d

\* Somebody will turn the marker of d into a verdict.
Owned(d) == ClaimHolds(d) \/ JobHolds(d) \/ InQueue(d)

\* resolver.py _enqueue_if_new, worker.py _run_one: without a crash or a failed
\* store call, every pending marker has a scan on its way that will replace it.
\* An orphaned marker keeps its name from being scanned until the TTL is over.
NoOrphanMarker ==
    faults = 0 => \A d \in Domain : cache[d] = "pending" => Owned(d)

\* cache.py mark_pending (SET NX): a marker never takes the place of a verdict,
\* not even of one that was saved after the request looked the name up.
MarkerNeverHidesVerdict ==
    [][\A d \in Domain : cache[d] \notin {"none", "pending"} => cache'[d] # "pending"]_vars

\* The marker of a name without the kind of verdict, and the names with a scan
\* on its way.
Marker == [d \in Domain |-> IF cache[d] \in {"none", "pending"} THEN cache[d] ELSE "verdict"]
Open   == {d \in Domain : Owned(d)}

Tickets == INSTANCE ScanTickets WITH marker <- Marker, open <- Open

\* The pipeline keeps the promise of ScanTickets, with crashes as well: only the
\* step that loses a scan leaves a marker behind.
ImplementsTickets == Tickets!Spec

-----------------------------------------------------------------------------
(* The blocklist.                                                          *)

\* admin.py remove_blocklist, resolver.py _block: once a removal is complete, a
\* name comes back only for a new reason. In particular the list that the DNS
\* server still has in memory does not put the name back on the blocklist.
RemovalIsDurable == \A d \in cleared : seed[d] = "none" /\ row[d] \notin BadRow

-----------------------------------------------------------------------------
(* Liveness. Every process goes on with what it has started; nobody has to *)
(* ask, to edit a list or to fail, and no Redis key has to expire. A push  *)
(* is strongly fair: only the model's bound on the queue can hold it up.   *)

Fairness ==
    /\ \A q \in Query : /\ WF_vars(OfResolver(ResolverStep(q)))
                         /\ SF_vars(OfResolver(EnqueueScan(q)))
    /\ WF_vars(OfRefresh(RefreshStep))
    /\ \A j \in Job : WF_vars(OfScanner(Pop(j) \/ ScannerStep(j)))
    /\ WF_vars(OfAdmin(AdminStep))
    /\ \A c \in Client : /\ WF_vars(OfPublic(PublicStep(c)))
                          /\ SF_vars(OfPublic(CheckEnqueue(c)))

FairSpec == Spec /\ Fairness

HasVerdict(d) == cache[d] \notin {"none", "pending"}

\* worker.py run: a scan that is on its way ends with a verdict, unless a fault
\* loses it, as long as the worker's loop runs.
ScanCompletes ==
    \A d \in Domain : Owned(d) ~> (HasVerdict(d) \/ ~Owned(d) \/ ~popping)

\* main.py _refresh_lists_loop: what Postgres says to block reaches the memory
\* of the DNS server, unless it is withdrawn first.
BlockReachesMemory ==
    \A d \in Domain : (d \in BlocklistUnion) ~> (d \in memBlock \/ d \notin BlocklistUnion)

\* The same for the whitelist: UPGRADE.md promises five minutes.
WhitelistReachesMemory ==
    \A d \in Domain : (d \in white) ~> (d \in memWhite \/ d \notin white)

\* resolver.py:165: a block on a verdict ends up in the admin Blocklist tab, if
\* the insert does not fail. (Checked where nobody removes rows.)
BlocksBecomeVisible ==
    \A q \in Query, d \in Domain :
        (query[q].name = d /\ query[q].st = "blocked" /\ query[q].seen \in Blocking)
            ~> (seed[d] # "none" \/ faults > 0)

-----------------------------------------------------------------------------
(* What the repository says of the program and the program does not do.    *)

\* admin.py:220 lists the four ways a row gets on the blocklist, and store.py:92
\* calls the scanner's error marker short-lived: no row comes from it.
SeedRowsAreEarned == \A d \in Domain : seed[d] # "ai-scan-error"

\* store.py:73, admin.py:315: the whitelist always wins. No request for a name
\* that has been on the whitelist since the start is blocked.
WhitelistAlwaysWins ==
    \A q \in Query : query[q].st = "blocked"
        => Parents(query[q].name) \cap InitWhite \cap white = {}

\* check.py:1: a scan that was asked for can be polled "until verdict lands". A
\* name that waits in the queue must not wait for ever.
VerdictLands == \A d \in Domain : Owned(d) ~> (HasVerdict(d) \/ ~Owned(d))
=============================================================================
