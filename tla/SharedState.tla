---------------------------- MODULE SharedState ----------------------------
(***************************************************************************)
(* The state that the processes of ScamLens share: the Postgres tables,    *)
(* the Redis keys, and the lists that the DNS server keeps in memory.      *)
(* The component modules (Resolver, ListRefresh, Scanner, AdminApi,        *)
(* PublicApi) extend this one; ScamLens composes them.                     *)
(***************************************************************************)
EXTENDS Naturals, Sequences, FiniteSets

CONSTANTS
    Domain,        \* the names the model distinguishes
    NoDomain,      \* "no name", in the record of an idle slot
    Chain,         \* Chain[d]: d, its parent, its grandparent, ... without the TLD
    LooksAlike,    \* names the typosquat detector matches once it has the brands
    Bypass,        \* names under BYPASS_SUFFIXES
    InitSeed,      \* rows of blocklist_seed at the start (seed_blocklist)
    InitWhite,     \* rows of whitelist at the start (import_tranco)
    MaxQueue,      \* bound on the length of scamlens:scan_queue
    MaxFaults      \* bound on the crashes and failed store calls of a behaviour

ASSUME DomainAssumption ==
    /\ NoDomain \notin Domain
    /\ Chain \in [Domain -> Seq(Domain)]
    /\ \A d \in Domain : Len(Chain[d]) > 0 /\ Chain[d][1] = d
    /\ LooksAlike \subseteq Domain
    /\ Bypass \subseteq Domain
    /\ InitSeed \subseteq Domain
    /\ InitWhite \subseteq Domain

ASSUME BoundAssumption == MaxQueue \in Nat /\ MaxFaults \in Nat

VARIABLES
    \* Postgres
    seed,       \* blocklist_seed: the category of a name's row, or "none"
    white,      \* whitelist: the names that have a row
    row,        \* domain_verdicts: the verdict of a name's row, or "none"
    report,     \* user_reports: the status of a name's report, or "none"
    \* Redis
    cache,      \* verdict:<name>, or "none" when the key does not exist
    limited,    \* the names whose rl:<name> key exists
    queue,      \* scamlens:scan_queue, oldest entry first
    \* memory of the DNS process
    memBlock, memWhite, memAlike,
    \* the crashes and failed calls so far
    faults

pgVars    == <<seed, white, row, report>>
redisVars == <<cache, limited, queue>>
memVars   == <<memBlock, memWhite, memAlike>>

-----------------------------------------------------------------------------
\* The categories of blocklist_seed rows that the code writes.
Category == {"seeded", "manual", "user-report", "typosquat", "ai-confirmed", "ai-scan-error",
             "scraped"}

\* What verdict:<name> can hold. The value stands for verdict and source:
\* "unverified" is the scanner's error marker (suspicious, scan_error) and
\* "typosquat" the resolver's own verdict (scam, typosquat).
Blocking   == {"suspicious", "scam", "unverified", "typosquat"}
CacheValue == {"none", "pending", "safe"} \cup Blocking

BadRow   == {"suspicious", "scam"}
RowValue == {"none", "safe"} \cup BadRow

ReportStatus == {"none", "pending", "confirmed", "rejected"}

SharedTypeOK ==
    /\ seed \in [Domain -> {"none"} \cup Category]
    /\ white \in SUBSET Domain
    /\ row \in [Domain -> RowValue]
    /\ report \in [Domain -> ReportStatus]
    /\ cache \in [Domain -> CacheValue]
    /\ limited \in SUBSET Domain
    /\ queue \in Seq(Domain)
    /\ memBlock \in SUBSET Domain
    /\ memWhite \in SUBSET Domain
    /\ memAlike \in SUBSET Domain
    /\ faults \in 0..MaxFaults

SharedInit ==
    /\ seed = [d \in Domain |-> IF d \in InitSeed THEN "seeded" ELSE "none"]
    /\ white = InitWhite
    /\ row = [d \in Domain |-> "none"]
    /\ report = [d \in Domain |-> "none"]
    /\ cache = [d \in Domain |-> "none"]
    /\ limited = {}
    /\ queue = <<>>
    /\ memBlock = {}
    /\ memWhite = {}
    /\ memAlike = {}
    /\ faults = 0

-----------------------------------------------------------------------------
\* The names whose entries decide about d: d and its parents.
Parents(d) == {Chain[d][i] : i \in 1..Len(Chain[d])}

MatchChain(d, S) == Parents(d) \cap S # {}

\* INSERT INTO blocklist_seed ... ON CONFLICT (domain) DO NOTHING
WithSeedRow(d, category) == [seed EXCEPT ![d] = IF @ = "none" THEN category ELSE @]

\* lpush on the scan queue; the bound is the model's, Redis has none.
Enqueue(d) ==
    /\ Len(queue) < MaxQueue
    /\ queue' = Append(queue, d)

\* A crash, or a call to Redis or Postgres that raises.
Fault ==
    /\ faults < MaxFaults
    /\ faults' = faults + 1

-----------------------------------------------------------------------------
(* Redis drops a key when its TTL is over. The model knows no clock: a key *)
(* may expire at any time after it was set.                                *)

ExpireVerdict(d) ==
    /\ cache[d] # "none"
    /\ cache' = [cache EXCEPT ![d] = "none"]
    /\ UNCHANGED <<pgVars, limited, queue, memVars, faults>>

ExpireRateLimit(d) ==
    /\ d \in limited
    /\ limited' = limited \ {d}
    /\ UNCHANGED <<pgVars, cache, queue, memVars, faults>>

RedisExpiry == \E d \in Domain : ExpireVerdict(d) \/ ExpireRateLimit(d)
=============================================================================
