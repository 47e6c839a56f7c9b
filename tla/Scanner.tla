------------------------------ MODULE Scanner ------------------------------
(***************************************************************************)
(* ai_scanner: the worker that pops scamlens:scan_queue (worker.py), the   *)
(* /scan endpoint behind deep, admin and scraper scans (control.py), and   *)
(* the store both write to (store.py). What a page, its age and the model  *)
(* say is an input here: any verdict may come out of a scan.               *)
(***************************************************************************)
EXTENDS SharedState

CONSTANTS
    Job,           \* scans that can be in progress (tasks in asyncio) at one time
    Concurrency,   \* permits of the worker's semaphore
    Controlled     \* the names that /scan is asked for

ASSUME ScannerAssumption == Concurrency \in Nat \ {0} /\ Controlled \subseteq Domain

VARIABLES
    jobs,       \* the state of each scan
    popping     \* the loop of run() has not ended

scannerVars == <<jobs, popping>>

\* st: "waiting" was popped and waits for the semaphore; "scanning" has saved
\* nothing; "upsert" has written Redis; "promote" has written domain_verdicts.
\* sure: a scam verdict with confidence >= 70.
JobRecord ==
    [st      : {"free", "waiting", "scanning", "upsert", "promote"},
     queued  : BOOLEAN,
     name    : Domain \cup {NoDomain},
     verdict : {"none", "safe", "suspicious", "scam"},
     sure    : BOOLEAN]

FreeJob == [st |-> "free", queued |-> FALSE, name |-> NoDomain, verdict |-> "none", sure |-> FALSE]

JobType ==
    {rec \in JobRecord :
       /\ rec.st # "free" => rec.name \in Domain
       /\ rec.st \in {"upsert", "promote"} => rec.verdict # "none"
       /\ rec.sure => rec.verdict = "scam"}

ScannerTypeOK ==
    /\ jobs \in [Job -> JobType]
    /\ popping \in BOOLEAN

ScannerInit ==
    /\ jobs = [j \in Job |-> FreeJob]
    /\ popping = TRUE

-----------------------------------------------------------------------------
Become(j, rec) == jobs' = [jobs EXCEPT ![j] = rec]
NewJob(st, queued, d) == [FreeJob EXCEPT !.st = st, !.queued = queued, !.name = d]

\* MUTANT of Pop: a name that already has an entry in Redis is skipped as known.
PopSkipsKnown(j) ==
    /\ popping
    /\ jobs[j].st = "free"
    /\ queue # <<>>
    /\ Become(j, IF cache[Head(queue)] = "none" THEN NewJob("waiting", TRUE, Head(queue)) ELSE FreeJob)
    /\ queue' = Tail(queue)
    /\ UNCHANGED <<pgVars, cache, limited, memVars, faults, popping>>

\* run() pops as long as there are entries: a popped name waits in a task
\* of its own, in memory, until the semaphore lets it go on.
Pop(j) ==
    /\ popping
    /\ jobs[j].st = "free"
    /\ queue # <<>>
    /\ Become(j, NewJob("waiting", TRUE, Head(queue)))
    /\ queue' = Tail(queue)
    /\ UNCHANGED <<pgVars, cache, limited, memVars, faults, popping>>

HoldsPermit(j) == jobs[j].queued /\ jobs[j].st \in {"scanning", "upsert", "promote"}

BeginScan(j) ==
    /\ jobs[j].st = "waiting"
    /\ Cardinality({k \in Job : HoldsPermit(k)}) < Concurrency
    /\ Become(j, [jobs[j] EXCEPT !.st = "scanning"])
    /\ UNCHANGED <<pgVars, redisVars, memVars, faults, popping>>

\* POST /scan runs at once: no queue, no semaphore.
ControlScan(j, d) ==
    /\ jobs[j].st = "free"
    /\ Become(j, NewJob("scanning", FALSE, d))
    /\ UNCHANGED <<pgVars, redisVars, memVars, faults, popping>>

\* /scan reports a page it could not fetch (or an error) and saves nothing.
ControlScanEmpty(j) ==
    /\ jobs[j].st = "scanning" /\ ~jobs[j].queued
    /\ Become(j, FreeJob)
    /\ UNCHANGED <<pgVars, redisVars, memVars, faults, popping>>

\* VerdictStore.save, first step: the verdict replaces whatever the key held.
SaveVerdict(j) ==
    /\ jobs[j].st = "scanning"
    /\ \E v \in {"safe", "suspicious", "scam"}, sure \in BOOLEAN :
         /\ sure => v = "scam"
         /\ cache' = [cache EXCEPT ![jobs[j].name] = v]
         /\ Become(j, [jobs[j] EXCEPT !.st = "upsert", !.verdict = v, !.sure = sure])
    /\ UNCHANGED <<pgVars, limited, queue, memVars, faults, popping>>

\* MUTANT of SaveError: a page that cannot be fetched is only logged.
SaveErrorForgotten(j) ==
    /\ jobs[j].st = "scanning"
    /\ Become(j, FreeJob)
    /\ UNCHANGED <<pgVars, redisVars, memVars, faults, popping>>

\* MUTANT of SaveError: a page that cannot be fetched is tried again.
SaveErrorRetries(j) ==
    /\ jobs[j].st = "scanning"
    /\ Become(j, [jobs[j] EXCEPT !.st = "waiting"])
    /\ UNCHANGED <<pgVars, redisVars, memVars, faults, popping>>

\* save_error: page not fetched, page empty, or an exception on the way.
SaveError(j) ==
    /\ jobs[j].st = "scanning"
    /\ cache' = [cache EXCEPT ![jobs[j].name] = "unverified"]
    /\ Become(j, FreeJob)
    /\ UNCHANGED <<pgVars, limited, queue, memVars, faults, popping>>

\* Only a confident scam goes on to blocklist_seed.
AfterUpsert(j) ==
    IF jobs[j].sure
    THEN [jobs[j] EXCEPT !.st = "promote"]
    ELSE FreeJob

\* save, second step: INSERT INTO domain_verdicts ... ON CONFLICT DO UPDATE
UpsertRow(j) ==
    /\ jobs[j].st = "upsert"
    /\ row' = [row EXCEPT ![jobs[j].name] = jobs[j].verdict]
    /\ Become(j, AfterUpsert(j))
    /\ UNCHANGED <<seed, white, report, redisVars, memVars, faults, popping>>

\* save, third step.
PromoteScam(j) ==
    /\ jobs[j].st = "promote"
    /\ seed' = WithSeedRow(jobs[j].name, "ai-confirmed")
    /\ Become(j, FreeJob)
    /\ UNCHANGED <<white, row, report, redisVars, memVars, faults, popping>>

-----------------------------------------------------------------------------
\* Redis fails in save and again in save_error: the task ends, nothing saved.
SaveFails(j) ==
    /\ jobs[j].st = "scanning"
    /\ Fault
    /\ Become(j, FreeJob)
    /\ UNCHANGED <<pgVars, redisVars, memVars, popping>>

\* brpop raises, perhaps after Redis removed the entry: run() ends. Nobody waits
\* for its task, the process and its /scan endpoint stay up.
PopFails ==
    /\ popping
    /\ Fault
    /\ popping' = FALSE
    /\ \/ UNCHANGED queue
       \/ queue # <<>> /\ queue' = Tail(queue)
    /\ UNCHANGED <<pgVars, cache, limited, memVars, jobs>>

\* Errors of the two Postgres statements are logged and skipped.
UpsertFails(j) ==
    /\ jobs[j].st = "upsert"
    /\ Fault
    /\ Become(j, AfterUpsert(j))
    /\ UNCHANGED <<pgVars, redisVars, memVars, popping>>

PromoteScamFails(j) ==
    /\ jobs[j].st = "promote"
    /\ Fault
    /\ Become(j, FreeJob)
    /\ UNCHANGED <<pgVars, redisVars, memVars, popping>>

\* The scanner is killed: popped names are in no queue any more.
ScannerRestart ==
    /\ Fault
    /\ jobs' = [j \in Job |-> FreeJob]
    /\ popping' = TRUE
    /\ UNCHANGED <<pgVars, redisVars, memVars>>

\* An operator restarts a scanner that has stopped working. Nobody has to.
OperatorRestart ==
    /\ ~popping
    /\ \A j \in Job : jobs[j].st = "free"
    /\ popping' = TRUE
    /\ UNCHANGED <<pgVars, redisVars, memVars, faults, jobs>>

ScannerStep(j) ==
    \/ BeginScan(j) \/ SaveVerdict(j) \/ SaveError(j) \/ ControlScanEmpty(j)
    \/ UpsertRow(j) \/ PromoteScam(j)

ScannerNext ==
    \/ \E j \in Job :
        \/ Pop(j)
        \/ \E d \in Controlled : ControlScan(j, d)
        \/ ScannerStep(j)
        \/ SaveFails(j) \/ UpsertFails(j) \/ PromoteScamFails(j)
    \/ PopFails \/ ScannerRestart \/ OperatorRestart
=============================================================================
