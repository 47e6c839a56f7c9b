------------------------------ MODULE Scraper ------------------------------
(***************************************************************************)
(* social_scraper: the cron loop (main.py), the manual runs behind /run    *)
(* (control.py) and what a run does with the names it finds (worker.py).   *)
(* Both kinds of run take one Redis lock with a TTL. A run is a task of    *)
(* its own; a step ends where the task awaits.                             *)
(***************************************************************************)
EXTENDS SharedState

CONSTANTS
    Cron,         \* the run of the cron loop
    Manual,       \* requests to /run
    Scan,         \* the scans that /scan can work on at one time
    NoScan,       \* "no scan", in the record of a run that waits for none
    Found,        \* the names that occur in posts and feeds
    CronSources,  \* what the cron loop runs, in this order
    MaxLapses     \* bound on the TTLs that end during a run

Runner == {Cron} \cup Manual

\* "feed" is urlhaus (names that are already classified), "search" stands for
\* reddit and threads (posts, found by keyword, that have to be scanned).
Source == {"feed", "search"}

ASSUME ScraperAssumption ==
    /\ Cron \notin Manual
    /\ NoScan \notin Scan
    /\ Found \subseteq Domain
    /\ CronSources \in Seq(Source)
    /\ MaxLapses \in Nat

VARIABLES
    lock,      \* scrape_lock:threads: "free", or the kind of run that set it
    lapses,    \* history: TTLs that ended during a run
    turn,      \* position of the cron loop; past the last source it sleeps
    asked,     \* the manual requests that were answered
    run,       \* the state of each run
    openRuns   \* the scrape_runs rows that have no finished_at

scraperVars == <<lock, lapses, turn, asked, run, openRuns>>

\* st: "start" has the lock and inserts its scrape_runs row next; "loop" takes
\* the next name; "lists" found nothing in Redis and asks Postgres next; "ask"
\* calls /scan and "wait" waits for it; "promote" inserts the name; "finish"
\* closes the row; "release" deletes the lock.
\* todo: the names that the run will still meet before its sources end, its
\* deadline comes, or a keyword is given up. row: it has a scrape_runs row to close.
RunRecord ==
    [st      : {"off", "start", "loop", "lists", "ask", "wait", "promote", "finish", "release"},
     source  : Source,
     todo    : SUBSET Found,
     name    : Found \cup {NoDomain},
     scan    : Scan \cup {NoScan},
     row     : BOOLEAN]

\* A row is open while its run is at work, or was left open: nobody closes it any more.
RunRow == Runner \X {"running", "left"}

OffRun == [st |-> "off", source |-> "feed", todo |-> {}, name |-> NoDomain, scan |-> NoScan,
           row |-> FALSE]

RunType ==
    {rec \in RunRecord :
       /\ rec.st \in {"lists", "ask", "wait", "promote"} => rec.name \in Found
       /\ rec.st = "wait" <=> rec.scan \in Scan
       /\ rec.st \in {"ask", "wait"} => rec.source = "search"}

ScraperTypeOK ==
    /\ lock \in {"free", "manual", "cron"}
    /\ lapses \in 0..MaxLapses
    /\ turn \in 1..(Len(CronSources) + 1)
    /\ asked \in SUBSET Manual
    /\ run \in [Runner -> RunType]
    /\ openRuns \in SUBSET RunRow

ScraperInit ==
    /\ lock = "free"
    /\ lapses = 0
    /\ turn = 1
    /\ asked = {}
    /\ run = [r \in Runner |-> OffRun]
    /\ openRuns = {}

-----------------------------------------------------------------------------
Running == {r \in Runner : run[r].st # "off"}

Kind(r) == IF r = Cron THEN "cron" ELSE "manual"

Proceed(r, rec) == run' = [run EXCEPT ![r] = rec]
Advance(r, st)    == Proceed(r, [run[r] EXCEPT !.st = st])

\* The name is dealt with.
NextName(r) == [run[r] EXCEPT !.st = "loop", !.name = NoDomain, !.scan = NoScan]

\* MUTANT of CanClaim: SET without NX.
CanClaimAlways(r) == run[r].st = "off"

\* SET scrape_lock:threads <kind> NX EX 5400
CanClaim(r) == lock = "free"

Claim(r, source) ==
    /\ lock' = Kind(r)
    /\ \E names \in SUBSET Found :
         Proceed(r, [OffRun EXCEPT !.st = "start", !.source = source, !.todo = names])

\* The cron loop takes the lock for its next source, or skips the source.
CronTurn ==
    /\ run[Cron].st = "off"
    /\ turn <= Len(CronSources)
    /\ turn' = turn + 1
    /\ \/ CanClaim(Cron) /\ Claim(Cron, CronSources[turn])
       \/ ~CanClaim(Cron) /\ UNCHANGED <<lock, run>>
    /\ UNCHANGED <<lapses, asked, openRuns, seed, faults>>

\* The pause between two windows is over.
CronWakes ==
    /\ run[Cron].st = "off"
    /\ turn > Len(CronSources)
    /\ turn' = 1
    /\ UNCHANGED <<lock, lapses, asked, run, openRuns, seed, faults>>

\* POST /run: started, or 409.
ManualRun(r) ==
    /\ r \in Manual \ asked
    /\ asked' = asked \cup {r}
    /\ \/ CanClaim(r) /\ \E source \in Source : Claim(r, source)
       \/ ~CanClaim(r) /\ UNCHANGED <<lock, run>>
    /\ UNCHANGED <<lapses, turn, openRuns, seed, faults>>

-----------------------------------------------------------------------------
(* A run.                                                                  *)

\* _start_run
StartRun(r) ==
    /\ run[r].st = "start"
    /\ Proceed(r, [run[r] EXCEPT !.st = "loop", !.row = TRUE])
    /\ openRuns' = openRuns \cup {<<r, "running">>}
    /\ UNCHANGED <<lock, lapses, turn, asked, seed, faults>>

\* _already_known, first half: any entry in Redis, a pending marker too.
LookCache(r) ==
    /\ run[r].st = "loop"
    /\ \E d \in run[r].todo :
         LET rest == [run[r] EXCEPT !.todo = @ \ {d}]
         IN  Proceed(r, IF cache[d] # "none" THEN rest ELSE [rest EXCEPT !.st = "lists", !.name = d])
    /\ UNCHANGED <<lock, lapses, turn, asked, openRuns, seed, faults>>

\* MUTANT of OnList: the half of the query that reads the whitelist is gone.
OnSeedOnly(d) == seed[d] # "none"

\* The name itself, not its parents.
OnList(d) == seed[d] # "none" \/ d \in white

\* MUTANT of LookLists: the names of a feed are scanned as well.
LookListsScansAll(r) ==
    /\ run[r].st = "lists"
    /\ Proceed(r, IF OnList(run[r].name) THEN NextName(r) ELSE [run[r] EXCEPT !.st = "ask"])
    /\ UNCHANGED <<lock, lapses, turn, asked, openRuns, seed, faults>>

\* _already_known, second half. A feed has classified its names.
LookLists(r) ==
    /\ run[r].st = "lists"
    /\ Proceed(r, IF OnList(run[r].name) THEN NextName(r)
                 ELSE [run[r] EXCEPT !.st = IF run[r].source = "feed" THEN "promote" ELSE "ask"])
    /\ UNCHANGED <<lock, lapses, turn, asked, openRuns, seed, faults>>

\* _classify gives up after 90 seconds; the scan goes on.
ScanTimesOut(r) ==
    /\ run[r].st = "wait"
    /\ Proceed(r, NextName(r))
    /\ UNCHANGED <<lock, lapses, turn, asked, openRuns, seed, faults>>

\* _promote_to_blocklist
PromoteFound(r) ==
    /\ run[r].st = "promote"
    /\ seed' = WithSeedRow(run[r].name, "scraped")
    /\ Proceed(r, NextName(r))
    /\ UNCHANGED <<lock, lapses, turn, asked, openRuns, faults>>

\* finally: a run without a row has nothing to close.
EndLoop(r) ==
    /\ run[r].st = "loop" /\ run[r].todo = {}
    /\ Advance(r, IF run[r].row THEN "finish" ELSE "release")
    /\ UNCHANGED <<lock, lapses, turn, asked, openRuns, seed, faults>>

\* _finish_run
FinishRun(r) ==
    /\ run[r].st = "finish"
    /\ Advance(r, "release")
    /\ openRuns' = openRuns \ {<<r, "running">>}
    /\ UNCHANGED <<lock, lapses, turn, asked, seed, faults>>

\* The delete does not look whose lock it is.
ReleaseLock(r) ==
    /\ run[r].st = "release"
    /\ lock' = "free"
    /\ Proceed(r, OffRun)
    /\ UNCHANGED <<lapses, turn, asked, openRuns, seed, faults>>

-----------------------------------------------------------------------------
(* Failures.                                                               *)

\* MUTANT of AfterError: an error leaves the run by its shortest way, past the
\* statement that closes its row.
AfterErrorUnclosed(r) == [NextName(r) EXCEPT !.todo = {}, !.st = "release"]

\* An error on the way ends a feed, and the keyword in a search.
AfterError(r) ==
    IF run[r].source = "feed" THEN [NextName(r) EXCEPT !.todo = {}] ELSE NextName(r)

\* The site does not answer, or not as expected.
SourceFails(r) ==
    /\ run[r].st = "loop" /\ run[r].todo # {}
    /\ \E names \in SUBSET run[r].todo :
         /\ names # run[r].todo
         /\ Proceed(r, [AfterError(r) EXCEPT !.todo = @ \cap names])
    /\ UNCHANGED <<lock, lapses, turn, asked, openRuns, seed, faults>>

\* An error of Redis or Postgres in _already_known.
LookupFails(r) ==
    /\ run[r].st \in {"loop", "lists"}
    /\ run[r].st = "loop" => run[r].todo # {}
    /\ Fault
    /\ Proceed(r, AfterError(r))
    /\ UNCHANGED <<lock, lapses, turn, asked, openRuns, seed>>

\* Errors that are caught on the spot: of the call of /scan (or any answer of it
\* but 200) and of _promote_to_blocklist.
CallFails(r) ==
    /\ run[r].st \in {"ask", "promote"}
    /\ Fault
    /\ Proceed(r, NextName(r))
    /\ UNCHANGED <<lock, lapses, turn, asked, openRuns, seed>>

\* The same of _start_run and _finish_run. Postgres may have inserted or closed the
\* row all the same, or a row is left that nobody closes.
RowCallFails(r) ==
    /\ run[r].st \in {"start", "finish"}
    /\ Fault
    /\ Advance(r, IF run[r].st = "start" THEN "loop" ELSE "release")
    /\ \E left \in SUBSET {<<r, "left">>} : openRuns' = (openRuns \ {<<r, "running">>}) \cup left
    /\ UNCHANGED <<lock, lapses, turn, asked, seed>>

\* The process ends and is started again, with a cron window at once. Nobody
\* closes its rows. A lock it had set stays, unless one of the runs that are
\* cancelled gets to its delete.
ScraperStartsAgain(cancelled, set) ==
    /\ run' = [r \in Runner |-> OffRun]
    /\ turn' = 1
    /\ openRuns' = {<<open[1], "left">> : open \in openRuns}
    /\ \/ lock' = set
       \/ cancelled # {} /\ lock' = "free"
    /\ UNCHANGED <<lapses, asked, seed>>

ScraperDies == Fault /\ ScraperStartsAgain(Running, lock)

\* The delete raises. A manual run is a task that nobody looks after; for the
\* cron loop it is the end, and of the process as well.
ReleaseFails(r) ==
    /\ run[r].st = "release"
    /\ Fault
    /\ IF r = Cron THEN ScraperStartsAgain(Running \ {Cron}, lock)
       ELSE Proceed(r, OffRun) /\ UNCHANGED <<lock, lapses, turn, asked, openRuns, seed>>

\* Redis sets the lock and the answer is lost: a 500, or the end of the loop.
ClaimLost(r) ==
    /\ run[r].st = "off"
    /\ CanClaim(r)
    /\ Fault
    /\ \/ /\ r = Cron /\ turn <= Len(CronSources)
          /\ ScraperStartsAgain(Running, "cron")
       \/ /\ r \in Manual \ asked
          /\ asked' = asked \cup {r}
          /\ lock' = "manual"
          /\ UNCHANGED <<lapses, turn, run, openRuns, seed>>

\* MUTANT of LockExpires: the lock is set without a TTL.
LockExpiresNever == lock = "free" /\ lock' = "free" /\ UNCHANGED <<lapses, turn, asked, run, openRuns, seed, faults>>

\* The TTL of 90 minutes is over. A run may well take longer: its deadline is
\* whatever /run was asked for, and is looked at between two posts only.
LockExpires ==
    /\ lock # "free"
    /\ lock' = "free"
    /\ \/ Running = {} /\ UNCHANGED lapses
       \/ Running # {} /\ lapses < MaxLapses /\ lapses' = lapses + 1
    /\ UNCHANGED <<turn, asked, run, openRuns, seed, faults>>

RunStep(r) ==
    \/ StartRun(r) \/ LookCache(r) \/ LookLists(r) \/ PromoteFound(r)
    \/ EndLoop(r) \/ FinishRun(r) \/ ReleaseLock(r)

RunFails(r) ==
    \/ SourceFails(r) \/ LookupFails(r) \/ CallFails(r) \/ RowCallFails(r)
    \/ ReleaseFails(r) \/ ClaimLost(r)

ScraperNext ==
    \/ CronTurn \/ CronWakes
    \/ \E r \in Runner :
        \/ ManualRun(r) \/ RunStep(r) \/ ScanTimesOut(r)
        \/ RunFails(r)
    \/ ScraperDies
    \/ LockExpires
=============================================================================
