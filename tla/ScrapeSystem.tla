---------------------------- MODULE ScrapeSystem ----------------------------
(***************************************************************************)
(* The scraper with the scanner it asks, an administrator who edits the    *)
(* lists and visitors of /check meanwhile. A scan is started by a run of   *)
(* the scraper, by a name in the queue, or by an administrator or a block  *)
(* page (deep.py) through /scan. The DNS server takes no part: the scraper *)
(* meets the others in Postgres, in verdict:<name>, and in calls of /scan. *)
(***************************************************************************)
EXTENDS Scanner, AdminApi, PublicApi, Scraper

\* History, for OnlyRacesListTwice only: names that were whitelisted while a run
\* that had found them on no list was at work on them.
VARIABLE raced

\* A run waits for a scan of the scanner.
ASSUME ScrapeAssumption == Scan = Job

scrapeVars == <<pgVars, redisVars, memVars, faults, scannerVars, admin, check, scraperVars, raced>>

TypeOK ==
    /\ SharedTypeOK
    /\ ScannerTypeOK
    /\ AdminTypeOK
    /\ PublicTypeOK
    /\ ScraperTypeOK
    /\ raced \in SUBSET Domain

Init ==
    /\ SharedInit
    /\ ScannerInit
    /\ AdminInit
    /\ PublicInit
    /\ ScraperInit
    /\ raced = {}

-----------------------------------------------------------------------------
InFlight(d) == \E r \in Runner : run[r].name = d /\ run[r].st \in {"ask", "wait", "promote"}

\* Conjoined to every step.
Races ==
    raced' = {d \in Domain : d \in white' /\ (d \in raced \/ (d \notin white /\ InFlight(d)))}

\* A scan is over: the run that waits for it gets the report, and promotes a
\* confident scam. A scan that was cut off has none.
Report(complete) ==
    run' = [r \in Runner |->
        LET j == run[r].scan
        IN  IF j = NoScan THEN run[r]
            ELSE IF jobs[j].st = "free" \/ jobs'[j].st # "free" THEN run[r]
            ELSE IF complete /\ jobs[j].sure THEN [run[r] EXCEPT !.st = "promote", !.scan = NoScan]
            ELSE NextName(r)]

\* The call of /scan, from the request to the scan it starts.
AskScan(r, j) ==
    /\ run[r].st = "ask"
    /\ ControlScan(j, run[r].name)
    /\ Proceed(r, [run[r] EXCEPT !.st = "wait", !.scan = j])
    /\ UNCHANGED <<lock, lapses, turn, asked, openRuns>>

ScanGoesOn(j) ==
    /\ ScannerStep(j) \/ SaveFails(j) \/ UpsertFails(j) \/ PromoteScamFails(j)
    /\ Report(TRUE)
    /\ UNCHANGED <<lock, lapses, turn, asked, openRuns>>

ScannerDies ==
    /\ ScannerRestart
    /\ Report(FALSE)
    /\ UNCHANGED <<lock, lapses, turn, asked, openRuns>>

\* What the scanner does beside the scans that the scraper asked for: names from
\* the queue, and requests of others to /scan. Such a scan looks at no list.
ScannerAlone ==
    \/ \E j \in Job : Pop(j) \/ \E d \in Controlled : ControlScan(j, d)
    \/ PopFails
    \/ OperatorRestart

\* A step of one component leaves the others' own state alone.
OfScraper(A) == A /\ UNCHANGED <<white, row, report, redisVars, memVars, scannerVars, admin, check>> /\ Races
OfScan(A)    == A /\ UNCHANGED <<admin, check>> /\ Races
OfScanner(A) == A /\ UNCHANGED <<admin, check, scraperVars>> /\ Races
OfAdmin(A)   == A /\ UNCHANGED <<scannerVars, check, scraperVars>> /\ Races
OfPublic(A)  == A /\ UNCHANGED <<scannerVars, admin, scraperVars>> /\ Races
OfRedis(A)   == A /\ UNCHANGED <<scannerVars, admin, check, scraperVars>> /\ Races

Next ==
    \/ OfScraper(ScraperNext)
    \/ \E r \in Runner, j \in Job : OfScan(AskScan(r, j))
    \/ \E j \in Job : OfScan(ScanGoesOn(j))
    \/ OfScan(ScannerDies)
    \/ OfScanner(ScannerAlone)
    \/ OfAdmin(AdminNext)
    \/ OfPublic(PublicNext)
    \/ OfRedis(RedisExpiry)

Spec == Init /\ [][Next]_scrapeVars

-----------------------------------------------------------------------------
\* The processes go on with what they have started, the cron loop with its next
\* window, and a lock that nobody has taken expires. AskScan is strongly fair:
\* only the model's bound on scans can hold it up.
Fairness ==
    /\ WF_scrapeVars(OfScraper(CronTurn)) /\ WF_scrapeVars(OfScraper(CronWakes))
    /\ \A r \in Runner :
        /\ WF_scrapeVars(OfScraper(RunStep(r)))
        /\ SF_scrapeVars(\E j \in Job : OfScan(AskScan(r, j)))
    /\ \A j \in Job : WF_scrapeVars(OfScan(ScanGoesOn(j)))
    /\ WF_scrapeVars(OfScraper(LockExpires))
    /\ WF_scrapeVars(OfAdmin(AdminStep))

FairSpec == Spec /\ Fairness

-----------------------------------------------------------------------------
Lease == INSTANCE LeaseLock WITH Task <- Runner, holders <- Running, locked <- (lock # "free")

\* control.py run_handler, main.py run: whatever fails, runs over the lock in the
\* ways of LeaseLock only; each TTL that ends under a run lets in one more run.
ImplementsLease == Lease!Spec

\* control.py:4, "concurrency is limited to one scrape at a time", and what is left
\* of it when TTLs end too early: each lets in one more run, and no delete does. A
\* run that deletes its successor's lock makes room only for the place it leaves.
RunsWithinLapses == Cardinality(Running) <= lapses + 1

\* The rows that administrators and runs of the scraper add. The seed list, the
\* confirmation of a report and the promotion of a scan do not look at the whitelist
\* at all: see PromotionHeedsWhitelist.
Added == {"manual", "scraped"}

\* worker.py _already_known, admin.py add_whitelist: such a row and a row of the
\* whitelist are there for one name only if it was whitelisted while a run that had
\* found it on no list was still at work on it.
OnlyRacesListTwice ==
    \A d \in Domain : seed[d] \in Added /\ d \in white => d \in raced

\* worker.py finally: a run that is at work closes its scrape_runs row, whatever
\* sites, stores and scanner answer. A row stays open, and the admin page shows a run
\* that goes on for ever, only if the process ends or the closing itself fails.
RunsClose ==
    \A r \in Runner : <<r, "running">> \in openRuns ~> <<r, "running">> \notin openRuns

\* main.py: the cron loop scrapes again and again, although a lock was left behind
\* by a process that died or by a delete that failed.
CronGoesOn == []<>(run[Cron].st # "off")

-----------------------------------------------------------------------------
(* What the repository says of the program and the program does not do.    *)

\* store.py:73, "Whitelist always wins": no name that is on the whitelist gets the
\* row of a confident scam.
PromotionHeedsWhitelist ==
    [][\A d \in white : seed[d] = "none" => seed'[d] # "ai-confirmed"]_scrapeVars

=============================================================================
