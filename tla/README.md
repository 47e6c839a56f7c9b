# ScamLens in TLA+

ScamLens is a DNS service that answers scam domains with a sinkhole. A DNS
server decides from lists in memory and verdicts in Redis, a scanner produces
the verdicts, an API lets administrators edit the lists and people report
names, and Postgres keeps everything. This directory holds TLA+ modules of that
system, TLC configurations that check them on small instances, and theorems
that TLAPS proves for all instances.

Paths below are relative to the root of the repository.

## 1. Inventory

| Component | State | Operations | Talks to |
|---|---|---|---|
| DNS resolver (`dns_server/resolver.py`, `cache.py`, `db.py`) | requests in progress, their background tasks; blocklist, whitelist and typosquat detector in memory | `resolve`, `_block`, `_enqueue_if_new`, `promote_to_blocklist`, `log_block` | Redis (verdicts, rate limit, queue, pubsub), Postgres, upstream DNS |
| List refresh (`dns_server/main.py`) | the loop's position; the rows it has read | initial load, `_refresh_lists_loop` every 300 s | Postgres, the resolver's lists |
| Scan worker and `/scan` (`ai_scanner/worker.py`, `control.py`) | popped names, semaphore, scans in progress | `run`, `_run_one`, `scan` | Redis queue, browser, language model, RDAP |
| Verdict store (`ai_scanner/store.py`) | `verdict:<name>`, `domain_verdicts`, `blocklist_seed` | `save` (three writes), `save_error` | Redis, Postgres |
| Admin handlers (`api/routers/admin.py`) | none of their own between requests | blocklist, whitelist, report, brand, scan and scrape endpoints | Postgres, Redis, scanner, scraper |
| Public API (`api/routers/check.py`, `report.py`) | none | `check`, `report` | Postgres, Redis queue |
| Deep scan (`api/routers/deep.py`) | `deep:<name>`, `deep_lock:<name>` | `deep_get`, `deep_post`, `_run_deep_scan` | Redis, `/scan` |
| Social scraper (`social_scraper/`) | `scrape_lock:threads`, `scrape_runs`, cursor of a run | cron loop, `/run`, `_handle_post`, promotion | Redis, Postgres, `/scan` |
| Block events (`api/events.py`, `push.py`) | listener queues of 64 events, push subscriptions | publish, `fanout`, SSE stream, web push | Redis pubsub, Postgres |
| Guardian links (`api/routers/me.py`) | `guardian_links` rows | invite, accept, reject, revoke | Postgres |
| Accounts (`api/auth.py`, `api/routers/auth.py`) | `users` rows | register, login | Postgres |
| Typosquat detector (`dns_server/typosquat.py`) | brand labels | `check` | - |
| Verdict rules (`ai_scanner/heuristics.py`, `ai.py`, `rdap.py`) | RDAP cache | floors, age rule, parsing of the model's answer | Redis |
| Upstream and listeners (`dns_server/upstream.py`, `servers.py`) | - | UDP, TCP, DoH handlers, fallback query | upstream DNS |
| Frontend, scripts, deployment | - | render, seed, start | - |

What makes the system hard is that nothing coordinates the components. The
resolver reads a verdict, waits for another server, and acts on what it read;
the scanner writes three stores one after the other; an administrator's edit is
a transaction and a separate Redis delete; the DNS server works with lists that
are minutes old; background tasks are started and forgotten; every process may
be killed and restarted by docker compose; every Redis key may expire between
two steps. `PROJECT.json` lists each such hazard at its line, with the property
that is about it.

What each component must guarantee:

* **Scan pipeline** (resolver, queue, worker, store): a name that is marked
  pending has a scan on its way; the mark ends as a verdict; a mark never
  replaces a verdict; only a fault loses a scan.
* **List control** (admin, refresh, resolver, scanner): a removal is not undone
  by state that was read before it; an edit reaches the memory of the DNS
  server; a block becomes visible to the administrator.
* **Locks** (deep scan, scraper): one holder at a time, unless a TTL ends under
  a holder; then one holder more per TTL. No lock outlives its TTL.
* **Scrape runs**: a row that is opened is closed; what the scraper and the
  administrator add ends on both lists only in a race.
* **Deep scan**: a page that waits has something to wait for.
* **Block events**: streams keep the latest events in their order; dead push
  subscriptions are deleted.
* **Guardian links**: nobody learns of a blocked name without a link that was
  accepted at some moment since.
* **Accounts**: one owner per address and per invite code.
* **Typosquat, verdict rules**: the algorithms agree with their definitions at
  every bound; more evidence never makes a milder verdict.
* **Upstream**: SERVFAIL only when both servers have failed; every request ends.

## 2. Plan

The core is the scan pipeline and the list control, because all services meet
there. It is built; the rest follows in this order.

| Step | Module | Content | State |
|---|---|---|---|
| 1 | `SharedState`, `Resolver`, `ListRefresh`, `Scanner`, `AdminApi`, `PublicApi`, `ScamLens` | the core and its composition | done |
| 2 | `ScanTickets` | abstract specification of the scan pipeline, refined by `ScamLens` | done |
| 3 | `ComponentProofs`, `ScamLensProofs`, `ScanProofs` | types, removals, markers, refinement | done |
| 4 | `LeaseLock`, `Scraper`, `ScrapeSystem`, `DeepScan` | a lock with a TTL that is deleted unconditionally, refined by both of its uses; runs of the scraper next to scans and edits | done |
| 5 | `Watch` | consent of the ward, the way of a block event, bounded queues, push | done |
| 6 | `Typosquat`, `VerdictRules` | functions against definitions of what they are for | done |
| 7 | `Registration`, `Upstream`, `Services` | unique columns, fallback and timeouts; the composition | done |
| 8 | `ScrapeProofs`, `WatchProofs`, `TyposquatProofs`, `DistanceProofs`, `ServiceProofs` | proofs of steps 4 to 7 | done |
| 9 | - | the brand table inside `ScamLens` instead of a constant; more than one ward in `Watch` | open |

## 3. Modules and how they correspond to the code

`SharedState` declares what several processes touch: the tables `seed`
(`blocklist_seed`, with the category of a row), `white`, `row`
(`domain_verdicts`), `report`; the Redis keys `cache` (`verdict:<name>`),
`limited` (`rl:<name>`), `queue`; and the memory of the DNS process. A name is a
model value; `Chain[d]` is what `_parent_chain` yields for it. `cache` holds one
value for verdict and source together: `unverified` is the scanner's error marker
(suspicious, `scan_error`) and `typosquat` the resolver's own verdict.

`Resolver` has one slot per request in progress. A step ends where the coroutine
awaits: `Lookup` is one Redis read of the parent walk, `Answer` the end of the
upstream query, `RateLimit`, `MarkPending`, `EnqueueScan` the three calls of
`_enqueue_if_new`, and `LogBlock`, `CacheTyposquat`, `Promote` the background
tasks of a block, which may run in any order. `seen` remembers the verdict on
which the request decided, `todo` the calls still to make. Failures are actions:
`LookupFails`, `TaskFails`, `MarkAnswerLost`, and `DnsRestart` in `ListRefresh`.

`ListRefresh` has one step per await of the loop: the rows a query returned are
kept in `refresh.got` until they replace the list. The errors that
`load_whitelist` and `load_brand_domains` swallow are actions of their own; a
failing `load_blocklist` ends the round and changes nothing. The listeners open
after the first load.

`Scanner` has one slot per scan: popped and waiting for the semaphore, scanning,
or between the three writes of `VerdictStore.save`. A `/scan` request starts
without queue and semaphore. The verdict is an input: any of safe, suspicious,
scam, and for scam whether the confidence is at least 70. `domain_verdicts` and
`blocklist_seed` errors are logged and skipped, as in the code. `popping` says
whether the loop of `Worker.run` is alive: an error of `brpop` ends it
(`PopFails`) while scans in progress and `/scan` go on, and only a restart of
the container, by a crash or by an operator, starts it again.

`AdminApi` runs one edit at a time. The transaction of a handler is one step and
the Redis delete another; `remove_blocklist` is three steps, because its two
statements commit one by one. `PublicApi` has one slot per `/check` request and
one step per source it reads.

`ScamLens` composes them: a step of one component leaves the private state of
the others unchanged. It adds one history variable, `cleared`, for
`RemovalIsDurable`: a name enters it when the last step of a removal finds no
request, no scan and no store that still has the name, and leaves it when
somebody gives a new reason to block (a blocking verdict on the name or a
parent, a confirmed report, an administrator, the typosquat detector). The
variable is read by no action.

`ScanTickets` is the abstract specification. It knows a marker per name and the
set of names with an open scan, and nothing about queues, tasks and processes.
`ScamLens` implements it under the mapping at `Tickets`: the marker is
`verdict:<name>` without the kind of verdict, and a name is open when a request
is about to push it, the queue holds it, or a scan of it has not written yet.

`LeaseLock` says what `SET key NX EX ttl` is worth when every holder deletes the
key without looking whose it is: a set of holders, whether the key exists, and
how often the TTL ended while somebody was at work. It claims no mutual
exclusion; it says in which ways a second holder gets in. Both locks refine it.

`Scraper` is the cron loop, the manual runs and what a run does with a name,
from `_already_known` over `/scan` to the insert. The kinds of source differ in
two things that matter: a feed promotes without a scan and ends at its first
error, a search scans and loses only the keyword. `openRuns` tells the row of a run
at work from a row that was left open, which no later run closes: by a process that
ended, or by a failed insert or update of the row itself (`RowCallFails`).
`ScrapeSystem` puts it beside `Scanner`, `AdminApi` and `PublicApi`: `AskScan` is the
call of `/scan` with the scan it starts, and the step that ends a scan hands its
report to the run that waits. `ScannerAlone` is what the scanner does for others: names
that `/check` has queued, and the requests to `/scan` of an administrator or a deep
scan. None of these looks at a list first, and neither does the store's promotion.
`raced` is history for `OnlyRacesListTwice`.

`DeepScan` has both ends of a deep scan: the handlers with their background task,
and the page that shows a button, posts, and polls every four seconds. One name
is enough, since two names share no key. A result outlives 75 polls and more; that it
goes under a page whose timers the browser holds back is one of the counted faults.

`Watch` follows a block event from the DNS server through pubsub, the
subscriber of the API and the queues of the SSE streams to Web Push, while the
guardian links, the streams and the push subscriptions change. `channel` is what
Redis has sent and the subscriber has not yet handled. `PushTo` contains the
pruning of dead subscriptions as the code computes it: the status is read
through the truth value of a `requests.Response`, which is false from 400 on
(`IsTrue`), so that no row is ever found dead. `watched` and `fanned` are
history.

`Registration` runs requests for accounts side by side: the look-up, then the
insert with up to five invite codes, against the unique columns of the table.

`Typosquat` translates `_normalize`, `_levenshtein` with its early exit,
`_contains_at_boundary` and `check` over labels that are sequences of letters,
and lets the brands change and be reloaded between calls. Below the line stands
what the detector is for, without its algorithms: one or two edits, a brand as a
word, the ways to write a letter. There a brand is read in two ways, as a name is: as
it is spelled and as it looks (`Readings`); the code reads a brand as it is spelled
only. The module has the letters because two of its properties are about them.
`MCTyposquat` is the detector with the one brand `microsoft`.

`VerdictRules` follows one scan from the age rule through the empty-page test,
the model's reply, the floors and the rule for young names to what is saved, in
the worker and in `/scan`, which asks for the age only when all is saved. A page
is the set of signs in it and the numbers that the rules compare.

`Upstream` has a slot per request, from the listener that takes it to its reply;
requests on a TCP connection stand in line. A request may also be answered by the
resolver itself (`AnswersItself`), or end without an answer when it is no DNS message.

`Services` puts the last six together. They share no state with each other, so a
behaviour of one needs no steps of another: `focus` chooses which one moves, and
the others stay in an initial state. Every behaviour of every service, with its
fairness, is a behaviour of `Services`, and a property of one service is checked
on them all.

## 4. Runs

The first three runs and `error_marker_promoted`, `whitelist_lost` and `worker_ends`
are of `MCScamLens`; `scrape_lock`, `scrape_lists` and `scan_ignores_whitelist` of
`MCScrapeSystem`; `services` and `dead_rows_stay` of `MCServices`; `homoglyph_missed` of
`MCTyposquat`.

| Run | Question | Instance |
|---|---|---|
| `scan_pipeline` | Do marks and scans stay matched, and does the pipeline implement `ScanTickets`? | one name, one request, one `/check`, two scans, one permit, queue of two, one fault |
| `list_control` | Is a completed removal durable, and do edits reach the memory of the DNS server? | edits of a subdomain whose parent looks like a brand, requests for both, reloads, one fault |
| `scan_liveness` | Do marks end as verdicts, and do blocks become visible? | one name, one request, two scans that compete for one permit, queue of two, one fault |
| `scrape_lock` | Do runs keep to the lock, close their rows, and does the cron loop go on? | one name, the cron loop, one manual run, one TTL that ends early, one fault |
| `scrape_lists` | When is a name on both lists? | one name that is on both lists at the start, a feed and a search, edits, reports, one scan slot for the scraper, the queue and other callers of `/scan`, one `/check`, no fault |
| `services` | Do the services beside the pipeline keep their promises? | see the bounds below |
| `error_marker_promoted` | Is the error marker short-lived? No. | one request, one scan |
| `dead_rows_stay` | Are dead push subscriptions deleted? No. | one subscription, one event, no fault |
| `whitelist_lost` | Is a name that is on the whitelist never blocked? No. | a whitelisted lookalike, one request, one fault |
| `worker_ends` | Does every name in the queue get its verdict? No. | one `/check`, one scan slot, one fault, fair processes |
| `scan_ignores_whitelist` | Does the whitelist win over the store's promotion? No. | a whitelisted name, one scan, no edit, no fault |
| `homoglyph_missed` | Is `micros0ft-security.com` a hit? No. | one brand, two names |

The last six are expected to fail: each checks one sentence of a comment or a
document that the code does not keep. `PROJECT.json`, "findings", quotes it.

What the passing runs show:

* `NoOrphanMarker`: while nothing fails, a pending mark is always owned by a
  request about to push, an entry of the queue or a scan. With a fault it can be
  orphaned; `ImplementsTickets` says that only the faulty step can do it.
* `MarkerNeverHidesVerdict`: `SET NX` protects a verdict that was saved after
  the request had looked the name up.
* `RemovalIsDurable`: the lists in memory are stale for up to one interval, and a
  block that comes from them still does not write the name back. It speaks of names
  that nothing accuses when their removal ends: not of one whose verdict is being
  promoted, whose Redis delete failed, or that has a confirmed report, which
  `remove_blocklist` leaves in the union (`src/dns_server/db.py:52`).
* `ScanCompletes`: a scan on its way, which may have to wait for another's permit, ends with a verdict or is lost in a fault.
  It says "as long as the worker's loop runs"; `worker_ends` shows why: one
  Redis error ends the loop for good.
* `ScanCompletes`, `BlocksBecomeVisible`, `BlockReachesMemory`,
  `WhitelistReachesMemory`: progress, see section 5.

* `ImplementsLease`, `RunsWithinLapses`: two runs at a time are possible, and each
  takes a TTL that ended under a run; the unconditional delete alone lets in no
  second run. `ImplementsDeepLease` says the same of deep scans.
* `RunsClose`, `CronGoesOn`: a site that fails leaves no open row; a lock that was
  left behind ends with its TTL.
* `RunsClose` counts no fault as an excuse: only the death of the process and a failed
  insert or update of the row itself leave a row open.
* `OnlyRacesListTwice`: a row that an administrator or a run of the scraper added and a
  row of the whitelist have a name in common only if it was whitelisted while a run
  that had found it on no list was still at work on it. Scans add rows of their own to
  names on the whitelist, without any race: `scan_ignores_whitelist`.
* `WaitingIsForSomething`, `PollEnds`: locks that end early and scans that delete
  each other's lock or replace each other's result leave no page waiting, as
  long as nothing fails. A failed or refused POST does: the page polls on.
* `OnlyWatchersLearn`: after a revocation no later event is sent, however far the
  subscriber is behind; an event that was published before may still arrive.
* `StreamKeepsLatest`, `EventArrives`: a full queue loses the oldest event only; an
  event that was received reaches the open streams unless the connection or the
  push service fails.
* `CreatedMeansOwner`: of two requests for one address one is told "created".
* `HitsResemble`, `HomoglyphsAreCaught`: the detector finds nothing that is not like a
  brand; of a brand that is its own normal form it finds all that is meant to be found,
  and of any brand what is like it as it is spelled. For brands that contain a homoglyph
  themselves more is lost than that, because labels of requests are normalized and
  those of brands are not, although the comment at `src/dns_server/typosquat.py:53` says
  so: `homoglyph_missed`. `Plain` excludes them from the second property, and those with
  a "v" before a "w": `_normalize` reads pairs from the left and makes "wv" of "vvv".
* `EvidenceCounts`, `BlockingIsEarned`, `AgeCounts`: no order of floors, reply and
  age rule loses evidence or makes up confidence.
* `ServfailIsEarned`, `QuestionsEnd`: the second server is asked after every kind of
  failure of the first, and no request waits for ever. A request that gets no answer
  because of an exception has ended, too.

Bounds. `MaxQueue` bounds the queue (Redis has no bound; a push waits in the
model, and strong fairness makes it happen). `MaxFaults` bounds crashes and
failed calls per behaviour: one is enough to separate any two steps of a
handler. The slots (`Query`, `Job`, `Client`) bound what is in progress at one
time; two scans suffice for scans of one name to overtake each other, and one
request suffices since requests meet only through the stores, which a scan, a
`/check`, an expiry and a crash change between any two of its steps. `Asked`,
`Checked`, `Managed`, `Reported`, `Controlled` say which names each actor uses;
`QType` says which query types clients send: `list_control`, where no scan runs, has
the types that are not scanned. `Reloads = FALSE` ends the refresh
loop after the first load, in runs that are not about lists. One report per name
is kept; the union only asks whether a confirmed one exists. A key may expire at
any time after it was set, so no TTL appears as a number. The theorems of
section 6 hold without the bounds on slots, names, queue and faults.

In the scrape runs `MaxLapses` bounds the TTLs that end under a run; one is
enough for a run to delete its successor's lock. `scrape_lists` has none, since its
question is not about the lock, and no faults, so that reports and the other callers
of `/scan` fit in; the theorem on `OnlyRacesListTwice` includes any number of faults. In `services`: two pages and
two background tasks over one lock (`MaxDeepLapses`, `MaxDeepFaults` 1), enough
for two scans of a name to overlap; one ward, one guardian, one subscription,
queues of one place and two events (`QueueSize`, `MaxEvents`), enough for a queue
to overflow and for an event to overtake a revocation; three registrations of two
addresses with two codes and two rolls; brands of three and four letters, with
`LongLabel` and `TokenLabel` lowered to 4 so that both distances and the search
for words occur, against some hundred labels, among them every look-alike of the
brands; the ages on both sides of 14 and 365 days, pages on both sides of every
threshold, replies on both sides of 70 percent, outside 0..100 and with an
unknown verdict; two requests on one TCP connection or on any listener, one
exception. `Tries` is two instead of three: a counter.

`scan_pipeline` uses symmetry of `Query` and `Job`; the liveness runs do not.

## 5. Fairness

`Fairness` in `ScamLens` assumes that every process goes on with what it has
started: an asyncio task that can run is run (weak fairness per request slot,
scan slot, admin request and check slot), and the refresh loop takes its next
step. Nothing is assumed of the environment: clients need not ask,
administrators need not edit, keys need not expire, and nothing needs to fail or
to be repaired. A push to the queue is strongly fair, because in the model it
can be disabled by `MaxQueue`, which Redis does not have. After a restart the
loop is again fair, since docker compose restarts the container
(`restart: unless-stopped`).

The same holds for `ScrapeSystem` and `Services`. There a scan that was called
answers or its time runs out, a page polls, the subscriber takes its next step,
a lock that is not released expires, and an upstream server that does not answer
is given up after its timeout; no server, site, guardian or visitor has to do
anything. `AskScan` is strongly fair because the number of scan slots is a bound
of the model.

`ScanCompletes` lets a scan be lost in a fault (`~Owned`). Nothing obliges an
operator to restart a scanner whose loop has ended. `BlocksBecomeVisible`
is checked where nobody removes rows, and excuses a failed insert.

## 6. Proofs

`tlapm` proves all obligations of eight modules. The assumptions are the named
ones on the constants (`DomainAssumption`, `BoundAssumption`,
`ResolverAssumption`, `RefreshAssumption`, `ScannerAssumption`,
`AdminAssumption`, `PublicAssumption`, `ScraperAssumption`, `ScrapeAssumption`,
`DeepAssumption`, `WatchAssumption`, `RegistrationAssumption`,
`TyposquatAssumption`, `GlyphAssumption`, `VerdictAssumption`, `UpstreamAssumption`);
TLC evaluates those of a run's modules in the run. `GlyphAssumption` says that the
alphabet is closed under what `_normalize` writes, as the letters of host names are.

* `ScamLensProofs!TypeCorrect`: `Spec => []TypeOK`. One lemma per component, one
  step per action; those of the components that `ScrapeSystem` contains as well are
  in `ComponentProofs`. `QueryType` and `JobType` say more than the shape of the
  records: which calls a request may still have to make in which state, that
  the parent walk is inside its chain, that only a scam verdict is "sure". The
  other proofs rest on this.
* `ScanProofs!NoOrphan`: `Spec => []NoOrphanMarker`. `TypeOK /\
  NoOrphanMarker` is inductive. The steps that matter are the handovers: push
  appends before the request forgets the name, pop takes the head and keeps it in
  a task, a scan gives the name up only in the step that overwrites the mark.
* `ScanProofs!VerdictsStayVisible`: `Spec => MarkerNeverHidesVerdict`.
* `ScamLensProofs!RemovalDurable`: `Spec => []RemovalIsDurable`. The property is
  not inductive: a request could hold a `promote` call for the name, or a scan
  could be between its writes. `Clean` excludes both, and `DetectorBound`
  (`memAlike` is never more than `LooksAlike`) is needed for the request that
  decides by typosquat. `History` takes a name out of `cleared` in the same
  step in which a reason to block it appears.

* `ScanProofs!RefinesTickets`: `Spec => ImplementsTickets`. Each step is
  `Silent` (it changes neither a marker nor who owns one), or one of the steps
  of `ScanTickets`: `MarkPending` is `Claim`, `CheckEnqueue` is `Request`, the
  first write of a scan is `Finish`, an expiry or an administrator's delete is
  `Vanish`, every failure is `Fail`. `TypeOK` is the only invariant it needs.

* `ScrapeProofs!ScrapeImplementsLease`: `Spec => ImplementsLease`, over `ScrapeInv`,
  the types of the scraper and "a manual run was asked for". The step that needs
  an argument is the report of a scan, which changes the runs that wait for it and
  neither starts nor ends one. `RunsStayWithinLapses` is not inductive: `LeaseInv`
  adds that beside a free lock there is one run fewer, and is proved from the
  steps of `LeaseLock` alone.
* `ScrapeProofs!ScrapeTypeCorrect`: `Spec => []TypeOK` for the composition of scraper,
  scans, edits and `/check`.
* `ScrapeProofs!ListedTwiceMeansRaced`: `Spec => []OnlyRacesListTwice`. The property is
  not inductive: a name in flight, which a run has found on no list, is written without
  another look. The scans of others are among the steps; the rows they add are of
  the category that the property leaves to the finding. `RaceInv` adds that such a name, once it is on the
  whitelist, is known as raced already. Every step is shown to be of three kinds
  (`Races`, `NewFlights`, `NewRows`): a name enters flight only off the whitelist, and
  a row is written only for a name in flight or off the whitelist.
* `ServiceProofs!WaitingPages`: `DeepInv` says that, without a failure, a lock has a task
  at work and a task about to release it has left a result. `DeepImplementsLease`
  needs the types only.
* `WatchProofs!EventsReachWatchersOnly`: `LearnInv` relates three times: what is in
  the channel was published, whoever is linked now has been watched since every
  published event, so whoever is read from the links has been since the event at
  hand.
* `ServiceProofs!AccountsHaveOneOwner`: `CreatedMeansOwner` is inductive with the
  types, because the insert takes neither an address nor a code that has a row.
  `ServfailNeedsBothServers`: `QueryInv` says that a request at the second server
  was let down by the first.
* `WatchProofs!LatestEventsWait`: `WatchSpec => []StreamKeepsLatest`. `StreamInv` orders
  the events along their way: what a stream has had is older than the event at
  hand until that one is fanned out, which is older than all of the channel, and
  nothing is younger than what was published. The queue with its bound loses from
  the front only (`Queued`).
* `ServiceProofs!NoSignHelps` rests on the floor being monotone in the signs of the
  page, `SureScamIsEarned` and `AgeIsRespected` on what the record of a scan carries
  from step to step.
* `TyposquatProofs!GlyphsAreUndone`: `TyposquatSpec => []HomoglyphsAreCaught`, for every
  label of every length. `AnswerIsCheck` reduces it to `Normalize`: read from its
  right end, each letter of a plain label is restored from any of its writings,
  because none of the three replacements finds a pair across the border of two
  letters (`LetterStays`, `PairGoes`, `LookalikesUndone`).
* `DistanceProofs!HitsAreLookalikes`: `TyposquatSpec => []HitsResemble`. The edits are
  stated on the first i letters of one label and the first j of the other, as the
  rows of `_levenshtein` compare them. A cell of a row is good if it is 0, 1, at
  most 2 exactly when the two beginnings are equal, one edit, two edits apart
  (`Good`); `NextRowIsGood` shows that the minimum of three keeps this, with
  `OneMoreLetter` and `TwoMoreLetters` for the step from the beginnings to those with
  one letter more. A row whose minimum exceeds the bound leaves no cell of a later
  row within it (`StopsEarlyIsFar`, `FarStays`). `WithinIsAtMost` and `WordsAreFound`
  lead back to the definitions on whole labels.
* `ServiceProofs!ServicesAreTheirModules`: a behaviour of `Services` is one of
  `DeepSpec`, `WatchSpec`, `RegistrationSpec`, `TyposquatSpec`, `VerdictSpec` and
  `UpstreamSpec`, because a step of one leaves the variables of the others alone.
  `ServicesTypeCorrect` and `PromisesHoldSideBySide` carry the types and all the safety
  promises of the modules over to the composition that the run checks.

The functions that walk a label (`ReplacePair`, `Levenshtein`, `Lookalikes`) are
recursive functions, and the provers cannot use the library's induction rules.
The proofs do without: what holds of every place is shown by the least place where
it would fail (`LeastElement`, `Upwards`, `Downwards`), on sets instead of operators;
`Recursion` uses that to show that a function exists that satisfies the recursive
equation, which is then right at the places of one rank more with each application,
so that `CHOOSE` picks such a function.

Model-checked only: all liveness properties (`ScanCompletes`, `BlocksBecomeVisible`,
`BlockReachesMemory`, `WhitelistReachesMemory`, `RunsClose`, `CronGoesOn`, `PollEnds`,
`EventArrives`, `QuestionsEnd`), because TLAPS cannot reason about `ENABLED`. Every
invariant and every safety property of the passing runs is a theorem.

## 7. What is not modelled, and why

* Which signs `analyze` finds in a page, the rendering and the language model:
  `VerdictRules` takes any page and any reply. In `ScamLens` a scan may return any
  verdict, and the typosquat detector is the constant set `LooksAlike`; with no
  brand rows it matches nothing.
* How `_etld_plus_one_label` cuts a name, and characters that occur in no host name. `brand_domains` has no link to the other
  lists and changes in `Typosquat` only.
* The sizes of packets: an answer that does not fit the client's buffer is passed
  on by the code as it is. One TCP connection at a time stands for all, because
  each has its own handler.
* Login, tokens and passwords: library calls on a row that does not change.
* Several wards, and several streams of one user: they have nothing in common but
  the subscriber, which handles one event after the other.
* A reply of a store that is lost after the store acted is modelled where it
  changes what follows: the pending mark (`MarkAnswerLost`), the pop
  (`PopFails`), the locks (`ClaimLost`, `LockAnswerLost`). Elsewhere it is the
  call's success or its failure.
* The rows that the scraper writes are in `ScrapeSystem`, without the DNS server;
  `RemovalIsDurable` does not speak of them.
* DoH tokens, client addresses, risk scores, reasons, categories of brands: data
  that no modelled decision reads.
* Two administrators at the same moment.
* Statistics, setup profiles, geo lookup, frontend (but for the polling of a deep
  scan), seeds, scripts and deployment: no protocol state.
