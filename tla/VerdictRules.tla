---------------------------- MODULE VerdictRules ----------------------------
(***************************************************************************)
(* What a scan concludes: the age rule (rdap.py), the empty pages and the  *)
(* floors (heuristics.py), the model's reply (ai.py), and the order in     *)
(* which the worker (worker.py) and /scan (control.py) apply them. One     *)
(* name, one scan after the other; Scanner is about scans side by side.    *)
(***************************************************************************)
EXTENDS Integers

CONSTANTS
    Days,               \* ages of a registration, in days
    Field,              \* signs the static scan looks for in a page
    Page,               \* pages that the browser can bring back
    Reply,              \* replies of the model, as they come
    Garbage,            \* a reply without any JSON
    Tries,              \* calls of the model before the scan fails: 3, Gemini 1
    MaxRegistrations    \* bound on how often the name is registered

NoEntry == -2
Unknown == -1
Verdicts == {"safe", "suspicious", "scam"}

\* A page: the static signs in it, the number of script markers, and what
\* classify_empty_page measures. A reply: a verdict and a confidence of any value.
PageType ==
    [fields : SUBSET Field, scripts : Nat, status : Nat, html : Nat, text : Nat, parked : BOOLEAN]
ReplyType == [verdict : Verdicts \cup {"other"}, confidence : Int]

ASSUME VerdictAssumption ==
    /\ Days \subseteq Nat /\ \E d \in Days : \A e \in Days : d <= e
    /\ {"password", "card", "otp", "seed", "brand", "tld"} \subseteq Field
    /\ Page \subseteq PageType /\ Reply \subseteq ReplyType /\ Garbage \notin ReplyType
    /\ Tries \in Nat \ {0} /\ MaxRegistrations \in Nat \ {0}

VARIABLES
    age,         \* days since the name was registered
    registered,  \* how often it was
    ageCache,    \* rdap:<name>: days when RDAP was asked, Unknown, or NoEntry
    ageOf,       \* history: the registration that ageCache is about
    scan,        \* the scan in progress
    saved        \* what the last scan has saved, until the next one starts

verdictVars == <<age, registered, ageCache, ageOf, scan, saved>>

\* st: "age" and "rdap" are the two steps of lookup_age, "late" is its call in /scan;
\* "fetch" waits for the page, "ask" for the model, "save" and "error" for the store.
NoPage == [fields |-> {}, scripts |-> 0, status |-> 0, html |-> 0, text |-> 0, parked |-> FALSE]
Result == [verdict : Verdicts, confidence : 0..100]
NoResult == [verdict |-> "suspicious", confidence |-> 5]

ScanRecord ==
    [st : {"idle", "age", "rdap", "fetch", "ask", "save", "error", "late"}, by : {"worker", "control"},
     days : Days \cup {Unknown, NoEntry}, of : 0..MaxRegistrations, page : Page \cup {NoPage},
     tries : 0..Tries, reply : Reply \cup {Garbage}, result : Result]

NoScanYet ==
    [st |-> "idle", by |-> "worker", days |-> NoEntry, of |-> 0, page |-> NoPage,
     tries |-> 0, reply |-> Garbage, result |-> NoResult]

VerdictTypeOK ==
    /\ age \in Days
    /\ registered \in 1..MaxRegistrations
    /\ ageCache \in Days \cup {Unknown, NoEntry}
    /\ ageOf \in 0..MaxRegistrations
    /\ scan \in ScanRecord
    /\ saved \in [kind : {"none", "aged", "error", "full"}, scan : ScanRecord]

NothingSaved == [kind |-> "none", scan |-> NoScanYet]

VerdictInit ==
    /\ age \in Days
    /\ registered = 1
    /\ ageCache = NoEntry
    /\ ageOf = 0
    /\ scan = NoScanYet
    /\ saved = NothingSaved

-----------------------------------------------------------------------------
(* heuristics.py                                                           *)

Rank == [safe |-> 0, suspicious |-> 1, scam |-> 2]

Larger(m, n) == IF m >= n THEN m ELSE n

Claims(p) == p.fields \cap {"brand", "tld"} # {}

\* extra_flags
ExtraFlags(p) == Claims(p) \/ p.scripts >= 3 \/ p.fields \cap {"otp", "card", "seed"} # {}

AsksForMoney(p)    == "seed" \in p.fields \/ ("card" \in p.fields /\ Claims(p))
AsksForPassword(p) == "password" \in p.fields /\ ExtraFlags(p)
LooksBad(p)        == p.scripts >= 5 \/ {"brand", "tld"} \subseteq p.fields

\* MUTANT of SeverityFloor: the password form is judged before the card form.
SeverityFloorPasswordFirst(p) ==
    IF AsksForPassword(p) THEN "suspicious" ELSE IF AsksForMoney(p) THEN "scam"
    ELSE IF LooksBad(p) THEN "suspicious" ELSE "safe"

\* severity_floor
SeverityFloor(p) ==
    IF AsksForMoney(p) THEN "scam"
    ELSE IF AsksForPassword(p) \/ LooksBad(p) THEN "suspicious" ELSE "safe"

\* classify_empty_page
EmptyPage(p) ==
    \/ p.status >= 400
    \/ p.html < 200
    \/ p.text < 80
    \/ p.text < 600 /\ p.parked

-----------------------------------------------------------------------------
(* ai.py and the floors of worker.py and control.py                        *)

\* MUTANT of Clamp: no upper end.
ClampBelow(n) == IF n < 0 THEN 0 ELSE n

Clamp(n) == IF n < 0 THEN 0 ELSE IF n > 100 THEN 100 ELSE n

\* _parse_verdict
ParseVerdict(r) ==
    IF r = Garbage THEN [verdict |-> "suspicious", confidence |-> 10]
    ELSE [verdict    |-> IF r.verdict \in Verdicts THEN r.verdict ELSE "suspicious",
          confidence |-> Clamp(r.confidence)]

\* MUTANT of ApplyFloor: a page with a floor makes any verdict a confident one.
ApplyFloorAlwaysSure(v, p) ==
    [verdict    |-> IF Rank[SeverityFloor(p)] <= Rank[v.verdict] THEN v.verdict ELSE SeverityFloor(p),
     confidence |-> IF SeverityFloor(p) = "safe" THEN v.confidence ELSE Larger(v.confidence, 70)]

\* _apply_heuristic_floor, _apply_floor
ApplyFloor(v, p) ==
    IF Rank[SeverityFloor(p)] <= Rank[v.verdict] THEN v
    ELSE [verdict |-> SeverityFloor(p), confidence |-> Larger(v.confidence, 70)]

\* A name that is younger than two weeks is not safe.
ApplyYouth(v, days) ==
    IF days # Unknown /\ days < 14 /\ v.verdict = "safe"
    THEN [verdict |-> "suspicious", confidence |-> Larger(v.confidence, 40)]
    ELSE v

\* The worker knows the age, /scan asks for it when all is saved.
Conclude(s, r) ==
    LET v == ApplyFloor(ParseVerdict(r), s.page)
    IN  IF s.by = "worker" THEN ApplyYouth(v, s.days) ELSE v

-----------------------------------------------------------------------------
(* A scan                                                                  *)

\* What the scan s comes to when something fails: save_error, or a status 500.
Fails(s) == IF s.by = "worker" THEN [s EXCEPT !.st = "error"] ELSE NoScanYet

StartScan(by) ==
    /\ scan.st = "idle"
    /\ scan' = [NoScanYet EXCEPT !.st = IF by = "worker" THEN "age" ELSE "fetch", !.by = by]
    /\ saved' = NothingSaved
    /\ UNCHANGED <<age, registered, ageCache, ageOf>>

\* MUTANT of Aged: what is not known to be young is old.
AgedUnlessYoung(days) == days = Unknown \/ days >= 365

\* AGE_AUTO_SAFE_DAYS
Aged(days) == days # Unknown /\ days >= 365

\* The scan s knows the age: an old name is saved as safe at once.
WithAge(s, days, of) ==
    LET known == [s EXCEPT !.days = days, !.of = of]
    IN  IF s.by = "control" THEN NoScanYet
        ELSE IF Aged(days)
        THEN [known EXCEPT !.st = "save", !.result = [verdict |-> "safe", confidence |-> 60]]
        ELSE [known EXCEPT !.st = "fetch"]

\* lookup_age: the days of the cache are those of the day RDAP was asked.
ReadAgeCache ==
    /\ scan.st \in {"age", "late"}
    /\ scan' = IF ageCache = NoEntry THEN [scan EXCEPT !.st = "rdap"] ELSE WithAge(scan, ageCache, ageOf)
    /\ UNCHANGED <<age, registered, ageCache, ageOf, saved>>

\* _fetch_rdap_registration: no answer is cached for 90 days as well.
AskRdap ==
    /\ scan.st = "rdap"
    /\ ageCache' \in {age, Unknown}
    /\ ageOf' = registered
    /\ scan' = WithAge(scan, ageCache', registered)
    /\ UNCHANGED <<age, registered, saved>>

\* The browser has a page, or none.
FetchPage ==
    /\ scan.st = "fetch"
    /\ \/ \E p \in Page : scan' = [scan EXCEPT !.page = p, !.st = IF EmptyPage(p) THEN "error" ELSE "ask"]
       \/ scan' = Fails(scan)
    /\ UNCHANGED <<age, registered, ageCache, ageOf, saved>>

AskModel ==
    /\ scan.st = "ask"
    /\ \E r \in Reply \cup {Garbage} :
         scan' = [scan EXCEPT !.st = "save", !.tries = 0, !.reply = r, !.result = Conclude(scan, r)]
    /\ UNCHANGED <<age, registered, ageCache, ageOf, saved>>

\* The call fails, or the reply has braces around something that is no object.
ModelFails ==
    /\ scan.st = "ask"
    /\ scan' = IF scan.tries + 1 < Tries THEN [scan EXCEPT !.tries = @ + 1] ELSE Fails(scan)
    /\ UNCHANGED <<age, registered, ageCache, ageOf, saved>>

\* Redis fails in lookup_age.
AgeFails ==
    /\ scan.st \in {"age", "rdap", "late"}
    /\ scan' = Fails(scan)
    /\ UNCHANGED <<age, registered, ageCache, ageOf, saved>>

SaveResult ==
    /\ scan.st = "save"
    /\ saved' = [kind |-> IF scan.page = NoPage THEN "aged" ELSE "full", scan |-> scan]
    /\ scan' = IF scan.by = "worker" THEN NoScanYet ELSE [scan EXCEPT !.st = "late"]
    /\ UNCHANGED <<age, registered, ageCache, ageOf>>

SaveScanError ==
    /\ scan.st = "error"
    /\ saved' = [kind |-> "error", scan |-> scan]
    /\ scan' = NoScanYet
    /\ UNCHANGED <<age, registered, ageCache, ageOf>>

-----------------------------------------------------------------------------
(* Time                                                                    *)

GrowOlder ==
    /\ \E d \in Days : d > age /\ age' = d
    /\ UNCHANGED <<registered, ageCache, ageOf, scan, saved>>

\* The registration ends, and somebody else takes the name.
RegisterAnew ==
    /\ registered < MaxRegistrations
    /\ registered' = registered + 1
    /\ \E d \in Days : (\A e \in Days : d <= e) /\ age' = d
    /\ UNCHANGED <<ageCache, ageOf, scan, saved>>

AgeCacheExpires ==
    /\ ageCache # NoEntry
    /\ ageCache' = NoEntry
    /\ ageOf' = 0
    /\ UNCHANGED <<age, registered, scan, saved>>

VerdictNext ==
    \/ \E by \in {"worker", "control"} : StartScan(by)
    \/ ReadAgeCache \/ AskRdap \/ FetchPage \/ AskModel \/ ModelFails \/ AgeFails
    \/ SaveResult \/ SaveScanError
    \/ GrowOlder \/ RegisterAnew \/ AgeCacheExpires

VerdictSpec == VerdictInit /\ [][VerdictNext]_verdictVars

-----------------------------------------------------------------------------
\* heuristics.py severity_floor, worker.py, control.py: whatever the model says, a
\* saved verdict is at least the floor of the page, and of every page with fewer
\* signs: more evidence never makes a milder verdict.
EvidenceCounts ==
    saved.kind = "full" =>
        \A fields \in SUBSET saved.scan.page.fields, scripts \in 0..saved.scan.page.scripts :
            LET less == [saved.scan.page EXCEPT !.fields = fields, !.scripts = scripts]
            IN  Rank[SeverityFloor(less)] <= Rank[saved.scan.result.verdict]

\* store.py save blocks for good at 70 percent: only a reply that says so itself, or
\* a page that asks for money, leads there; an unsure reply and a lesser sign do not
\* add up to it.
BlockingIsEarned ==
    saved.scan.result.verdict = "scam" /\ saved.scan.result.confidence >= 70 =>
        \/ AsksForMoney(saved.scan.page)
        \/ saved.scan.reply # Garbage /\ saved.scan.reply.verdict = "scam" /\ saved.scan.reply.confidence >= 70

\* rdap.py, worker.py: the age in the cache may be 90 days old, and the name older by
\* then; as long as it has not been registered anew, a name that was passed for its
\* age is a year old, and the worker does not call a name safe that it could know to
\* be younger than two weeks.
AgeCounts ==
    saved.scan.of = registered =>
        /\ saved.kind = "aged" => age >= 365
        /\ saved.kind = "full" /\ saved.scan.by = "worker" /\ saved.scan.days # Unknown /\ age < 14
              => saved.scan.result.verdict # "safe"
=============================================================================
