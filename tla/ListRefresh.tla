---------------------------- MODULE ListRefresh ----------------------------
(***************************************************************************)
(* dns_server/main.py: the load of the lists at start and the loop that    *)
(* reloads them every five minutes (_refresh_lists_loop). Each load awaits *)
(* Postgres, so the rows that a load returned ("got") may be out of date   *)
(* when they replace the list in memory, and requests run between the      *)
(* replacement of one list and the next. The DoH tokens, loaded last, name *)
(* the user of a request and decide no answer; they are left out.          *)
(***************************************************************************)
EXTENDS Resolver

CONSTANT Reloads   \* bound: FALSE ends the loop after the load at start

ASSUME RefreshAssumption == Reloads \in BOOLEAN

VARIABLE refresh

\* st: the load that runs next, or the list that its rows are for.
RefreshRecord ==
    [st  : {"sleep", "gotBlocklist", "loadWhitelist", "gotWhitelist", "loadBrands"},
     got : SUBSET Domain]

RefreshTypeOK == refresh \in RefreshRecord

Sleeping == [st |-> "sleep", got |-> {}]

RefreshInit == refresh = Sleeping

-----------------------------------------------------------------------------
\* load_blocklist: blocklist_seed UNION bad verdicts UNION confirmed reports.
BlocklistUnion ==
    {d \in Domain : \/ seed[d] # "none"
                    \/ row[d] \in BadRow
                    \/ report[d] = "confirmed"}

\* MUTANT of LoadBlocklist: the first error ends the loop.
LoadBlocklistUntilError ==
    /\ refresh.st = "sleep"
    /\ Reloads \/ ~serving
    /\ faults = 0
    /\ refresh' = [st |-> "gotBlocklist", got |-> BlocklistUnion]
    /\ UNCHANGED <<pgVars, redisVars, memVars, faults, query, serving>>

LoadBlocklist ==
    /\ refresh.st = "sleep"
    /\ Reloads \/ ~serving
    /\ refresh' = [st |-> "gotBlocklist", got |-> BlocklistUnion]
    /\ UNCHANGED <<pgVars, redisVars, memVars, faults, query, serving>>

ReplaceBlocklist ==
    /\ refresh.st = "gotBlocklist"
    /\ memBlock' = refresh.got
    /\ refresh' = [st |-> "loadWhitelist", got |-> {}]
    /\ UNCHANGED <<pgVars, redisVars, memWhite, memAlike, faults, query, serving>>

LoadWhitelist ==
    /\ refresh.st = "loadWhitelist"
    /\ refresh' = [st |-> "gotWhitelist", got |-> white]
    /\ UNCHANGED <<pgVars, redisVars, memVars, faults, query, serving>>

\* load_whitelist catches every error and returns an empty list.
LoadWhitelistFails ==
    /\ refresh.st = "loadWhitelist"
    /\ Fault
    /\ refresh' = [st |-> "gotWhitelist", got |-> {}]
    /\ UNCHANGED <<pgVars, redisVars, memVars, query, serving>>

ReplaceWhitelist ==
    /\ refresh.st = "gotWhitelist"
    /\ memWhite' = refresh.got
    /\ refresh' = [st |-> "loadBrands", got |-> {}]
    /\ UNCHANGED <<pgVars, redisVars, memBlock, memAlike, faults, query, serving>>

\* The brand rows make a new detector; the listeners open after the first load.
FinishRefresh(alike) ==
    /\ refresh.st = "loadBrands"
    /\ memAlike' = alike
    /\ serving' = TRUE
    /\ refresh' = Sleeping
    /\ UNCHANGED <<pgVars, redisVars, memBlock, memWhite, query>>

LoadBrands == FinishRefresh(LooksAlike) /\ UNCHANGED faults

\* load_brand_domains catches every error too: the detector knows no brand.
LoadBrandsFails == FinishRefresh({}) /\ Fault

\* A failed load_blocklist ends the round (and at start the process, which
\* starts again): no list changes, hence a step that changes nothing.

RefreshStep ==
    \/ LoadBlocklist \/ ReplaceBlocklist
    \/ LoadWhitelist \/ ReplaceWhitelist
    \/ LoadBrands

RefreshNext == RefreshStep \/ LoadWhitelistFails \/ LoadBrandsFails

\* docker compose restarts the DNS server: ResolverCrash, and a fresh loop.
DnsRestart ==
    /\ Fault
    /\ ResolverCrash
    /\ refresh' = Sleeping
    /\ UNCHANGED <<pgVars, redisVars>>
=============================================================================
