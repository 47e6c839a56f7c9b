------------------------------ MODULE DeepScan ------------------------------
(***************************************************************************)
(* api/routers/deep.py and the block page that uses it (DeepAnalysis.tsx). *)
(* The keys of two names have nothing in common: the module is about one   *)
(* name. A step ends where the handler or the task awaits.                 *)
(***************************************************************************)
EXTENDS Naturals, FiniteSets

CONSTANTS
    Visitor,        \* open block pages of the name
    DeepTask,       \* background scans the API process can have at one time
    MaxDeepLapses,  \* bound on the lock's TTLs that end during a scan
    MaxDeepFaults   \* bound on failed calls, crashes and deleted results

ASSUME DeepAssumption == MaxDeepLapses \in Nat /\ MaxDeepFaults \in Nat

VARIABLES
    deep,        \* deep:<name>: "none", "error" (kept 5 minutes), "report" (6 hours)
    deepLock,    \* deep_lock:<name> exists
    deepTask,    \* the state of each background scan
    visitor,     \* the state of each block page
    deepLapses,  \* history: TTLs of the lock that ended during a scan
    deepFaults

deepVars == <<deep, deepLock, deepTask, visitor, deepLapses, deepFaults>>

\* A task waits for /scan ("scan"), then deletes the lock ("unlock"). A page looks
\* for the lock after it found no result ("look"), shows its button ("idle"), has
\* posted and found no result ("claim"), asks every four seconds ("poll"), or shows
\* the result ("done").
DeepTypeOK ==
    /\ deep \in {"none", "error", "report"}
    /\ deepLock \in BOOLEAN
    /\ deepTask \in [DeepTask -> {"off", "scan", "unlock"}]
    /\ visitor \in [Visitor -> {"away", "look", "idle", "claim", "poll", "done"}]
    /\ deepLapses \in 0..MaxDeepLapses
    /\ deepFaults \in 0..MaxDeepFaults

DeepInit ==
    /\ deep = "none"
    /\ deepLock = FALSE
    /\ deepTask = [t \in DeepTask |-> "off"]
    /\ visitor = [v \in Visitor |-> "away"]
    /\ deepLapses = 0
    /\ deepFaults = 0

-----------------------------------------------------------------------------
Scanning == {t \in DeepTask : deepTask[t] # "off"}

Visit(v, from, to) == visitor[v] = from /\ visitor' = [visitor EXCEPT ![v] = to]

Work(t, from, to) == deepTask[t] = from /\ deepTask' = [deepTask EXCEPT ![t] = to]

DeepFault == deepFaults < MaxDeepFaults /\ deepFaults' = deepFaults + 1

\* MUTANT of Found: an error is not a result, the page goes on to wait for one.
FoundReport == deep = "report"

\* An error payload is a result like any other: status "done".
Found == deep # "none"

\* The page loads: deep_get, first read.
Open(v) ==
    /\ Visit(v, "away", IF Found THEN "done" ELSE "look")
    /\ UNCHANGED <<deep, deepLock, deepTask, deepLapses, deepFaults>>

\* deep_get, second read: a lock means that somebody else has started.
LookLock(v) ==
    /\ Visit(v, "look", IF deepLock THEN "poll" ELSE "idle")
    /\ UNCHANGED <<deep, deepLock, deepTask, deepLapses, deepFaults>>

\* The button: deep_post, first read.
Post(v) ==
    /\ Visit(v, "idle", IF Found THEN "done" ELSE "claim")
    /\ UNCHANGED <<deep, deepLock, deepTask, deepLapses, deepFaults>>

\* MUTANT of CanLock: SET without NX.
CanLockAlways == deepLock \in BOOLEAN

\* SET deep_lock:<name> 1 NX EX 90
CanLock == ~deepLock

\* deep_post, second step. Nothing looks at the result again: a scan may start
\* although one has just ended.
ClaimScan(v) ==
    /\ Visit(v, "claim", "poll")
    /\ \/ CanLock /\ deepLock' = TRUE /\ \E t \in DeepTask : Work(t, "off", "scan")
       \/ ~CanLock /\ UNCHANGED <<deepLock, deepTask>>
    /\ UNCHANGED <<deep, deepLapses, deepFaults>>

\* A poll that finds no result makes no difference, whatever the lock says.
Poll(v) ==
    /\ Found
    /\ Visit(v, "poll", "done")
    /\ UNCHANGED <<deep, deepLock, deepTask, deepLapses, deepFaults>>

Leave(v) ==
    /\ visitor[v] \in {"look", "idle", "poll", "done"}
    /\ Visit(v, visitor[v], "away")
    /\ UNCHANGED <<deep, deepLock, deepTask, deepLapses, deepFaults>>

\* /scan has answered, or not: whatever it is becomes the result, and replaces the
\* result of another scan.
StoreResult(t) ==
    /\ Work(t, "scan", "unlock")
    /\ deep' \in {"error", "report"}
    /\ UNCHANGED <<deepLock, visitor, deepLapses, deepFaults>>

\* finally: the delete does not look whose lock it is.
Unlock(t) ==
    /\ Work(t, "unlock", "off")
    /\ deepLock' = FALSE
    /\ UNCHANGED <<deep, visitor, deepLapses, deepFaults>>

-----------------------------------------------------------------------------
(* Failures and time.                                                      *)

\* The request of a page is lost, fails or is refused by the rate limit of 20 per
\* hour. One that posted shows its progress all the same, and polls.
RequestFails(v) ==
    /\ DeepFault
    /\ \/ Visit(v, "look", "idle")
       \/ Visit(v, "idle", "poll")
       \/ Visit(v, "claim", "poll")
    /\ UNCHANGED <<deep, deepLock, deepTask, deepLapses>>

\* Redis sets the lock, the answer is lost, nothing is started.
LockAnswerLost(v) ==
    /\ CanLock
    /\ DeepFault
    /\ Visit(v, "claim", "poll")
    /\ deepLock' = TRUE
    /\ UNCHANGED <<deep, deepTask, deepLapses>>

\* Redis fails when the result is stored, or when the lock is deleted.
StoreFails(t) ==
    /\ DeepFault
    /\ Work(t, "scan", "unlock") \/ Work(t, "unlock", "off")
    /\ UNCHANGED <<deep, deepLock, visitor, deepLapses>>

\* The API restarts: its scans are gone, their lock is not.
ApiDies ==
    /\ DeepFault
    /\ deepTask' = [t \in DeepTask |-> "off"]
    /\ visitor' = [v \in Visitor |->
          CASE visitor[v] = "look" -> "idle" [] visitor[v] = "claim" -> "poll" [] OTHER -> visitor[v]]
    /\ UNCHANGED <<deep, deepLock, deepLapses>>

\* An edit of the lists deletes deep:<name> (admin.py), a page that polls or not.
AdminClearsDeep ==
    /\ deep # "none"
    /\ DeepFault
    /\ deep' = "none"
    /\ UNCHANGED <<deepLock, deepTask, visitor, deepLapses>>

\* A result is kept for five minutes at least. A page that asks every four seconds sees
\* it, and so do two calls of one request or scan: the result goes when none is under
\* way, or, a counted fault, under a page whose timers the browser holds back.
ResultExpires ==
    /\ deep # "none"
    /\ \/ /\ \A v \in Visitor : visitor[v] \notin {"look", "claim", "poll"}
          /\ \A t \in DeepTask : deepTask[t] # "unlock"
          /\ UNCHANGED deepFaults
       \/ DeepFault
    /\ deep' = "none"
    /\ UNCHANGED <<deepLock, deepTask, visitor, deepLapses>>

\* The call of /scan may take as long as the lock lives, and starts after it.
LockLapses ==
    /\ deepLock
    /\ deepLock' = FALSE
    /\ \/ Scanning = {} /\ UNCHANGED deepLapses
       \/ Scanning # {} /\ deepLapses < MaxDeepLapses /\ deepLapses' = deepLapses + 1
    /\ UNCHANGED <<deep, deepTask, visitor, deepFaults>>

DeepNext ==
    \/ \E v \in Visitor :
        \/ Open(v) \/ LookLock(v) \/ Post(v) \/ ClaimScan(v) \/ Poll(v) \/ Leave(v)
        \/ RequestFails(v) \/ LockAnswerLost(v)
    \/ \E t \in DeepTask : StoreResult(t) \/ Unlock(t) \/ StoreFails(t)
    \/ ApiDies \/ AdminClearsDeep \/ ResultExpires \/ LockLapses

DeepSpec == DeepInit /\ [][DeepNext]_deepVars

-----------------------------------------------------------------------------
DeepLease == INSTANCE LeaseLock WITH
    Task <- DeepTask, holders <- Scanning, locked <- deepLock, lapses <- deepLapses

\* deep.py deep_post, _run_deep_scan: whatever fails, scans over one name's lock
\* in the ways of LeaseLock only.
ImplementsDeepLease == DeepLease!Spec

\* DeepAnalysis.tsx: a page that polls gets to show a result or is closed, as long
\* as no call fails, nothing restarts, no administrator deletes the result and the tab is
\* awake.
PollEnds ==
    \A v \in Visitor : visitor[v] = "poll" ~> (visitor[v] # "poll" \/ deepFaults > 0)

\* deep.py deep_get, deep_post, _run_deep_scan: without a failure a page waits only
\* while a scan is at work or its result is there, even if locks end too early and
\* scans delete each other's. A page that waits for nothing would poll for ever.
WaitingIsForSomething ==
    deepFaults = 0 => \A v \in Visitor : visitor[v] = "poll" => Found \/ Scanning # {}
=============================================================================
