---------------------------- MODULE ServiceProofs ----------------------------
(***************************************************************************)
(* Proofs about the deep scans (DeepScan), the accounts (Registration), the *)
(* upstream queries (Upstream) and the verdict rules (VerdictRules), and    *)
(* about Services, where all of them stand side by side.                   *)
(***************************************************************************)
EXTENDS Services, WatchProofs, DistanceProofs, TLAPS

(* Deep scans.                                                             *)

LEMMA DeepInitType == DeepInit => DeepTypeOK
<1>1. 0 \in 0..MaxDeepLapses /\ 0 \in 0..MaxDeepFaults
  BY DeepAssumption
<1> QED
  BY <1>1 DEF DeepInit, DeepTypeOK

LEMMA DeepStepType == DeepTypeOK /\ [DeepNext]_deepVars => DeepTypeOK'
<1> SUFFICES ASSUME DeepTypeOK, [DeepNext]_deepVars PROVE DeepTypeOK'
  OBVIOUS
<1> USE DeepAssumption DEF DeepTypeOK, Visit, Work, DeepFault
<1>1. ASSUME NEW v \in Visitor, Open(v) PROVE DeepTypeOK'
  BY <1>1 DEF Open
<1>2. ASSUME NEW v \in Visitor, LookLock(v) PROVE DeepTypeOK'
  BY <1>2 DEF LookLock
<1>3. ASSUME NEW v \in Visitor, Post(v) PROVE DeepTypeOK'
  BY <1>3 DEF Post
<1>4. ASSUME NEW v \in Visitor, ClaimScan(v) PROVE DeepTypeOK'
  BY <1>4 DEF ClaimScan
<1>5. ASSUME NEW v \in Visitor, Poll(v) PROVE DeepTypeOK'
  BY <1>5 DEF Poll
<1>6. ASSUME NEW v \in Visitor, Leave(v) PROVE DeepTypeOK'
  BY <1>6 DEF Leave
<1>7. ASSUME NEW v \in Visitor, RequestFails(v) PROVE DeepTypeOK'
  BY <1>7 DEF RequestFails
<1>8. ASSUME NEW v \in Visitor, LockAnswerLost(v) PROVE DeepTypeOK'
  BY <1>8 DEF LockAnswerLost
<1>9. ASSUME NEW t \in DeepTask, StoreResult(t) \/ Unlock(t) \/ StoreFails(t) PROVE DeepTypeOK'
  <2>1. deepTask' \in [DeepTask -> {"off", "scan", "unlock"}]
    BY <1>9 DEF StoreResult, Unlock, StoreFails
  <2>2. deepFaults' \in 0..MaxDeepFaults
    BY <1>9 DEF StoreResult, Unlock, StoreFails
  <2> QED
    BY <1>9, <2>1, <2>2 DEF StoreResult, Unlock, StoreFails
<1>10. CASE ApiDies
  BY <1>10 DEF ApiDies
<1>11. CASE AdminClearsDeep \/ ResultExpires
  BY <1>11 DEF AdminClearsDeep, ResultExpires
<1>12. CASE LockLapses
  <2>1. deepLapses' \in 0..MaxDeepLapses
    BY <1>12 DEF LockLapses
  <2> QED
    BY <1>12, <2>1 DEF LockLapses
<1>13. CASE UNCHANGED deepVars
  BY <1>13 DEF deepVars
<1> QED
  BY <1>1, <1>2, <1>3, <1>4, <1>5, <1>6, <1>7, <1>8, <1>9, <1>10, <1>11, <1>12, <1>13
  DEF DeepNext

LEMMA DeepType == DeepSpec => []DeepTypeOK
BY DeepInitType, DeepStepType, PTL DEF DeepSpec

-----------------------------------------------------------------------------
(* Waiting.                                                                *)

\* Without a failure a task that is about to delete the lock has left a result, and
\* a lock belongs to a task: this is why a page that finds the lock has a scan to
\* wait for, and why the end of the last scan leaves no page without a result.
DeepInv ==
    deepFaults = 0 =>
        /\ \A t \in DeepTask : deepTask[t] = "unlock" => deep # "none"
        /\ deepLock => Scanning # {}
        /\ \A v \in Visitor : visitor[v] = "poll" => deep # "none" \/ Scanning # {}

LEMMA DeepInvInit == DeepInit => DeepInv
BY DEF DeepInit, DeepInv

\* The steps of a page move no task and leave the result alone.
LEMMA PageStep ==
    ASSUME DeepTypeOK, DeepInv, NEW v \in Visitor,
           Open(v) \/ LookLock(v) \/ Post(v) \/ Poll(v) \/ Leave(v)
    PROVE  DeepInv'
<1>1. UNCHANGED <<deep, deepLock, deepTask, deepFaults>>
  BY DEF Open, LookLock, Post, Poll, Leave
<1>2. \A w \in Visitor : visitor'[w] = "poll" => visitor[w] = "poll" \/ deepLock
  BY DEF Open, LookLock, Post, Poll, Leave, Visit, DeepTypeOK
<1>3. Scanning' = Scanning
  BY <1>1 DEF Scanning
<1> QED
  BY <1>1, <1>2, <1>3 DEF DeepInv

LEMMA ClaimStep ==
    ASSUME DeepTypeOK, DeepInv, NEW v \in Visitor, ClaimScan(v)
    PROVE  DeepInv'
<1>1. UNCHANGED <<deep, deepFaults>> /\ \A w \in Visitor : w # v => visitor'[w] = visitor[w]
  BY DEF ClaimScan, Visit, DeepTypeOK
<1>2. CASE UNCHANGED <<deepLock, deepTask>> /\ deepLock
  <2>1. Scanning' = Scanning
    BY <1>2 DEF Scanning
  <2> QED
    BY <1>1, <1>2, <2>1 DEF DeepInv
<1>3. ASSUME NEW t \in DeepTask, Work(t, "off", "scan") PROVE DeepInv'
  <2>1. \A u \in DeepTask : deepTask'[u] = IF u = t THEN "scan" ELSE deepTask[u]
    BY <1>3 DEF Work, DeepTypeOK
  <2>2. t \in Scanning'
    BY <2>1 DEF Scanning
  <2> QED
    BY <1>1, <2>1, <2>2 DEF DeepInv
<1> QED
  BY <1>2, <1>3 DEF ClaimScan, CanLock

LEMMA TaskStep ==
    ASSUME DeepTypeOK, DeepInv, NEW t \in DeepTask, StoreResult(t) \/ Unlock(t)
    PROVE  DeepInv'
<1>1. CASE StoreResult(t)
  <2>1. \A u \in DeepTask : deepTask'[u] = IF u = t THEN "unlock" ELSE deepTask[u]
    BY <1>1 DEF StoreResult, Work, DeepTypeOK
  <2>2. t \in Scanning' /\ deep' # "none"
    BY <1>1, <2>1 DEF StoreResult, Scanning
  <2> QED
    BY <2>2 DEF DeepInv
<1>2. CASE Unlock(t)
  <2>1. deepTask[t] = "unlock" /\ UNCHANGED <<deep, visitor, deepFaults>> /\ deepLock' = FALSE
    BY <1>2 DEF Unlock, Work
  <2>2. deepFaults = 0 => deep' # "none"
    BY <2>1 DEF DeepInv
  <2> QED
    BY <2>1, <2>2 DEF DeepInv
<1> QED
  BY <1>1, <1>2

LEMMA DeepInvStep == DeepTypeOK /\ DeepInv /\ [DeepNext]_deepVars => DeepInv'
<1> SUFFICES ASSUME DeepTypeOK, DeepInv, [DeepNext]_deepVars PROVE DeepInv'
  OBVIOUS
<1>1. ASSUME deepFaults' # 0 PROVE DeepInv'
  BY <1>1 DEF DeepInv
<1>2. ASSUME DeepFault PROVE DeepInv'
  BY <1>1, <1>2 DEF DeepFault, DeepTypeOK
<1>3. ASSUME NEW v \in Visitor, Open(v) \/ LookLock(v) \/ Post(v) \/ Poll(v) \/ Leave(v) PROVE DeepInv'
  BY <1>3, PageStep
<1>4. ASSUME NEW v \in Visitor, ClaimScan(v) PROVE DeepInv'
  BY <1>4, ClaimStep
<1>5. ASSUME NEW v \in Visitor, RequestFails(v) \/ LockAnswerLost(v) PROVE DeepInv'
  BY <1>2, <1>5 DEF RequestFails, LockAnswerLost
<1>6. ASSUME NEW t \in DeepTask, StoreResult(t) \/ Unlock(t) PROVE DeepInv'
  BY <1>6, TaskStep
<1>7. ASSUME NEW t \in DeepTask, StoreFails(t) PROVE DeepInv'
  BY <1>2, <1>7 DEF StoreFails
<1>8. CASE ApiDies \/ AdminClearsDeep
  BY <1>2, <1>8 DEF ApiDies, AdminClearsDeep
<1>9. CASE ResultExpires
  <2>1. CASE UNCHANGED deepFaults
    <3>1. /\ \A v \in Visitor : visitor'[v] # "poll"
          /\ \A t \in DeepTask : deepTask'[t] # "unlock"
          \/ DeepFault
      BY <1>9 DEF ResultExpires
    <3>2. ~DeepFault
      BY <2>1 DEF DeepFault, DeepTypeOK
    <3> QED
      BY <1>9, <2>1, <3>1, <3>2 DEF ResultExpires, DeepInv, Scanning
  <2> QED
    BY <1>2, <1>9, <2>1 DEF ResultExpires
<1>10. CASE LockLapses
  BY <1>10 DEF LockLapses, DeepInv, Scanning
<1>11. CASE UNCHANGED deepVars
  BY <1>11 DEF deepVars, DeepInv, Scanning
<1> QED
  BY <1>3, <1>4, <1>5, <1>6, <1>7, <1>8, <1>9, <1>10, <1>11 DEF DeepNext

\* deep.py deep_get, deep_post, _run_deep_scan: as long as nothing has failed, a
\* page waits only while a scan is at work or its result is there, for any number
\* of pages and scans, and however many locks end too early.
THEOREM WaitingPages == DeepSpec => []WaitingIsForSomething
<1>1. DeepSpec => []DeepInv
  <2>1. DeepTypeOK /\ DeepInv /\ [DeepNext]_deepVars => DeepInv'
    BY DeepInvStep
  <2> QED
    BY <2>1, DeepInvInit, DeepType, PTL DEF DeepSpec
<1>2. DeepInv => WaitingIsForSomething
  BY DEF DeepInv, WaitingIsForSomething, Found
<1> QED
  BY <1>1, <1>2, PTL

-----------------------------------------------------------------------------
(* The lock.                                                               *)

LEMMA LeaseInit == DeepInit => DeepLease!Init
BY DEF DeepInit, DeepLease!Init, Scanning

\* A step that leaves lock and tasks at work alone is a stutter of the lease.
LEMMA LeaseStutter ==
    ASSUME UNCHANGED <<deepTask, deepLock, deepLapses>>
    PROVE  UNCHANGED DeepLease!leaseVars
BY DEF DeepLease!leaseVars, Scanning

LEMMA LeaseClaim ==
    ASSUME DeepTypeOK, NEW v \in Visitor, ClaimScan(v)
    PROVE  [DeepLease!Next]_DeepLease!leaseVars
<1>1. CASE UNCHANGED <<deepLock, deepTask>>
  BY <1>1, LeaseStutter DEF ClaimScan
<1>2. ASSUME CanLock, deepLock' = TRUE, NEW t \in DeepTask, Work(t, "off", "scan")
      PROVE DeepLease!Next
  <2>1. \A u \in DeepTask : deepTask'[u] = IF u = t THEN "scan" ELSE deepTask[u]
    BY <1>2 DEF Work, DeepTypeOK
  <2>2. t \notin Scanning
    BY <1>2 DEF Work, Scanning
  <2>3. Scanning' = Scanning \cup {t}
    BY <2>1 DEF Scanning
  <2>4. DeepLease!Claim(t)
    BY <1>2, <2>2, <2>3 DEF DeepLease!Claim, CanLock, ClaimScan
  <2> QED
    BY <2>4 DEF DeepLease!Next
<1> QED
  BY <1>1, <1>2 DEF ClaimScan

LEMMA LeaseTask ==
    ASSUME DeepTypeOK, NEW t \in DeepTask, StoreResult(t) \/ Unlock(t) \/ StoreFails(t)
    PROVE  [DeepLease!Next]_DeepLease!leaseVars
<1>1. CASE Work(t, "scan", "unlock") /\ UNCHANGED <<deepLock, deepLapses>>
  <2>1. \A u \in DeepTask : deepTask'[u] = IF u = t THEN "unlock" ELSE deepTask[u]
    BY <1>1 DEF Work, DeepTypeOK
  <2>2. Scanning' = Scanning
    BY <1>1, <2>1 DEF Work, Scanning
  <2> QED
    BY <1>1, <2>2 DEF DeepLease!leaseVars
<1>2. CASE Work(t, "unlock", "off") /\ deepLock' \in {FALSE, deepLock} /\ UNCHANGED deepLapses
  <2>1. \A u \in DeepTask : deepTask'[u] = IF u = t THEN "off" ELSE deepTask[u]
    BY <1>2 DEF Work, DeepTypeOK
  <2>2. t \in Scanning /\ Scanning' = Scanning \ {t}
    BY <1>2, <2>1 DEF Work, Scanning
  <2>3. DeepLease!Finish(t)
    BY <1>2, <2>2 DEF DeepLease!Finish
  <2> QED
    BY <2>3 DEF DeepLease!Next
<1> QED
  BY <1>1, <1>2 DEF StoreResult, Unlock, StoreFails

LEMMA LeaseStep == DeepTypeOK /\ [DeepNext]_deepVars => [DeepLease!Next]_DeepLease!leaseVars
<1> SUFFICES ASSUME DeepTypeOK, [DeepNext]_deepVars PROVE [DeepLease!Next]_DeepLease!leaseVars
  OBVIOUS
<1>1. ASSUME NEW v \in Visitor,
             Open(v) \/ LookLock(v) \/ Post(v) \/ Poll(v) \/ Leave(v) \/ RequestFails(v)
      PROVE  UNCHANGED <<deepTask, deepLock, deepLapses>>
  BY <1>1 DEF Open, LookLock, Post, Poll, Leave, RequestFails
<1>2. ASSUME NEW v \in Visitor, LockAnswerLost(v) PROVE DeepLease!Next
  <2>1. Scanning' = Scanning
    BY <1>2 DEF LockAnswerLost, Scanning
  <2>2. DeepLease!ClaimLost
    BY <1>2, <2>1 DEF LockAnswerLost, DeepLease!ClaimLost
  <2> QED
    BY <2>2 DEF DeepLease!Next
<1>3. CASE ApiDies
  <2>1. Scanning' = {}
    BY <1>3 DEF ApiDies, Scanning
  <2>2. DeepLease!Die
    BY <1>3, <2>1 DEF ApiDies, DeepLease!Die, DeepTypeOK
  <2> QED
    BY <2>2 DEF DeepLease!Next
<1>4. CASE AdminClearsDeep \/ ResultExpires
  BY <1>4, LeaseStutter DEF AdminClearsDeep, ResultExpires
<1>5. CASE LockLapses
  <2>1. Scanning' = Scanning
    BY <1>5 DEF LockLapses, Scanning
  <2>2. deepLapses' = deepLapses + (IF Scanning = {} THEN 0 ELSE 1)
    BY <1>5 DEF LockLapses, DeepTypeOK
  <2>3. DeepLease!Lapse
    BY <1>5, <2>1, <2>2 DEF LockLapses, DeepLease!Lapse
  <2> QED
    BY <2>3 DEF DeepLease!Next
<1>6. CASE UNCHANGED deepVars
  BY <1>6, LeaseStutter DEF deepVars
<1> QED
  BY <1>1, <1>2, <1>3, <1>4, <1>5, <1>6, LeaseStutter, LeaseClaim, LeaseTask DEF DeepNext

\* deep.py deep_post, _run_deep_scan: the scans of one name implement LeaseLock,
\* failures, restarts and locks that end too early included.
THEOREM DeepImplementsLease == DeepSpec => ImplementsDeepLease
<1>1. DeepTypeOK /\ [DeepNext]_deepVars => [DeepLease!Next]_DeepLease!leaseVars
  BY LeaseStep
<1> QED
  BY <1>1, LeaseInit, DeepType, PTL DEF DeepSpec, ImplementsDeepLease, DeepLease!Spec

-----------------------------------------------------------------------------
(* Accounts.                                                               *)

\* A request that is still at work has a roll left.
AccountInv ==
    /\ RegistrationTypeOK
    /\ \A a \in Attempt : attempt[a].st = "insert" => attempt[a].rolls < MaxRolls
    /\ \A a \in Attempt : attempt[a].st = "created" => attempt[a].code \in Code
    /\ \A a \in Attempt : attempt[a].st = "new" => attempt[a].rolls = 0
    /\ CreatedMeansOwner

LEMMA AccountInit == RegistrationInit => AccountInv
<1> SUFFICES ASSUME RegistrationInit PROVE AccountInv
  OBVIOUS
<1>1. 0 \in 0..MaxRolls
  BY RegistrationAssumption
<1>2. \A a \in Attempt : attempt[a].st = "new" /\ attempt[a].rolls = 0
  BY DEF RegistrationInit
<1>3. attempt \in [Attempt -> AttemptRecord]
  BY <1>1 DEF RegistrationInit, AttemptRecord
<1>4. users \in [Email -> Code \cup {NoCode}]
  BY DEF RegistrationInit
<1> QED
  BY <1>2, <1>3, <1>4 DEF AccountInv, RegistrationTypeOK, CreatedMeansOwner

\* A step that answers no request with a new account.
LEMMA NoAccount ==
    ASSUME AccountInv, NEW a \in Attempt, NEW rec \in AttemptRecord,
           attempt' = [attempt EXCEPT ![a] = rec], users' = users,
           attempt[a].st # "created", rec.st \notin {"created", "new"}, rec.st = "insert" => rec.rolls < MaxRolls
    PROVE  AccountInv'
<1>1. \A b \in Attempt : attempt'[b] = IF b = a THEN rec ELSE attempt[b]
  BY DEF AccountInv, RegistrationTypeOK
<1>2. RegistrationTypeOK'
  BY DEF AccountInv, RegistrationTypeOK
<1>3. CreatedMeansOwner'
  BY <1>1 DEF AccountInv, CreatedMeansOwner
<1> QED
  BY <1>1, <1>2, <1>3 DEF AccountInv

LEMMA NewAccount ==
    ASSUME AccountInv, NEW a \in Attempt, NEW c \in Code, attempt[a].st = "insert",
           ~CodeTaken(c), ~EmailRefused(attempt[a].email),
           attempt' = [attempt EXCEPT ![a].st = "created", ![a].code = c],
           users' = [users EXCEPT ![attempt[a].email] = c]
    PROVE  AccountInv'
<1> DEFINE m == attempt[a].email
<1>1. attempt \in [Attempt -> AttemptRecord] /\ users \in [Email -> Code \cup {NoCode}] /\ m \in Email
  BY DEF AccountInv, RegistrationTypeOK, AttemptRecord
<1>2. \A b \in Attempt : b # a => attempt'[b] = attempt[b]
  BY <1>1
<1>3. attempt'[a] \in AttemptRecord /\ attempt'[a].st = "created" /\ attempt'[a].code = c /\ attempt'[a].email = m
  BY <1>1 DEF AttemptRecord
<1>4. RegistrationTypeOK'
  <2>1. attempt' \in [Attempt -> AttemptRecord]
    BY <1>1, <1>2, <1>3
  <2>2. users' \in [Email -> Code \cup {NoCode}]
    BY <1>1
  <2> QED
    BY <2>1, <2>2 DEF RegistrationTypeOK
<1>5. users[m] = NoCode /\ \A e \in Email : users[e] # c
  BY DEF EmailRefused, Registered, CodeTaken
<1>6. users'[m] = c /\ \A e \in Email : e # m => users'[e] = users[e]
  BY <1>1
<1>7. ASSUME NEW b \in Attempt, b # a, attempt[b].st = "created"
      PROVE  attempt[b].email # m /\ attempt[b].code # c /\ users'[attempt[b].email] = attempt[b].code
  <2>1. users[attempt[b].email] = attempt[b].code /\ attempt[b].code \in Code /\ attempt[b].email \in Email
    BY <1>1, <1>7 DEF AccountInv, CreatedMeansOwner, AttemptRecord
  <2> QED
    BY <1>5, <1>6, <2>1, RegistrationAssumption
<1>8. CreatedMeansOwner'
  <2>1. ASSUME NEW b \in Attempt, attempt'[b].st = "created"
        PROVE  users'[attempt'[b].email] = attempt'[b].code
    BY <1>2, <1>3, <1>6, <1>7, <2>1
  <2>2. ASSUME NEW b \in Attempt, NEW d \in Attempt \ {b}, attempt'[b].st = "created", attempt'[d].st = "created"
        PROVE  attempt'[d].email # attempt'[b].email /\ attempt'[d].code # attempt'[b].code
    <3>1. CASE b # a /\ d # a
      <4>1. attempt'[b] = attempt[b] /\ attempt'[d] = attempt[d]
        BY <1>2, <3>1
      <4>2. attempt[b].st = "created" /\ attempt[d].st = "created"
        BY <2>2, <4>1
      <4>3. attempt[d].email # attempt[b].email /\ attempt[d].code # attempt[b].code
        BY <4>2 DEF AccountInv, CreatedMeansOwner
      <4> QED
        BY <4>1, <4>3
    <3>2. CASE b = a
      <4>1. attempt'[d] = attempt[d] /\ d # a
        BY <1>2, <3>2
      <4> QED
        BY <1>3, <1>7, <2>2, <3>2, <4>1
    <3>3. CASE d = a
      <4>1. attempt'[b] = attempt[b] /\ b # a
        BY <1>2, <3>3
      <4> QED
        BY <1>3, <1>7, <2>2, <3>3, <4>1
    <3> QED
      BY <3>1, <3>2, <3>3
  <2> QED
    BY <2>1, <2>2 DEF CreatedMeansOwner
<1>9. \A b \in Attempt : /\ attempt'[b].st = "insert" => attempt'[b].rolls < MaxRolls
                         /\ attempt'[b].st = "created" => attempt'[b].code \in Code
                         /\ attempt'[b].st = "new" => attempt'[b].rolls = 0
  BY <1>2, <1>3 DEF AccountInv
<1> QED
  BY <1>4, <1>8, <1>9 DEF AccountInv

LEMMA AccountStep == AccountInv /\ [RegistrationNext]_registrationVars => AccountInv'
<1> SUFFICES ASSUME AccountInv, [RegistrationNext]_registrationVars PROVE AccountInv'
  OBVIOUS
<1>1. ASSUME NEW a \in Attempt, LookUpEmail(a) PROVE AccountInv'
  <2> DEFINE st  == IF Registered(attempt[a].email) THEN "conflict" ELSE "insert"
             rec == [attempt[a] EXCEPT !.st = st]
  <2>1. attempt[a] \in AttemptRecord /\ attempt[a].st = "new" /\ attempt[a].rolls = 0 /\ users' = users
    BY <1>1 DEF LookUpEmail, AccountInv, RegistrationTypeOK
  <2>2. attempt' = [attempt EXCEPT ![a] = rec]
    BY <1>1 DEF LookUpEmail, AccountInv, RegistrationTypeOK
  <2>3. st \in {"conflict", "insert"}
    OBVIOUS
  <2> HIDE DEF st
  <2>4. rec \in AttemptRecord /\ rec.st = st /\ rec.rolls = 0
    BY <2>1, <2>3 DEF AttemptRecord
  <2>5. 0 < MaxRolls
    BY RegistrationAssumption
  <2> HIDE DEF rec
  <2> QED
    BY <2>1, <2>2, <2>3, <2>4, <2>5, NoAccount
<1>2. ASSUME NEW a \in Attempt, InsertUser(a) PROVE AccountInv'
  <2>1. attempt[a] \in AttemptRecord /\ attempt[a].st = "insert" /\ attempt[a].rolls < MaxRolls
    BY <1>2 DEF InsertUser, AccountInv, RegistrationTypeOK
  <2> DEFINE last   == attempt[a].rolls + 1 = MaxRolls
             rolled == [attempt[a] EXCEPT !.rolls = @ + 1, !.st = IF last THEN "nocode" ELSE "insert"]
             failed == [attempt[a] EXCEPT !.st = "error"]
  <2>2. rolled \in AttemptRecord /\ rolled.st \in {"nocode", "insert"} /\ (rolled.st = "insert" => rolled.rolls < MaxRolls)
    <3>1. attempt[a].rolls + 1 \in 0..MaxRolls /\ (~last => attempt[a].rolls + 1 < MaxRolls)
      BY <2>1, RegistrationAssumption DEF AttemptRecord
    <3> QED
      BY <2>1, <3>1 DEF AttemptRecord
  <2>3. failed \in AttemptRecord /\ failed.st = "error"
    BY <2>1 DEF AttemptRecord
  <2>4. CASE attempt' = [attempt EXCEPT ![a].rolls = @ + 1, ![a].st = IF last THEN "nocode" ELSE "insert"] /\ users' = users
    <3>1. attempt' = [attempt EXCEPT ![a] = rolled]
      BY <2>4 DEF AccountInv, RegistrationTypeOK
    <3> HIDE DEF rolled
    <3> QED
      BY <2>1, <2>2, <2>4, <3>1, NoAccount
  <2>5. CASE attempt' = [attempt EXCEPT ![a].st = "error"] /\ users' = users
    <3>1. attempt' = [attempt EXCEPT ![a] = failed]
      BY <2>5 DEF AccountInv, RegistrationTypeOK
    <3> HIDE DEF failed
    <3> QED
      BY <2>1, <2>3, <2>5, <3>1, NoAccount
  <2>6. ASSUME NEW c \in Code, ~CodeTaken(c), ~EmailRefused(attempt[a].email),
               attempt' = [attempt EXCEPT ![a].st = "created", ![a].code = c],
               users' = [users EXCEPT ![attempt[a].email] = c]
        PROVE  AccountInv'
    BY <2>1, <2>6, NewAccount
  <2> QED
    BY <1>2, <2>4, <2>5, <2>6 DEF InsertUser
<1>3. CASE UNCHANGED registrationVars
  BY <1>3 DEF registrationVars, AccountInv, RegistrationTypeOK, CreatedMeansOwner
<1> QED
  BY <1>1, <1>2, <1>3 DEF RegistrationNext, AllAnswered

\* auth.py register: the account of a request that was told "created" is its own, for
\* any number of requests, addresses and codes, although each looks before it inserts.
THEOREM AccountsHaveOneOwner == RegistrationSpec => []CreatedMeansOwner
<1>1. AccountInv => CreatedMeansOwner
  BY DEF AccountInv
<1> QED
  BY <1>1, AccountInit, AccountStep, PTL DEF RegistrationSpec

-----------------------------------------------------------------------------
(* Upstream queries.                                                       *)

\* A query that asks the second server was let down by the first.
Justified(rec) ==
    /\ rec.st \in {"unasked", "line", "resolve"} => rec.server = 1
    /\ rec.st \in {"udp", "tcp"} /\ rec.server = 2 => 1 \in rec.failed
    /\ rec.st = "servfail" => rec.failed = Upstreams

QueryInv == question \in [Question -> {rec \in QuestionRecord : Justified(rec)}]

\* A step that replaces one record by a justified one, or none.
LEMMA OneQuestion ==
    ASSUME QueryInv, NEW q, NEW rec, q \in Question => rec \in QuestionRecord /\ Justified(rec),
           question' = [question EXCEPT ![q] = rec]
    PROVE  QueryInv'
BY DEF QueryInv

\* The client's part ends: whatever the request was about to do, it is justified.
LEMMA Silenced ==
    ASSUME QueryInv, NEW lost,
           question' = [p \in Question |-> IF p \in lost THEN [question[p] EXCEPT !.st = "silence"] ELSE question[p]]
    PROVE  QueryInv'
BY DEF QueryInv, QuestionRecord, Justified

LEMMA QueryInit == UpstreamInit => QueryInv
BY DEF UpstreamInit, Unasked, QueryInv, QuestionRecord, Justified, Upstreams

\* From a state with server 1, or to an answer, a turn changes nothing of the record
\* that has to be justified.
LEMMA TurnIsJustified ==
    ASSUME QueryInv, NEW q, NEW from, NEW to,
           <<from, to>> \in {<<"line", "resolve">>, <<"resolve", "udp">>, <<"resolve", "reply">>,
                             <<"resolve", "silence">>, <<"udp", "tcp">>,
                             <<"udp", "reply">>, <<"tcp", "reply">>, <<"tcp", "silence">>},
           Turn(q, from, to)
    PROVE  QueryInv'
<1> DEFINE rec == [question[q] EXCEPT !.st = to]
<1>1. question' = [question EXCEPT ![q] = rec]
  BY DEF Turn
<1>2. ASSUME q \in Question PROVE rec \in QuestionRecord /\ Justified(rec)
  <2>1. question[q] \in QuestionRecord /\ Justified(question[q]) /\ question[q].st = from
    BY <1>2 DEF QueryInv, Turn
  <2>2. rec \in QuestionRecord /\ rec.st = to /\ rec.server = question[q].server /\ rec.failed = question[q].failed
    BY <2>1 DEF QuestionRecord
  <2>3. \/ from = "line" /\ to = "resolve"
        \/ from = "resolve" /\ to \in {"udp", "reply", "silence"}
        \/ from \in {"udp", "tcp"} /\ to \in {"tcp", "reply", "silence"}
    OBVIOUS
  <2> QED
    BY <2>1, <2>2, <2>3 DEF Justified
<1> QED
  BY <1>1, <1>2, OneQuestion

LEMMA QueryStep == QueryInv /\ [UpstreamNext]_upstreamVars => QueryInv'
<1> SUFFICES ASSUME QueryInv, [UpstreamNext]_upstreamVars PROVE QueryInv'
  OBVIOUS
<1>1. ASSUME NEW q \in Question, NEW via \in {"udp", "tcp", "doh"}, AskBy(q, via) PROVE QueryInv'
  <2> DEFINE st  == IF via = "tcp" THEN "line" ELSE "resolve"
             rec == [question[q] EXCEPT !.via = via, !.st = st]
  <2>1. question[q] \in QuestionRecord /\ question[q].st = "unasked" /\ question[q].server = 1
    BY <1>1 DEF QueryInv, AskBy, Justified
  <2>2. question' = [question EXCEPT ![q] = rec]
    BY <1>1, <2>1 DEF AskBy, QueryInv
  <2>3. rec \in QuestionRecord /\ rec.st \in {"line", "resolve"} /\ rec.server = 1
    BY <2>1 DEF QuestionRecord
  <2> QED
    BY <2>2, <2>3, OneQuestion DEF Justified
<1>2. ASSUME NEW q \in Question, QuestionStep(q) PROVE QueryInv'
  <2>1. CASE Forward(q) \/ AnswersItself(q) \/ UdpAnswer(q) \/ TcpAnswer(q)
    BY <2>1, TurnIsJustified DEF Forward, AnswersItself, UdpAnswer, TcpAnswer
  <2>2. CASE ServerFails(q)
    <3> DEFINE failed == question[q].failed \cup {question[q].server}
               after  == [question[q] EXCEPT !.failed = failed]
               rec    == AfterFailure(after)
    <3>1. question[q] \in QuestionRecord /\ Justified(question[q]) /\ question[q].st \in {"udp", "tcp"}
      BY <2>2 DEF QueryInv, ServerFails, TimesOut
    <3>2. question' = [question EXCEPT ![q] = rec]
      BY <2>2, <3>1 DEF ServerFails, QueryInv
    <3>3. /\ after \in QuestionRecord /\ after.failed = failed
          /\ after.server = question[q].server /\ question[q].server \in {1, 2}
      BY <3>1 DEF QuestionRecord, Upstreams
    <3>4. CASE question[q].server = 2
      <4>1. failed = Upstreams
        BY <3>1, <3>4 DEF Justified, QuestionRecord, Upstreams
      <4> HIDE DEF failed, after
      <4>2. rec = [after EXCEPT !.st = "servfail"]
        BY <3>3, <3>4 DEF AfterFailure
      <4>3. rec \in QuestionRecord /\ rec.st = "servfail" /\ rec.failed = Upstreams
        BY <3>3, <4>1, <4>2 DEF QuestionRecord
      <4> QED
        BY <3>2, <4>3, OneQuestion DEF Justified
    <3>5. CASE question[q].server = 1
      <4>1. 1 \in failed
        BY <3>5
      <4> HIDE DEF failed, after
      <4>2. rec = [after EXCEPT !.st = "udp", !.server = 2]
        BY <3>3, <3>5 DEF AfterFailure
      <4>3. 2 \in Upstreams
        BY DEF Upstreams
      <4>4. rec \in QuestionRecord
        BY <3>3, <4>2, <4>3 DEF QuestionRecord
      <4>5. rec.st = "udp" /\ 1 \in rec.failed
        BY <3>3, <4>1, <4>2 DEF QuestionRecord
      <4> QED
        BY <3>2, <4>4, <4>5, OneQuestion DEF Justified
    <3> QED
      BY <3>3, <3>4, <3>5
  <2> QED
    BY <1>2, <2>1, <2>2 DEF QuestionStep
<1>3. ASSUME NEW q \in Question, ResolveRaises(q) PROVE QueryInv'
  BY <1>3, Silenced DEF ResolveRaises
<1>4. ASSUME NEW q \in Question, Forget(q) PROVE QueryInv'
  <2>1. Unasked \in QuestionRecord /\ Justified(Unasked)
    BY DEF Unasked, QuestionRecord, Justified, Upstreams
  <2> QED
    BY <1>4, <2>1, OneQuestion DEF Forget
<1>5. CASE ReadNextQuestion
  BY <1>5, TurnIsJustified DEF ReadNextQuestion
<1>6. CASE HangUp
  BY <1>6, Silenced DEF HangUp
<1>7. CASE Dial \/ UNCHANGED upstreamVars
  BY <1>7 DEF Dial, upstreamVars, QueryInv
<1> QED
  BY <1>1, <1>2, <1>3, <1>4, <1>5, <1>6, <1>7 DEF UpstreamNext

\* upstream.py query: for any number of requests at a time, SERVFAIL is sent only when
\* both servers have failed the request.
THEOREM ServfailNeedsBothServers == UpstreamSpec => []ServfailIsEarned
<1>1. QueryInv => ServfailIsEarned
  BY DEF QueryInv, ServfailIsEarned, Justified
<1> QED
  BY <1>1, QueryInit, QueryStep, PTL DEF UpstreamSpec

LEMMA UpstreamInitType == UpstreamInit => UpstreamTypeOK
<1>1. Unasked \in QuestionRecord
  BY DEF Unasked, QuestionRecord, Upstreams
<1>2. 0 \in 0..MaxUpstreamFaults /\ <<>> \in Seq(Question)
  BY UpstreamAssumption
<1> QED
  BY <1>1, <1>2 DEF UpstreamInit, UpstreamTypeOK

\* QueryInv has the type of the requests.
LEMMA UpstreamStepType == UpstreamTypeOK /\ QueryInv /\ [UpstreamNext]_upstreamVars => UpstreamTypeOK'
<1> SUFFICES ASSUME UpstreamTypeOK, QueryInv, [UpstreamNext]_upstreamVars PROVE UpstreamTypeOK'
  OBVIOUS
<1>1. question' \in [Question -> QuestionRecord]
  BY QueryStep DEF QueryInv
<1>2. line \in Seq(Question) /\ connected \in BOOLEAN /\ upstreamFaults \in 0..MaxUpstreamFaults
  BY DEF UpstreamTypeOK
<1>3. <<>> \in Seq(Question)
  OBVIOUS
<1>4. line' \in Seq(Question)
  <2>1. ASSUME NEW q \in Question, NEW via \in {"udp", "tcp", "doh"}, AskBy(q, via) PROVE line' \in Seq(Question)
    <3>1. Append(line, q) \in Seq(Question)
      BY <1>2
    <3> QED
      BY <1>2, <2>1, <3>1 DEF AskBy
  <2>2. CASE ReadNextQuestion
    <3>1. line # <<>> /\ line' = Tail(line)
      BY <2>2 DEF ReadNextQuestion
    <3> QED
      BY <1>2, <3>1
  <2>3. ASSUME NEW q \in Question, QuestionStep(q) \/ ResolveRaises(q) \/ Forget(q) PROVE line' \in Seq(Question)
    BY <1>2, <1>3, <2>3 DEF QuestionStep, Forward, AnswersItself, UdpAnswer, TcpAnswer, ServerFails, ResolveRaises, Forget
  <2>4. CASE HangUp \/ Dial \/ UNCHANGED upstreamVars
    BY <1>2, <1>3, <2>4 DEF HangUp, Dial, upstreamVars
  <2> QED
    BY <2>1, <2>2, <2>3, <2>4 DEF UpstreamNext
<1>5. connected' \in BOOLEAN /\ upstreamFaults' \in 0..MaxUpstreamFaults
  <2>1. ASSUME NEW q \in Question, ResolveRaises(q)
        PROVE  connected' \in BOOLEAN /\ upstreamFaults' \in 0..MaxUpstreamFaults
    <3>1. upstreamFaults' \in 0..MaxUpstreamFaults
      BY <1>2, <2>1, UpstreamAssumption DEF ResolveRaises
    <3> QED
      BY <1>2, <2>1, <3>1 DEF ResolveRaises
  <2>2. ASSUME NEW q \in Question, NEW via \in {"udp", "tcp", "doh"},
               AskBy(q, via) \/ QuestionStep(q) \/ Forget(q)
        PROVE  connected' = connected /\ upstreamFaults' = upstreamFaults
    BY <2>2 DEF AskBy, QuestionStep, Forward, AnswersItself, UdpAnswer, TcpAnswer, ServerFails, Forget
  <2>3. CASE ReadNextQuestion \/ HangUp \/ Dial \/ UNCHANGED upstreamVars
    BY <1>2, <2>3 DEF ReadNextQuestion, HangUp, Dial, upstreamVars
  <2> QED
    BY <1>2, <2>1, <2>2, <2>3 DEF UpstreamNext
<1> QED
  BY <1>1, <1>4, <1>5 DEF UpstreamTypeOK

LEMMA UpstreamType == UpstreamSpec => []UpstreamTypeOK
BY UpstreamInitType, QueryInit, UpstreamStepType, QueryStep, PTL DEF UpstreamSpec

-----------------------------------------------------------------------------
(* The verdict rules: lemmas about the rules.                              *)

LEMMA Ranks ==
    /\ Rank["safe"] = 0 /\ Rank["suspicious"] = 1 /\ Rank["scam"] = 2
BY DEF Rank

\* A page with fewer signs has no higher floor.
LEMMA FloorMonotone ==
    ASSUME NEW p \in PageType, NEW fields \in SUBSET p.fields, NEW scripts \in 0..p.scripts
    PROVE  LET less == [p EXCEPT !.fields = fields, !.scripts = scripts]
           IN  Rank[SeverityFloor(less)] <= Rank[SeverityFloor(p)]
<1> DEFINE less == [p EXCEPT !.fields = fields, !.scripts = scripts]
<1>1. less.fields \subseteq p.fields /\ less.scripts \in Nat /\ less.scripts <= p.scripts /\ p.scripts \in Nat
  BY DEF PageType
<1>2. AsksForMoney(less) => AsksForMoney(p)
  BY <1>1 DEF AsksForMoney, Claims
<1>3. AsksForPassword(less) => AsksForPassword(p)
  BY <1>1 DEF AsksForPassword, ExtraFlags, Claims
<1>4. LooksBad(less) => LooksBad(p)
  BY <1>1 DEF LooksBad
<1> HIDE DEF less
<1>5. Rank[SeverityFloor(less)] <= Rank[SeverityFloor(p)]
  BY <1>2, <1>3, <1>4, Ranks DEF SeverityFloor
<1> QED BY <1>5 DEF less

LEMMA FloorType == \A p : SeverityFloor(p) \in Verdicts
BY DEF SeverityFloor, Verdicts

LEMMA ParseType ==
    ASSUME NEW r \in Reply \cup {Garbage}
    PROVE  /\ ParseVerdict(r) \in Result
           /\ ParseVerdict(r).verdict = "scam" /\ ParseVerdict(r).confidence >= 70
                => r # Garbage /\ r.verdict = "scam" /\ r.confidence >= 70
BY VerdictAssumption DEF ParseVerdict, Clamp, Result, ReplyType, Verdicts

\* The floor and the age only make a verdict more severe.
LEMMA ConcludeRank ==
    ASSUME NEW s \in ScanRecord, NEW r \in Reply \cup {Garbage}
    PROVE  /\ Conclude(s, r) \in Result
           /\ Rank[SeverityFloor(s.page)] <= Rank[Conclude(s, r).verdict]
           /\ Conclude(s, r).verdict = "scam" /\ Conclude(s, r).confidence >= 70
                => \/ SeverityFloor(s.page) = "scam"
                   \/ r # Garbage /\ r.verdict = "scam" /\ r.confidence >= 70
           /\ s.by = "worker" /\ s.days # Unknown /\ s.days < 14 => Conclude(s, r).verdict # "safe"
<1> DEFINE q == ParseVerdict(r)
           v == ApplyFloor(q, s.page)
<1>1. q \in Result BY ParseType
<1>2. q.verdict \in Verdicts /\ q.confidence \in 0..100 BY <1>1 DEF Result
<1>3. SeverityFloor(s.page) \in Verdicts BY FloorType
<1>4. /\ v \in Result
      /\ Rank[SeverityFloor(s.page)] <= Rank[v.verdict]
      /\ v.verdict = "scam" => SeverityFloor(s.page) = "scam" \/ v = q
  BY <1>1, <1>2, <1>3, Ranks DEF ApplyFloor, Result, Larger, Verdicts
<1>5. v.verdict \in Verdicts /\ v.confidence \in 0..100 BY <1>4 DEF Result
<1>6. v.verdict = "scam" /\ v.confidence >= 70
        => \/ SeverityFloor(s.page) = "scam"
           \/ r # Garbage /\ r.verdict = "scam" /\ r.confidence >= 70
  BY <1>4, ParseType
<1> HIDE DEF v
<1>7. /\ ApplyYouth(v, s.days) \in Result
      /\ Rank[v.verdict] <= Rank[ApplyYouth(v, s.days).verdict]
      /\ ApplyYouth(v, s.days).verdict = "scam" => ApplyYouth(v, s.days) = v
      /\ s.days # Unknown /\ s.days < 14 => ApplyYouth(v, s.days).verdict # "safe"
  BY <1>4, <1>5, Ranks DEF ApplyYouth, Result, Larger, Verdicts
<1>8. Rank[v.verdict] \in 0..2 /\ Rank[ApplyYouth(v, s.days).verdict] \in 0..2 /\ Rank[SeverityFloor(s.page)] \in 0..2
  BY <1>3, <1>5, <1>7, Ranks DEF Verdicts, Result
<1>9. Conclude(s, r) = IF s.by = "worker" THEN ApplyYouth(v, s.days) ELSE v
  BY DEF Conclude, v
<1>10. Rank[SeverityFloor(s.page)] <= Rank[Conclude(s, r).verdict]
  BY <1>4, <1>7, <1>8, <1>9
<1>11. Conclude(s, r).verdict = "scam" => Conclude(s, r) = v
  BY <1>7, <1>9
<1> QED BY <1>4, <1>6, <1>7, <1>9, <1>10, <1>11

-----------------------------------------------------------------------------
(* The verdict rules: the inductive invariant.                             *)

\* What is known of the scan s, in progress or saved.
Concluded(s) == s.page # NoPage /\ s.result = Conclude(s, s.reply)
PassedForAge(s) == s.page = NoPage /\ Aged(s.days) /\ s.result = [verdict |-> "safe", confidence |-> 60]

Bare(s) == s.page = NoPage /\ s.result = NoResult

\* By where the scan s is; /scan asks for the age with everything in hand.
GoodScan(s) ==
    /\ s \in ScanRecord
    /\ s.st \in {"idle", "age", "fetch"} => Bare(s)
    /\ s.st = "rdap" => Bare(s) \/ s.by = "control"
    /\ s.st = "age" => s.by = "worker"
    /\ s.st = "late" => s.by = "control"
    /\ s.st = "ask" => s.page # NoPage
    /\ s.st \in {"ask", "error"} => s.result = NoResult
    /\ s.st = "save" => Concluded(s) \/ PassedForAge(s)
    /\ s.by = "worker" /\ s.st \in {"fetch", "ask", "save"} => s.days # NoEntry

SavedInv ==
    /\ saved.kind \in {"none", "error"} => saved.scan.result = NoResult
    /\ saved.kind = "aged" => PassedForAge(saved.scan)
    /\ saved.kind = "full" => Concluded(saved.scan)
    /\ saved.kind = "full" /\ saved.scan.by = "worker" => saved.scan.days # NoEntry

\* An age that was known of the present registration has only grown since.
YoungerOnce(days, of) == of <= registered /\ (of = registered /\ days \in Days => days <= age)

AgeInv ==
    /\ YoungerOnce(ageCache, ageOf)
    /\ YoungerOnce(scan.days, scan.of)
    /\ YoungerOnce(saved.scan.days, saved.scan.of)

VerdictInv == VerdictTypeOK /\ GoodScan(scan) /\ SavedInv /\ AgeInv

LEMMA VerdictInvInit == VerdictInit => VerdictInv
<1> SUFFICES ASSUME VerdictInit PROVE VerdictInv OBVIOUS
<1>1. NoScanYet \in ScanRecord
  BY VerdictAssumption DEF NoScanYet, ScanRecord, NoPage, NoResult, Result, Verdicts
<1>2. VerdictTypeOK
  BY <1>1, VerdictAssumption DEF VerdictInit, VerdictTypeOK, NothingSaved
<1>3. GoodScan(scan) /\ SavedInv
  BY <1>1 DEF VerdictInit, GoodScan, Bare, SavedInv, NoScanYet, NothingSaved
<1>4. AgeInv
  BY VerdictAssumption DEF VerdictInit, AgeInv, YoungerOnce, NoScanYet, NothingSaved, NoEntry
<1> QED BY <1>2, <1>3, <1>4 DEF VerdictInv

LEMMA NoScanYetFacts ==
    /\ NoScanYet \in ScanRecord
    /\ NoScanYet.st = "idle" /\ NoScanYet.page = NoPage /\ NoScanYet.result = NoResult
    /\ NoScanYet.of = 0 /\ NoScanYet.days = NoEntry /\ NoScanYet.by = "worker"
    /\ NoEntry \notin Days /\ Unknown \notin Days /\ NoEntry # Unknown
BY VerdictAssumption DEF NoScanYet, ScanRecord, NoPage, NoResult, Result, Verdicts, NoEntry, Unknown

\* What WithAge makes of a scan that waits for an age.
LEMMA GoodNoScanYet == GoodScan(NoScanYet)
BY NoScanYetFacts DEF GoodScan, Bare

\* What WithAge makes of a scan that waits for an age.
LEMMA WithAgeFacts ==
    ASSUME NEW s \in ScanRecord, Bare(s) \/ s.by = "control",
           NEW days \in Days \cup {Unknown}, NEW of \in 0..MaxRegistrations
    PROVE  LET w == WithAge(s, days, of)
           IN  /\ GoodScan(w)
               /\ w = NoScanYet \/ (w.days = days /\ w.of = of)
<1> DEFINE w == WithAge(s, days, of)
           known == [s EXCEPT !.days = days, !.of = of]
<1>1. NoEntry # days BY NoScanYetFacts
<1>2. CASE s.by = "control"
  <2>1. w = NoScanYet BY <1>2 DEF WithAge
  <2> QED BY <2>1, GoodNoScanYet
<1>3. ASSUME s.by # "control" PROVE known \in ScanRecord /\ Bare(known) /\ known.days = days /\ known.of = of
  BY <1>3 DEF ScanRecord, Bare
<1>4. CASE s.by # "control" /\ Aged(days)
  <2>1. w = [known EXCEPT !.st = "save", !.result = [verdict |-> "safe", confidence |-> 60]]
    BY <1>4 DEF WithAge
  <2>2. known \in ScanRecord /\ Bare(known) /\ known.days = days /\ known.of = of
    BY <1>3, <1>4
  <2> HIDE DEF known, w
  <2>3. /\ w.st = "save" /\ w.page = NoPage /\ w.days = days /\ w.of = of
        /\ w.result = [verdict |-> "safe", confidence |-> 60]
    BY <2>1, <2>2 DEF ScanRecord, Bare
  <2>4. [verdict |-> "safe", confidence |-> 60] \in Result
    BY DEF Result, Verdicts
  <2>5. w \in ScanRecord
    BY <2>1, <2>2, <2>4 DEF ScanRecord
  <2>6. PassedForAge(w) BY <2>3, <1>4 DEF PassedForAge
  <2>7. GoodScan(w) BY <2>3, <2>5, <2>6, <1>1 DEF GoodScan
  <2> QED BY <2>3, <2>7 DEF w
<1>5. CASE s.by # "control" /\ ~Aged(days)
  <2>1. w = [known EXCEPT !.st = "fetch"] BY <1>5 DEF WithAge
  <2>2. known \in ScanRecord /\ Bare(known) /\ known.days = days /\ known.of = of
    BY <1>3, <1>5
  <2> HIDE DEF known, w
  <2>3. w \in ScanRecord /\ w.st = "fetch" /\ Bare(w) /\ w.days = days /\ w.of = of
    BY <2>1, <2>2 DEF ScanRecord, Bare
  <2>4. GoodScan(w) BY <2>3, <1>1 DEF GoodScan
  <2> QED BY <2>3, <2>4 DEF w
<1> QED BY <1>2, <1>4, <1>5

LEMMA FailsFacts ==
    ASSUME NEW s \in ScanRecord, s.result = NoResult \/ s.by = "control"
    PROVE  /\ GoodScan(Fails(s))
           /\ Fails(s) = NoScanYet \/ (Fails(s).days = s.days /\ Fails(s).of = s.of)
<1>1. CASE s.by = "worker"
  <2>1. Fails(s) = [s EXCEPT !.st = "error"] BY <1>1 DEF Fails
  <2>2. /\ Fails(s) \in ScanRecord /\ Fails(s).st = "error" /\ Fails(s).result = NoResult
        /\ Fails(s).days = s.days /\ Fails(s).of = s.of
    BY <1>1, <2>1 DEF ScanRecord
  <2> QED BY <2>2 DEF GoodScan
<1>2. CASE s.by # "worker"
  BY <1>2, GoodNoScanYet DEF Fails
<1> QED BY <1>1, <1>2

\* Steps that leave what is saved, the name's age and its registration alone.
LEMMA ScanSteps ==
    ASSUME VerdictInv, ReadAgeCache \/ AskRdap \/ FetchPage \/ AskModel \/ ModelFails \/ AgeFails
    PROVE  VerdictInv'
<1>1. /\ scan \in ScanRecord /\ ageCache \in Days \cup {Unknown, NoEntry} /\ ageOf \in 0..MaxRegistrations
      /\ registered \in 1..MaxRegistrations /\ age \in Days /\ MaxRegistrations \in Nat \ {0} /\ Days \subseteq Nat
      /\ registered \in 0..MaxRegistrations /\ GoodScan(scan)
  BY VerdictAssumption DEF VerdictInv, VerdictTypeOK
<1>2. YoungerOnce(ageCache, ageOf) /\ YoungerOnce(scan.days, scan.of) /\ YoungerOnce(NoScanYet.days, NoScanYet.of)
  BY <1>1, NoScanYetFacts DEF VerdictInv, AgeInv, YoungerOnce
<1>3. saved' = saved /\ age' = age /\ registered' = registered
  BY DEF ReadAgeCache, AskRdap, FetchPage, AskModel, ModelFails, AgeFails
<1>4. SavedInv'
  BY <1>3 DEF VerdictInv, SavedInv, Concluded, PassedForAge
<1>5. YoungerOnce(saved.scan.days, saved.scan.of)'
  BY <1>3 DEF VerdictInv, AgeInv, YoungerOnce
<1>6. SUFFICES /\ GoodScan(scan)'
               /\ YoungerOnce(scan.days, scan.of)'
               /\ YoungerOnce(ageCache, ageOf)'
               /\ ageCache' \in Days \cup {Unknown, NoEntry} /\ ageOf' \in 0..MaxRegistrations
  BY <1>3, <1>4, <1>5 DEF VerdictInv, VerdictTypeOK, AgeInv, GoodScan
<1>7. /\ GoodScan(scan')
      /\ \/ scan' = NoScanYet
         \/ scan'.days = scan.days /\ scan'.of = scan.of
         \/ scan'.days = ageCache' /\ scan'.of = ageOf'
      /\ \/ UNCHANGED <<ageCache, ageOf>>
         \/ ageCache' \in {age, Unknown} /\ ageOf' = registered
  <2>1. CASE ReadAgeCache
    <3>1. UNCHANGED <<ageCache, ageOf>> /\ scan.st \in {"age", "late"} BY <2>1 DEF ReadAgeCache
    <3>2. Bare(scan) \/ scan.by = "control" BY <1>1, <3>1 DEF GoodScan
    <3>3. CASE ageCache = NoEntry
      <4>1. scan' = [scan EXCEPT !.st = "rdap"] BY <2>1, <3>3 DEF ReadAgeCache
      <4>2. /\ scan' \in ScanRecord /\ scan'.st = "rdap" /\ scan'.page = scan.page /\ scan'.by = scan.by
            /\ scan'.result = scan.result /\ scan'.days = scan.days /\ scan'.of = scan.of
        BY <4>1, <1>1 DEF ScanRecord
      <4> QED BY <3>1, <3>2, <4>2 DEF GoodScan, Bare
    <3>4. CASE ageCache # NoEntry
      <4>1. scan' = WithAge(scan, ageCache, ageOf) /\ ageCache \in Days \cup {Unknown}
        BY <2>1, <3>4, <1>1 DEF ReadAgeCache
      <4> QED BY <3>1, <3>2, <4>1, <1>1, WithAgeFacts
    <3> QED BY <3>3, <3>4
  <2>2. CASE AskRdap
    <3>1. /\ ageCache' \in {age, Unknown} /\ ageOf' = registered /\ scan.st = "rdap"
          /\ scan' = WithAge(scan, ageCache', registered)
      BY <2>2 DEF AskRdap
    <3>2. Bare(scan) \/ scan.by = "control" BY <1>1, <3>1 DEF GoodScan
    <3> QED BY <3>1, <3>2, <1>1, WithAgeFacts
  <2>3. CASE FetchPage
    <3>1. UNCHANGED <<ageCache, ageOf>> /\ scan.st = "fetch" /\ Bare(scan)
      BY <2>3, <1>1 DEF FetchPage, GoodScan
    <3>2. CASE scan' = Fails(scan)
      BY <3>1, <3>2, <1>1, FailsFacts DEF Bare
    <3>3. ASSUME NEW p \in Page, scan' = [scan EXCEPT !.page = p, !.st = IF EmptyPage(p) THEN "error" ELSE "ask"]
          PROVE  GoodScan(scan') /\ scan'.days = scan.days /\ scan'.of = scan.of
      <4>1. /\ scan' \in ScanRecord /\ scan'.page = p /\ scan'.by = scan.by /\ scan'.result = NoResult
            /\ scan'.days = scan.days /\ scan'.of = scan.of
            /\ scan'.st = IF EmptyPage(p) THEN "error" ELSE "ask"
        BY <3>1, <3>3, <1>1 DEF ScanRecord, Bare
      <4>2. ~EmptyPage(p) => p # NoPage BY DEF EmptyPage, NoPage
      <4>3. scan'.by = "worker" => scan'.days # NoEntry
        BY <3>1, <4>1, <1>1 DEF GoodScan
      <4> QED BY <4>1, <4>2, <4>3 DEF GoodScan
    <3> QED BY <2>3, <3>1, <3>2, <3>3 DEF FetchPage
  <2>4. CASE AskModel
    <3>1. UNCHANGED <<ageCache, ageOf>> /\ scan.st = "ask" /\ scan.page # NoPage
      BY <2>4, <1>1 DEF AskModel, GoodScan
    <3>2. PICK r \in Reply \cup {Garbage} :
             scan' = [scan EXCEPT !.st = "save", !.tries = 0, !.reply = r, !.result = Conclude(scan, r)]
      BY <2>4 DEF AskModel
    <3>3. Conclude(scan, r) \in Result BY <1>1, ConcludeRank
    <3>4. /\ scan'.st = "save" /\ scan'.page = scan.page /\ scan'.by = scan.by /\ scan'.reply = r
          /\ scan'.days = scan.days /\ scan'.of = scan.of /\ scan'.result = Conclude(scan, r)
      BY <3>2, <1>1 DEF ScanRecord
    <3>t. 0 \in 0..Tries BY VerdictAssumption
    <3>5. scan' \in ScanRecord
      BY <3>2, <3>3, <3>t, <1>1 DEF ScanRecord
    <3>6. Conclude(scan, r) = Conclude(scan', scan'.reply)
      BY <3>4 DEF Conclude
    <3>7. scan'.by = "worker" => scan'.days # NoEntry
      BY <3>1, <3>4, <1>1 DEF GoodScan
    <3> QED BY <3>1, <3>4, <3>5, <3>6, <3>7 DEF GoodScan, Concluded
  <2>5. CASE ModelFails
    <3>1. UNCHANGED <<ageCache, ageOf>> /\ scan.st = "ask" /\ scan.page # NoPage /\ scan.result = NoResult
      BY <2>5, <1>1 DEF ModelFails, GoodScan
    <3>2. CASE scan' = Fails(scan)
      BY <3>1, <3>2, <1>1, FailsFacts
    <3>3. CASE scan.tries + 1 < Tries /\ scan' = [scan EXCEPT !.tries = @ + 1]
      <4>1. /\ scan'.st = "ask" /\ scan'.page = scan.page /\ scan'.by = scan.by
            /\ scan'.days = scan.days /\ scan'.of = scan.of /\ scan'.result = NoResult
        BY <3>1, <3>3, <1>1 DEF ScanRecord
      <4>2. scan' \in ScanRecord
        BY <3>3, <1>1, VerdictAssumption DEF ScanRecord
      <4>3. scan'.by = "worker" => scan'.days # NoEntry
        BY <3>1, <4>1, <1>1 DEF GoodScan
      <4> QED BY <3>1, <4>1, <4>2, <4>3 DEF GoodScan
    <3> QED BY <2>5, <3>2, <3>3 DEF ModelFails
  <2>6. CASE AgeFails
    <3>1. UNCHANGED <<ageCache, ageOf>> /\ scan' = Fails(scan) /\ scan.st \in {"age", "rdap", "late"}
      BY <2>6 DEF AgeFails
    <3>2. scan.result = NoResult \/ scan.by = "control" BY <3>1, <1>1 DEF GoodScan, Bare
    <3> QED BY <3>1, <3>2, <1>1, FailsFacts
  <2> QED BY <2>1, <2>2, <2>3, <2>4, <2>5, <2>6
<1>8. YoungerOnce(ageCache, ageOf)' /\ ageCache' \in Days \cup {Unknown, NoEntry} /\ ageOf' \in 0..MaxRegistrations
  BY <1>1, <1>2, <1>3, <1>7, NoScanYetFacts DEF YoungerOnce
<1>9. YoungerOnce(scan.days, scan.of)'
  BY <1>1, <1>2, <1>3, <1>7, <1>8 DEF YoungerOnce
<1> QED BY <1>7, <1>8, <1>9

LEMMA StoreSteps ==
    ASSUME VerdictInv, (\E by \in {"worker", "control"} : StartScan(by)) \/ SaveResult \/ SaveScanError
    PROVE  VerdictInv'
<1>1. /\ scan \in ScanRecord /\ GoodScan(scan) /\ registered \in 1..MaxRegistrations
      /\ MaxRegistrations \in Nat \ {0}
  BY VerdictAssumption DEF VerdictInv, VerdictTypeOK
<1>2. UNCHANGED <<age, registered, ageCache, ageOf>>
  BY DEF StartScan, SaveResult, SaveScanError
<1>3. YoungerOnce(ageCache, ageOf)'
  BY <1>2 DEF VerdictInv, AgeInv, YoungerOnce
<1>4. YoungerOnce(NoScanYet.days, NoScanYet.of)'
  BY <1>1, <1>2, NoScanYetFacts DEF YoungerOnce
<1>6. ASSUME NEW s, s.days = scan.days, s.of = scan.of
      PROVE  YoungerOnce(s.days, s.of)'
  BY <1>2, <1>6 DEF VerdictInv, AgeInv, YoungerOnce
<1>7. SUFFICES /\ GoodScan(scan') /\ YoungerOnce(scan.days, scan.of)'
               /\ saved' \in [kind : {"none", "aged", "error", "full"}, scan : ScanRecord]
               /\ SavedInv' /\ YoungerOnce(saved.scan.days, saved.scan.of)'
  BY <1>2, <1>3 DEF VerdictInv, VerdictTypeOK, AgeInv, GoodScan
<1>8. CASE \E by \in {"worker", "control"} : StartScan(by)
  <2>1. PICK by \in {"worker", "control"} : StartScan(by) BY <1>8
  <2>2. /\ scan' = [NoScanYet EXCEPT !.st = IF by = "worker" THEN "age" ELSE "fetch", !.by = by]
        /\ saved' = NothingSaved
    BY <2>1 DEF StartScan
  <2>3. /\ scan' \in ScanRecord /\ scan'.by = by /\ scan'.st = IF by = "worker" THEN "age" ELSE "fetch"
        /\ Bare(scan') /\ scan'.days = NoScanYet.days /\ scan'.of = NoScanYet.of
    BY <2>2, NoScanYetFacts DEF ScanRecord, Bare
  <2>4. GoodScan(scan') BY <2>3 DEF GoodScan
  <2>5. saved'.kind = "none" /\ saved'.scan = NoScanYet BY <2>2 DEF NothingSaved
  <2>6. SavedInv' BY <2>5, NoScanYetFacts DEF SavedInv
  <2> QED BY <2>2, <2>3, <2>4, <2>5, <2>6, <1>4, NoScanYetFacts DEF NothingSaved
<1>9. CASE SaveResult
  <2>1. /\ scan.st = "save"
        /\ saved' = [kind |-> IF scan.page = NoPage THEN "aged" ELSE "full", scan |-> scan]
        /\ scan' = IF scan.by = "worker" THEN NoScanYet ELSE [scan EXCEPT !.st = "late"]
    BY <1>9 DEF SaveResult
  <2>2. Concluded(scan) \/ PassedForAge(scan) BY <2>1, <1>1 DEF GoodScan
  <2>3. saved'.scan = scan /\ saved'.kind = IF scan.page = NoPage THEN "aged" ELSE "full" BY <2>1
  <2>4. scan.by = "worker" => scan.days # NoEntry BY <2>1, <1>1 DEF GoodScan
  <2>5. SavedInv'
    BY <2>2, <2>3, <2>4 DEF SavedInv, Concluded, PassedForAge
  <2>6. YoungerOnce(saved.scan.days, saved.scan.of)'
    BY <2>3, <1>2 DEF VerdictInv, AgeInv, YoungerOnce
  <2>7. CASE scan.by = "worker"
    BY <2>1, <2>3, <2>5, <2>6, <2>7, <1>1, <1>4, GoodNoScanYet
  <2>8. CASE scan.by # "worker"
    <3>1. /\ scan' \in ScanRecord /\ scan'.st = "late" /\ scan'.by = "control"
          /\ scan'.days = scan.days /\ scan'.of = scan.of
      BY <2>1, <2>8, <1>1 DEF ScanRecord
    <3>2. GoodScan(scan') BY <3>1 DEF GoodScan
    <3>3. YoungerOnce(scan.days, scan.of)' BY <3>1, <1>2 DEF VerdictInv, AgeInv, YoungerOnce
    <3> QED BY <2>1, <2>5, <2>6, <3>2, <3>3, <1>1
  <2> QED BY <2>7, <2>8
<1>10. CASE SaveScanError
  <2>1. scan.st = "error" /\ saved' = [kind |-> "error", scan |-> scan] /\ scan' = NoScanYet
    BY <1>10 DEF SaveScanError
  <2>2. saved'.kind = "error" /\ saved'.scan = scan /\ scan.result = NoResult
    BY <2>1, <1>1 DEF GoodScan
  <2>3. SavedInv' BY <2>2 DEF SavedInv
  <2>4. YoungerOnce(saved.scan.days, saved.scan.of)'
    BY <2>2, <1>2 DEF VerdictInv, AgeInv, YoungerOnce
  <2> QED BY <2>1, <2>3, <2>4, <1>1, <1>4, GoodNoScanYet
<1> QED BY <1>8, <1>9, <1>10

\* Time only adds to an age, and a new registration makes the old ages nobody's.
LEMMA TimeSteps ==
    ASSUME VerdictInv, GrowOlder \/ RegisterAnew \/ AgeCacheExpires
    PROVE  VerdictInv'
<1>1. scan' = scan /\ saved' = saved
  BY DEF GrowOlder, RegisterAnew, AgeCacheExpires
<1>2. GoodScan(scan)' /\ SavedInv'
  BY <1>1 DEF VerdictInv, SavedInv, Concluded, PassedForAge, GoodScan, Bare
<1>3. /\ age \in Nat /\ age' \in Nat /\ age' \in Days /\ registered \in Nat /\ registered' \in Nat
      /\ registered' \in 1..MaxRegistrations
      /\ \/ registered' = registered /\ age <= age'
         \/ registered' = registered + 1
  BY VerdictAssumption DEF VerdictInv, VerdictTypeOK, GrowOlder, RegisterAnew, AgeCacheExpires
<1>5. /\ ageOf \in Nat /\ scan.of \in Nat /\ saved.scan.of \in Nat
      /\ ageOf \in 0..MaxRegistrations /\ ageCache \in Days \cup {Unknown, NoEntry}
  BY VerdictAssumption DEF VerdictInv, VerdictTypeOK, ScanRecord
<1>6. YoungerOnce(scan.days, scan.of)' /\ YoungerOnce(saved.scan.days, saved.scan.of)'
  <2>1. YoungerOnce(scan.days, scan.of) /\ YoungerOnce(saved.scan.days, saved.scan.of) BY DEF VerdictInv, AgeInv
  <2>2. YoungerOnce(scan.days, scan.of)'
    <3>1. scan.of <= registered /\ (scan.of = registered /\ scan.days \in Days => scan.days <= age)
      BY <2>1 DEF YoungerOnce
    <3>d. scan.days \in Days => scan.days \in Nat BY VerdictAssumption
    <3>2. scan.of <= registered' BY <3>1, <1>3, <1>5
    <3>3. scan.of = registered' /\ scan.days \in Days => scan.days <= age'
      BY <3>1, <3>d, <1>3, <1>5
    <3> QED BY <3>2, <3>3, <1>1 DEF YoungerOnce
  <2>3. YoungerOnce(saved.scan.days, saved.scan.of)'
    <3>1. saved.scan.of <= registered /\ (saved.scan.of = registered /\ saved.scan.days \in Days => saved.scan.days <= age)
      BY <2>1 DEF YoungerOnce
    <3>d. saved.scan.days \in Days => saved.scan.days \in Nat BY VerdictAssumption
    <3>2. saved.scan.of <= registered' BY <3>1, <1>3, <1>5
    <3>3. saved.scan.of = registered' /\ saved.scan.days \in Days => saved.scan.days <= age'
      BY <3>1, <3>d, <1>3, <1>5
    <3> QED BY <3>2, <3>3, <1>1 DEF YoungerOnce
  <2> QED BY <2>2, <2>3
<1>7. /\ YoungerOnce(ageCache, ageOf)'
      /\ ageCache' \in Days \cup {Unknown, NoEntry} /\ ageOf' \in 0..MaxRegistrations
  <2>1. YoungerOnce(ageCache, ageOf) BY DEF VerdictInv, AgeInv
  <2>2. CASE UNCHANGED <<ageCache, ageOf>>
    <3>1. ageOf <= registered /\ (ageOf = registered /\ ageCache \in Days => ageCache <= age)
      BY <2>1 DEF YoungerOnce
    <3>d. ageCache \in Days => ageCache \in Nat BY VerdictAssumption
    <3>2. ageOf <= registered' BY <3>1, <1>3, <1>5
    <3>3. ageOf = registered' /\ ageCache \in Days => ageCache <= age'
      BY <3>1, <3>d, <1>3, <1>5
    <3> QED BY <3>2, <3>3, <1>5, <2>2 DEF YoungerOnce
  <2>3. CASE AgeCacheExpires
    <3>1. ageCache' = NoEntry /\ ageOf' = 0 /\ 0 \in 0..MaxRegistrations
      BY <2>3, VerdictAssumption DEF AgeCacheExpires
    <3> QED BY <1>3, <3>1, NoScanYetFacts DEF YoungerOnce
  <2> QED BY <2>2, <2>3 DEF GrowOlder, RegisterAnew, AgeCacheExpires
<1> QED BY <1>1, <1>2, <1>3, <1>6, <1>7 DEF VerdictInv, VerdictTypeOK, AgeInv

LEMMA NextInv == VerdictInv /\ [VerdictNext]_verdictVars => VerdictInv'
<1>1. VerdictInv /\ VerdictNext => VerdictInv'
  BY ScanSteps, StoreSteps, TimeSteps DEF VerdictNext
<1>2. VerdictInv /\ UNCHANGED verdictVars => VerdictInv'
  BY DEF verdictVars, VerdictInv, VerdictTypeOK, AgeInv, YoungerOnce, SavedInv, GoodScan, Bare, Concluded, PassedForAge
<1> QED BY <1>1, <1>2

LEMMA VerdictInvariance == VerdictSpec => []VerdictInv
BY VerdictInvInit, NextInv, PTL DEF VerdictSpec

-----------------------------------------------------------------------------
(* The verdict rules: the theorems.                                        *)

\* severity_floor, ai.py: for every page and every reply, a saved verdict is no milder
\* than the floor of the page or of any part of its signs.
THEOREM NoSignHelps == VerdictSpec => []EvidenceCounts
<1>1. VerdictInv => EvidenceCounts
  <2> SUFFICES ASSUME VerdictInv, saved.kind = "full",
                      NEW fields \in SUBSET saved.scan.page.fields, NEW scripts \in 0..saved.scan.page.scripts
               PROVE  Rank[SeverityFloor([saved.scan.page EXCEPT !.fields = fields, !.scripts = scripts])]
                        <= Rank[saved.scan.result.verdict]
    BY DEF EvidenceCounts
  <2>1. saved.scan \in ScanRecord BY DEF VerdictInv, VerdictTypeOK
  <2>2. saved.scan.page \in PageType
    BY <2>1, VerdictAssumption DEF ScanRecord, VerdictInv, SavedInv, Concluded
  <2>3. saved.scan.reply \in Reply \cup {Garbage} BY <2>1 DEF ScanRecord
  <2>4. saved.scan.result = Conclude(saved.scan, saved.scan.reply) BY DEF VerdictInv, SavedInv, Concluded
  <2>5. Rank[SeverityFloor(saved.scan.page)] <= Rank[saved.scan.result.verdict]
    BY <2>1, <2>3, <2>4, ConcludeRank
  <2>6. Rank[SeverityFloor([saved.scan.page EXCEPT !.fields = fields, !.scripts = scripts])]
          <= Rank[SeverityFloor(saved.scan.page)]
    BY <2>2, FloorMonotone
  <2>7. saved.scan.result.verdict \in Verdicts BY <2>1 DEF ScanRecord, Result
  <2>8. \A v \in Verdicts : Rank[v] \in Nat BY Ranks DEF Verdicts
  <2> QED BY <2>5, <2>6, <2>7, <2>8, FloorType
<1> QED BY <1>1, VerdictInvariance, PTL

\* store.py save: the verdicts that block for good come from a page that asks for money
\* or from a reply that says scam and is sure of it.
THEOREM SureScamIsEarned == VerdictSpec => []BlockingIsEarned
<1>1. VerdictInv => BlockingIsEarned
  <2> SUFFICES ASSUME VerdictInv, saved.scan.result.verdict = "scam", saved.scan.result.confidence >= 70
               PROVE  \/ AsksForMoney(saved.scan.page)
                      \/ saved.scan.reply # Garbage /\ saved.scan.reply.verdict = "scam" /\ saved.scan.reply.confidence >= 70
    BY DEF BlockingIsEarned
  <2>1. saved.scan \in ScanRecord /\ saved.kind \in {"none", "aged", "error", "full"} BY DEF VerdictInv, VerdictTypeOK
  <2>2. saved.kind = "full" BY <2>1 DEF VerdictInv, SavedInv, NoResult, PassedForAge
  <2>3. saved.scan.result = Conclude(saved.scan, saved.scan.reply) BY <2>2 DEF VerdictInv, SavedInv, Concluded
  <2>4. saved.scan.reply \in Reply \cup {Garbage} BY <2>1 DEF ScanRecord
  <2>5. SeverityFloor(saved.scan.page) = "scam" => AsksForMoney(saved.scan.page)
    BY DEF SeverityFloor
  <2> QED BY <2>1, <2>3, <2>4, <2>5, ConcludeRank
<1> QED BY <1>1, VerdictInvariance, PTL

\* rdap.py, worker.py: whatever the cache remembers, a name is passed for its age only
\* when it is old, and a known youth is not called safe, until it is registered anew.
THEOREM AgeIsRespected == VerdictSpec => []AgeCounts
<1>1. VerdictInv => AgeCounts
  <2> SUFFICES ASSUME VerdictInv, saved.scan.of = registered
               PROVE  /\ saved.kind = "aged" => age >= 365
                      /\ saved.kind = "full" /\ saved.scan.by = "worker" /\ saved.scan.days # Unknown /\ age < 14
                            => saved.scan.result.verdict # "safe"
    BY DEF AgeCounts
  <2>1. /\ saved.scan \in ScanRecord /\ saved.scan.days \in Days \cup {Unknown, NoEntry}
        /\ Days \subseteq Nat /\ age \in Nat
    BY VerdictAssumption DEF VerdictInv, VerdictTypeOK, ScanRecord
  <2>2. saved.scan.days \in Days => saved.scan.days <= age BY DEF VerdictInv, AgeInv, YoungerOnce
  <2>3. ASSUME saved.kind = "aged" PROVE age >= 365
    <3>1. saved.scan.days # Unknown /\ saved.scan.days >= 365
      BY <2>3 DEF VerdictInv, SavedInv, PassedForAge, Aged
    <3>2. saved.scan.days # NoEntry BY <3>1 DEF NoEntry
    <3>3. saved.scan.days \in Nat /\ saved.scan.days <= age BY <2>1, <2>2, <3>1, <3>2
    <3> QED BY <2>1, <3>1, <3>3
  <2>4. ASSUME saved.kind = "full", saved.scan.by = "worker", saved.scan.days # Unknown, age < 14
        PROVE  saved.scan.result.verdict # "safe"
    <3>1. saved.scan.days # NoEntry BY <2>4 DEF VerdictInv, SavedInv
    <3>4. saved.scan.days \in Nat /\ saved.scan.days <= age BY <2>1, <2>2, <2>4, <3>1
    <3>2. saved.scan.days < 14 BY <2>1, <2>4, <3>4
    <3>3. saved.scan.result = Conclude(saved.scan, saved.scan.reply) BY <2>4 DEF VerdictInv, SavedInv, Concluded
    <3>5. saved.scan.reply \in Reply \cup {Garbage} BY <2>1 DEF ScanRecord
    <3> QED BY <2>1, <2>4, <3>2, <3>3, <3>5, ConcludeRank
  <2> QED BY <2>3, <2>4
<1> QED BY <1>1, VerdictInvariance, PTL

-----------------------------------------------------------------------------
(* Side by side.                                                           *)

\* A step of Services is a step of one component and leaves the others as they are.
LEMMA OneServiceMoves ==
    ASSUME [Next]_servicesVars
    PROVE  /\ [DeepNext]_deepVars
           /\ [WatchNext]_watchVars
           /\ [RegistrationNext]_registrationVars
           /\ [TyposquatNext]_typosquatVars
           /\ [VerdictNext]_verdictVars
           /\ [UpstreamNext]_upstreamVars
           /\ focus' = focus
BY DEF Next, Deep, Watching, Register, Names, Judging, Answering, servicesVars

\* Each service, among the others, is the service of its own module: so what is proved
\* of the module holds of it here.
THEOREM ServicesAreTheirModules ==
    Spec => /\ DeepSpec
            /\ WatchSpec
            /\ RegistrationSpec
            /\ TyposquatSpec
            /\ VerdictSpec
            /\ UpstreamSpec
<1>1. Init => DeepInit /\ WatchInit /\ RegistrationInit /\ TyposquatInit /\ VerdictInit /\ UpstreamInit
  BY DEF Init
<1>2. [Next]_servicesVars =>
        /\ [DeepNext]_deepVars /\ [WatchNext]_watchVars /\ [RegistrationNext]_registrationVars
        /\ [TyposquatNext]_typosquatVars /\ [VerdictNext]_verdictVars /\ [UpstreamNext]_upstreamVars
  BY OneServiceMoves
<1> QED
  BY <1>1, <1>2, PTL DEF Spec, DeepSpec, WatchSpec, RegistrationSpec, TyposquatSpec, VerdictSpec, UpstreamSpec

LEMMA FocusStays == Spec => [](focus \in Service)
<1>1. Init => focus \in Service
  BY DEF Init
<1>2. focus \in Service /\ [Next]_servicesVars => (focus \in Service)'
  BY OneServiceMoves
<1> QED
  BY <1>1, <1>2, PTL DEF Spec

\* The types of all six services, whichever of them moves.
THEOREM ServicesTypeCorrect == Spec => []ServicesTypeOK
<1>1. AccountInv => RegistrationTypeOK
  BY DEF AccountInv
<1>2. VerdictInv => VerdictTypeOK
  BY DEF VerdictInv
<1>3. RegistrationSpec => []AccountInv
  BY AccountInit, AccountStep, PTL DEF RegistrationSpec
<1>4. (/\ focus \in Service /\ DeepTypeOK /\ WatchTypeOK /\ RegistrationTypeOK
       /\ TyposquatTypeOK /\ VerdictTypeOK /\ UpstreamTypeOK) => ServicesTypeOK
  BY DEF ServicesTypeOK
<1> QED
  BY <1>1, <1>2, <1>3, <1>4, ServicesAreTheirModules, FocusStays, DeepType, WatchInvariance, WatchTypes,
     TyposquatType, VerdictInvariance, UpstreamType, PTL

\* What each service promises it keeps beside the others.
THEOREM PromisesHoldSideBySide ==
    Spec => /\ []WaitingIsForSomething /\ ImplementsDeepLease
            /\ []OnlyWatchersLearn /\ []StreamKeepsLatest
            /\ []CreatedMeansOwner
            /\ []EvidenceCounts /\ []BlockingIsEarned /\ []AgeCounts
            /\ []ServfailIsEarned
            /\ []HomoglyphsAreCaught /\ []HitsResemble
BY ServicesAreTheirModules, WaitingPages, DeepImplementsLease, EventsReachWatchersOnly, LatestEventsWait,
   AccountsHaveOneOwner, NoSignHelps, SureScamIsEarned, AgeIsRespected, ServfailNeedsBothServers,
   GlyphsAreUndone, HitsAreLookalikes, PTL
=============================================================================
