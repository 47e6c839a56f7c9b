------------------------------ MODULE AdminApi ------------------------------
(***************************************************************************)
(* api/routers/admin.py: the handlers that edit the lists, one at a time   *)
(* in the model. A Postgres transaction is one step; the Redis delete that *)
(* follows it is another, and may fail after the transaction committed.    *)
(***************************************************************************)
EXTENDS SharedState

CONSTANTS
    Managed,    \* the names administrators edit
    Reported    \* the names people report

ASSUME AdminAssumption == Managed \subseteq Domain /\ Reported \subseteq Domain

VARIABLE admin

\* st: "demote" runs the UPDATE of remove_blocklist next, "clear" the delete
\* of verdict:<name>.
AdminRecord ==
    [st   : {"idle", "demote", "clear"},
     op   : {"none", "add_blocklist", "remove_blocklist", "add_whitelist", "remove_whitelist"},
     name : Domain \cup {NoDomain}]

IdleAdmin == [st |-> "idle", op |-> "none", name |-> NoDomain]

AdminTypeOK == admin \in {rec \in AdminRecord : rec.st # "idle" => rec.name \in Domain}

AdminInit == admin = IdleAdmin

-----------------------------------------------------------------------------
Handle(st, op, d) == admin' = [st |-> st, op |-> op, name |-> d]

NoSeedRow(d) == [seed EXCEPT ![d] = "none"]

\* UPDATE domain_verdicts SET verdict='safe' WHERE verdict IN ('scam','suspicious')
Demoted(d) == [row EXCEPT ![d] = IF @ \in BadRow THEN "safe" ELSE @]

AddBlocklist(d) ==
    /\ admin.st = "idle"
    /\ seed' = WithSeedRow(d, "manual")
    /\ white' = white \ {d}
    /\ Handle("clear", "add_blocklist", d)
    /\ UNCHANGED <<row, report, redisVars, memVars, faults>>

\* Two statements that commit one by one.
RemoveBlocklist(d) ==
    /\ admin.st = "idle"
    /\ seed' = NoSeedRow(d)
    /\ Handle("demote", "remove_blocklist", d)
    /\ UNCHANGED <<white, row, report, redisVars, memVars, faults>>

DemoteVerdict ==
    /\ admin.st = "demote"
    /\ row' = Demoted(admin.name)
    /\ Handle("clear", admin.op, admin.name)
    /\ UNCHANGED <<seed, white, report, redisVars, memVars, faults>>

AddWhitelist(d) ==
    /\ admin.st = "idle"
    /\ white' = white \cup {d}
    /\ seed' = NoSeedRow(d)
    /\ row' = Demoted(d)
    /\ Handle("clear", "add_whitelist", d)
    /\ UNCHANGED <<report, redisVars, memVars, faults>>

RemoveWhitelist(d) ==
    /\ admin.st = "idle"
    /\ white' = white \ {d}
    /\ Handle("clear", "remove_whitelist", d)
    /\ UNCHANGED <<seed, row, report, redisVars, memVars, faults>>

\* redis.delete(verdict:<name>), the last step of all four handlers.
ClearVerdict ==
    /\ admin.st = "clear"
    /\ cache' = [cache EXCEPT ![admin.name] = "none"]
    /\ admin' = IdleAdmin
    /\ UNCHANGED <<pgVars, limited, queue, memVars, faults>>

\* Postgres or Redis fails between two steps: the request ends with a 500.
AdminFails ==
    /\ admin.st # "idle"
    /\ Fault
    /\ admin' = IdleAdmin
    /\ UNCHANGED <<pgVars, redisVars, memVars>>

-----------------------------------------------------------------------------
(* Reports. The model keeps one report per name.                           *)

\* api/routers/report.py: anybody may report a name.
SubmitReport(d) ==
    /\ report[d] = "none"
    /\ report' = [report EXCEPT ![d] = "pending"]
    /\ UNCHANGED <<seed, white, row, redisVars, memVars, faults, admin>>

\* One transaction; the status the report had does not matter.
ConfirmReport(d) ==
    /\ report[d] # "none"
    /\ report' = [report EXCEPT ![d] = "confirmed"]
    /\ seed' = WithSeedRow(d, "user-report")
    /\ UNCHANGED <<white, row, redisVars, memVars, faults, admin>>

\* A row that an earlier confirmation put on the blocklist stays there.
RejectReport(d) ==
    /\ report[d] # "none"
    /\ report' = [report EXCEPT ![d] = "rejected"]
    /\ UNCHANGED <<seed, white, row, redisVars, memVars, faults, admin>>

AdminStep == DemoteVerdict \/ ClearVerdict

AdminNext ==
    \/ \E d \in Managed :
        \/ AddBlocklist(d) \/ RemoveBlocklist(d)
        \/ AddWhitelist(d) \/ RemoveWhitelist(d)
    \/ \E d \in Reported :
        \/ SubmitReport(d) \/ ConfirmReport(d) \/ RejectReport(d)
    \/ AdminStep
    \/ AdminFails
=============================================================================
