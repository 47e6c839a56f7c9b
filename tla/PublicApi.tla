----------------------------- MODULE PublicApi -----------------------------
(***************************************************************************)
(* api/routers/check.py: GET /api/check/<name> reads blocklist_seed, then  *)
(* verdict:<name>, then domain_verdicts, and answers with the first entry  *)
(* it finds. A name nobody knows is pushed to the scan queue, without the  *)
(* marker and the rate limit of the DNS path.                              *)
(***************************************************************************)
EXTENDS SharedState

CONSTANTS
    Client,     \* check requests that can be in progress at one time
    Checked     \* the names they ask about

ASSUME PublicAssumption == Checked \subseteq Domain

VARIABLE check

CheckRecord == [st : {"idle", "cache", "row", "push"}, name : Domain \cup {NoDomain}]

IdleCheck == [st |-> "idle", name |-> NoDomain]

PublicTypeOK ==
    check \in [Client -> {rec \in CheckRecord : rec.st # "idle" => rec.name \in Domain}]

PublicInit == check = [c \in Client |-> IdleCheck]

-----------------------------------------------------------------------------
\* The request goes on to the next source, or has its answer and ends.
NextSource(c, found, st, d) ==
    check' = [check EXCEPT ![c] = IF found THEN IdleCheck ELSE [st |-> st, name |-> d]]

\* _blocklist_match walks the parent chain, in blocklist_seed only.
CheckBlocklist(c, d) ==
    /\ check[c].st = "idle"
    /\ NextSource(c, \E p \in Parents(d) : seed[p] # "none", "cache", d)
    /\ UNCHANGED <<pgVars, redisVars, memVars, faults>>

CheckCache(c) ==
    /\ check[c].st = "cache"
    /\ NextSource(c, cache[check[c].name] # "none", "row", check[c].name)
    /\ UNCHANGED <<pgVars, redisVars, memVars, faults>>

CheckRow(c) ==
    /\ check[c].st = "row"
    /\ NextSource(c, row[check[c].name] # "none", "push", check[c].name)
    /\ UNCHANGED <<pgVars, redisVars, memVars, faults>>

CheckEnqueue(c) ==
    /\ check[c].st = "push"
    /\ Enqueue(check[c].name)
    /\ check' = [check EXCEPT ![c] = IdleCheck]
    /\ UNCHANGED <<pgVars, cache, limited, memVars, faults>>

\* Redis or Postgres fails: the request ends with a 500.
CheckFails(c) ==
    /\ check[c].st # "idle"
    /\ Fault
    /\ check' = [check EXCEPT ![c] = IdleCheck]
    /\ UNCHANGED <<pgVars, redisVars, memVars>>

PublicStep(c) == CheckCache(c) \/ CheckRow(c) \/ CheckEnqueue(c)

PublicNext ==
    \E c \in Client :
        \/ \E d \in Checked : CheckBlocklist(c, d)
        \/ PublicStep(c)
        \/ CheckFails(c)
=============================================================================
