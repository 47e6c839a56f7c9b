----------------------------- MODULE LeaseLock -----------------------------
(***************************************************************************)
(* What SET key NX EX ttl promises to the tasks that use it as a lock, when *)
(* every task deletes the key at its end without looking whose it is. The   *)
(* scrape lock and the deep-scan locks are both of this kind.               *)
(***************************************************************************)
EXTENDS Naturals

CONSTANT Task

VARIABLES
    holders,    \* the tasks that have taken the lock and not finished
    locked,     \* the key exists
    lapses      \* how often the TTL ended while a task was still at work

leaseVars == <<holders, locked, lapses>>

Init ==
    /\ holders = {}
    /\ locked = FALSE
    /\ lapses = 0

Claim(t) ==
    /\ ~locked /\ t \notin holders
    /\ locked' = TRUE
    /\ holders' = holders \cup {t}
    /\ UNCHANGED lapses

\* The key is set, but nobody learns of it.
ClaimLost ==
    /\ locked' = TRUE
    /\ UNCHANGED <<holders, lapses>>

\* The task ends; its delete may be the wrong one, or be lost.
Finish(t) ==
    /\ t \in holders
    /\ holders' = holders \ {t}
    /\ locked' \in {FALSE, locked}
    /\ UNCHANGED lapses

Lapse ==
    /\ locked
    /\ locked' = FALSE
    /\ lapses' = lapses + (IF holders = {} THEN 0 ELSE 1)
    /\ UNCHANGED holders

\* The process is gone with all its tasks.
Die ==
    /\ holders' = {}
    /\ locked' \in BOOLEAN
    /\ UNCHANGED lapses

Next ==
    \/ \E t \in Task : Claim(t) \/ Finish(t)
    \/ ClaimLost
    \/ Lapse
    \/ Die

Spec == Init /\ [][Next]_leaseVars
=============================================================================
