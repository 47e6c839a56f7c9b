---------------------------- MODULE ScanTickets ----------------------------
(***************************************************************************)
(* What the scan pipeline promises, without the queue, the tasks and the   *)
(* processes that keep the promise: each name has a marker (nothing, "a    *)
(* scan is pending" or a verdict) and may have open tickets, scans that    *)
(* will end with a verdict. A marker is set together with a ticket, only   *)
(* where there was nothing, and the last ticket of a pending name is       *)
(* closed by a verdict or lost in a fault.                                 *)
(***************************************************************************)
EXTENDS Naturals

CONSTANTS Domain, MaxFaults

VARIABLES marker, open, faults

ticketVars == <<marker, open, faults>>

Init ==
    /\ marker = [d \in Domain |-> "none"]
    /\ open = {}
    /\ faults = 0

\* The DNS path: the marker is free, and a scan will follow.
Claim(d) ==
    /\ marker[d] = "none"
    /\ marker' = [marker EXCEPT ![d] = "pending"]
    /\ open' = open \cup {d}
    /\ UNCHANGED faults

\* The public API asks for a scan and sets no marker.
Request(d) ==
    /\ open' = open \cup {d}
    /\ UNCHANGED <<marker, faults>>

\* A scan is over; d may have another one open.
Finish(d) ==
    /\ marker' = [marker EXCEPT ![d] = "verdict"]
    /\ open' \in {open, open \ {d}}
    /\ UNCHANGED faults

\* The TTL of a marker is over, or an administrator deletes it.
Vanish(d) ==
    /\ marker' = [marker EXCEPT ![d] = "none"]
    /\ UNCHANGED <<open, faults>>

\* A crash or a failed call loses tickets; a marker may be set without one.
Fail ==
    /\ faults < MaxFaults
    /\ faults' = faults + 1
    /\ open' \in SUBSET open
    /\ \/ UNCHANGED marker
       \/ \E d \in Domain : marker[d] = "none" /\ marker' = [marker EXCEPT ![d] = "pending"]

Next ==
    \/ \E d \in Domain : Claim(d) \/ Request(d) \/ Finish(d) \/ Vanish(d)
    \/ Fail

Spec == Init /\ [][Next]_ticketVars
=============================================================================
