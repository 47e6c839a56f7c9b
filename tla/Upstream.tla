------------------------------ MODULE Upstream ------------------------------
(***************************************************************************)
(* dns_server/servers.py and upstream.py: a request from the listener that *)
(* takes it, through two upstream servers asked by UDP and by TCP, to its  *)
(* reply. What the resolver does before it forwards is in Resolver: here a *)
(* request is forwarded, answered without a server, or ends in an          *)
(* exception.                                                              *)
(***************************************************************************)
EXTENDS Naturals, Sequences, SequencesExt

CONSTANTS
    Question,           \* the requests of a behaviour
    MaxUpstreamFaults   \* bound on exceptions of resolve()

ASSUME UpstreamAssumption == MaxUpstreamFaults \in Nat

VARIABLES
    question,        \* the state of each request
    line,            \* requests on the TCP connection that have not been read
    connected,       \* the TCP connection is open
    upstreamFaults

upstreamVars == <<question, line, connected, upstreamFaults>>

\* primary, fallback
Upstreams == 1..2

\* st: "line" waits on the connection; "resolve" is in resolve(); "udp" and "tcp" wait
\* for the upstream server; "reply", "servfail" and "silence" are what the client got.
\* failed is history: the servers that let the request down.
QuestionRecord ==
    [st     : {"unasked", "line", "resolve", "udp", "tcp", "reply", "servfail", "silence"},
     via    : {"udp", "tcp", "doh"},
     server : Upstreams,
     failed : SUBSET Upstreams]

Unasked == [st |-> "unasked", via |-> "udp", server |-> 1, failed |-> {}]

UpstreamTypeOK ==
    /\ question \in [Question -> QuestionRecord]
    /\ line \in Seq(Question)
    /\ connected \in BOOLEAN
    /\ upstreamFaults \in 0..MaxUpstreamFaults

UpstreamInit ==
    /\ question = [q \in Question |-> Unasked]
    /\ line = <<>>
    /\ connected = TRUE
    /\ upstreamFaults = 0

-----------------------------------------------------------------------------
InWork == {q \in Question : question[q].st \in {"resolve", "udp", "tcp"}}

Turn(q, from, to) ==
    /\ question[q].st = from
    /\ question' = [question EXCEPT ![q].st = to]

\* A datagram or an HTTP request is a task of its own; on the TCP connection the
\* requests stand in line.
AskBy(q, via) ==
    /\ question[q].st = "unasked"
    /\ via = "tcp" => connected
    /\ question' = [question EXCEPT ![q].via = via, ![q].st = IF via = "tcp" THEN "line" ELSE "resolve"]
    /\ line' = IF via = "tcp" THEN Append(line, q) ELSE line
    /\ UNCHANGED <<connected, upstreamFaults>>

\* The client is done with a request: its slot is free for another.
Forget(q) ==
    /\ question[q].st \in {"reply", "servfail", "silence"}
    /\ question' = [question EXCEPT ![q] = Unasked]
    /\ UNCHANGED <<line, connected, upstreamFaults>>

\* A new connection. The model has one at a time, with its handler.
Dial ==
    /\ ~connected
    /\ \A q \in InWork : question[q].via # "tcp"
    /\ connected' = TRUE
    /\ UNCHANGED <<question, line, upstreamFaults>>

\* start_tcp: the next request is read when the one before has its reply.
ReadNextQuestion ==
    /\ line # <<>>
    /\ \A q \in InWork : question[q].via # "tcp"
    /\ Turn(Head(line), "line", "resolve")
    /\ line' = Tail(line)
    /\ UNCHANGED <<connected, upstreamFaults>>

Forward(q) ==
    /\ Turn(q, "resolve", "udp")
    /\ UNCHANGED <<line, connected, upstreamFaults>>

\* A blocked name gets its answer from the resolver. A request that is no DNS message
\* becomes the empty answer of _servfail, and nothing is sent.
AnswersItself(q) ==
    /\ \/ Turn(q, "resolve", "reply")
       \/ Turn(q, "resolve", "silence")
    /\ UNCHANGED <<line, connected, upstreamFaults>>

\* resolve() raises: the datagram is dropped, the HTTP request gets a status 500, the
\* connection is closed with all that stand in line.
ResolveRaises(q) ==
    /\ question[q].st = "resolve"
    /\ upstreamFaults < MaxUpstreamFaults /\ upstreamFaults' = upstreamFaults + 1
    /\ LET lost == {q} \cup IF question[q].via = "tcp" THEN ToSet(line) ELSE {}
       IN  question' = [p \in Question |-> IF p \in lost THEN [question[p] EXCEPT !.st = "silence"] ELSE question[p]]
    /\ IF question[q].via = "tcp" THEN connected' = FALSE /\ line' = <<>>
       ELSE UNCHANGED <<connected, line>>

\* The client hangs up. The request in work goes on.
HangUp ==
    /\ connected
    /\ connected' = FALSE
    /\ question' = [p \in Question |-> IF p \in ToSet(line) THEN [question[p] EXCEPT !.st = "silence"] ELSE question[p]]
    /\ line' = <<>>
    /\ UNCHANGED upstreamFaults

\* _udp_query: a complete answer is passed on, a truncated one is asked for again by TCP.
UdpAnswer(q) ==
    /\ \/ Turn(q, "udp", "reply")
       \/ Turn(q, "udp", "tcp")
    /\ UNCHANGED <<line, connected, upstreamFaults>>

\* _tcp_query: an answer of length 0 is passed on as well, and nothing is sent.
TcpAnswer(q) ==
    /\ \/ Turn(q, "tcp", "reply")
       \/ Turn(q, "tcp", "silence")
    /\ UNCHANGED <<line, connected, upstreamFaults>>

\* MUTANT of TimesOut: the repeated question is asked without a time limit.
TimesOutByUdp(q) == question[q].st = "udp"

\* wait_for around either call; an error of the socket or an empty datagram end it too.
TimesOut(q) == question[q].st \in {"udp", "tcp"}

\* MUTANT of AfterFailure: a failed repetition by TCP is the end of the query.
AfterFailureGivesUp(rec) ==
    IF rec.server = 2 \/ rec.st = "tcp" THEN [rec EXCEPT !.st = "servfail"] ELSE [rec EXCEPT !.st = "udp", !.server = 2]

\* The loop over the servers; after the last one _forward answers SERVFAIL.
AfterFailure(rec) ==
    IF rec.server = 2 THEN [rec EXCEPT !.st = "servfail"] ELSE [rec EXCEPT !.st = "udp", !.server = 2]

ServerFails(q) ==
    /\ TimesOut(q)
    /\ LET failed == question[q].failed \cup {question[q].server}
       IN  question' = [question EXCEPT ![q] = AfterFailure([question[q] EXCEPT !.failed = failed])]
    /\ UNCHANGED <<line, connected, upstreamFaults>>

QuestionStep(q) == Forward(q) \/ AnswersItself(q) \/ UdpAnswer(q) \/ TcpAnswer(q) \/ ServerFails(q)

UpstreamNext ==
    \/ \E q \in Question :
        \/ \E via \in {"udp", "tcp", "doh"} : AskBy(q, via)
        \/ QuestionStep(q) \/ ResolveRaises(q) \/ Forget(q)
    \/ ReadNextQuestion \/ HangUp \/ Dial

UpstreamSpec == UpstreamInit /\ [][UpstreamNext]_upstreamVars

-----------------------------------------------------------------------------
\* upstream.py query: SERVFAIL means that both servers let the client down, the one
\* that has answered, truncated, and failed to repeat it by TCP included.
ServfailIsEarned ==
    \A q \in Question : question[q].st = "servfail" => question[q].failed = Upstreams

\* servers.py, upstream.py: servers that never answer cost time and nothing else. A
\* request ends, and so does every one that stands behind it on its connection.
QuestionsEnd ==
    \A q \in Question : question[q].st # "unasked" ~> question[q].st \in {"reply", "servfail", "silence"}
=============================================================================
