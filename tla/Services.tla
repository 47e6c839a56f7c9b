------------------------------ MODULE Services ------------------------------
(***************************************************************************)
(* The services beside the scan pipeline. They share no state with each    *)
(* other, so every behaviour of one is checked with the others at rest:    *)
(* focus says which one moves.                                             *)
(***************************************************************************)
EXTENDS DeepScan, Watch, Registration, Typosquat, VerdictRules, Upstream

VARIABLE focus

Service == {"deep", "watch", "register", "names", "verdict", "upstream"}

servicesVars == <<focus, deepVars, watchVars, registrationVars, typosquatVars, verdictVars,
    upstreamVars>>

ServicesTypeOK ==
    /\ focus \in Service
    /\ DeepTypeOK
    /\ WatchTypeOK
    /\ RegistrationTypeOK
    /\ TyposquatTypeOK
    /\ VerdictTypeOK
    /\ UpstreamTypeOK

\* A service at rest has one initial state, whichever it is.
AtRest(service) == focus # service

Init ==
    /\ focus \in Service
    /\ DeepInit
    /\ WatchInit
    /\ RegistrationInit
    /\ AtRest("register") => \E m \in Email : \A a \in Attempt : attempt[a].email = m
    /\ TyposquatInit
    /\ VerdictInit
    /\ AtRest("verdict") => \A d \in Days : age <= d
    /\ UpstreamInit

\* A step of one service; the others stay as they are.
Deep(A)      == focus = "deep" /\ A /\ UNCHANGED <<focus, watchVars, registrationVars, typosquatVars, verdictVars, upstreamVars>>
Watching(A)  == focus = "watch" /\ A /\ UNCHANGED <<focus, deepVars, registrationVars, typosquatVars, verdictVars, upstreamVars>>
Register(A)  == focus = "register" /\ A /\ UNCHANGED <<focus, deepVars, watchVars, typosquatVars, verdictVars, upstreamVars>>
Names(A)     == focus = "names" /\ A /\ UNCHANGED <<focus, deepVars, watchVars, registrationVars, verdictVars, upstreamVars>>
Judging(A)   == focus = "verdict" /\ A /\ UNCHANGED <<focus, deepVars, watchVars, registrationVars, typosquatVars, upstreamVars>>
Answering(A) == focus = "upstream" /\ A /\ UNCHANGED <<focus, deepVars, watchVars, registrationVars, typosquatVars, verdictVars>>

Next ==
    \/ Deep(DeepNext)
    \/ Watching(WatchNext)
    \/ Register(RegistrationNext)
    \/ Names(TyposquatNext)
    \/ Judging(VerdictNext)
    \/ Answering(UpstreamNext)

Spec == Init /\ [][Next]_servicesVars

\* What the API has started goes on: a scan gets an answer within the time limit of
\* its call, a page asks every four seconds, the subscriber takes its next step.
\* Nobody is obliged to open, to leave, to accept or to subscribe. A listener goes on
\* with its requests, and an upstream server need not answer: its time runs out.
Fairness ==
    /\ \A t \in DeepTask : WF_servicesVars(Deep(StoreResult(t) \/ Unlock(t)))
    /\ \A v \in Visitor : WF_servicesVars(Deep(Poll(v)))
    /\ WF_servicesVars(Watching(SubscriberStep))
    /\ \A q \in Question : WF_servicesVars(Answering(Forward(q) \/ ServerFails(q)))
    /\ WF_servicesVars(Answering(ReadNextQuestion))

FairSpec == Spec /\ Fairness
=============================================================================
