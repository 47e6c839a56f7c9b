-------------------------------- MODULE Watch --------------------------------
(***************************************************************************)
(* Who learns of a ward's blocked names: the guardian links (routers/me.py) *)
(* and the way of a block event from the DNS server through Redis pubsub,  *)
(* the subscriber of the API (events.py), the SSE streams and Web Push.    *)
(* One ward; links of other wards have nothing in common with its links.   *)
(***************************************************************************)
EXTENDS Naturals, Sequences, SequencesExt

CONSTANTS
    Ward,            \* the user whose DNS requests are blocked
    Guardian,        \* the users who can watch over the ward
    Endpoint,        \* browser push subscriptions
    Owner,           \* Owner[e]: the user whose browser has subscription e
    QueueSize,       \* asyncio.Queue(maxsize=64) of an SSE stream
    MaxEvents,       \* bound on the blocked names of a behaviour
    MaxWatchFaults   \* bound on failed calls and restarts

User  == {Ward} \cup Guardian
Event == 1..MaxEvents

ASSUME WatchAssumption ==
    /\ Ward \notin Guardian
    /\ Owner \in [Endpoint -> User]
    /\ QueueSize \in Nat \ {0}
    /\ MaxEvents \in Nat /\ MaxWatchFaults \in Nat

VARIABLES
    link,       \* guardian_links: the status of each guardian's row, or "none"
    published,  \* the events so far; event n is the n-th one
    channel,    \* published, received by the API's connection, not yet handled
    sub,        \* the state of run_subscriber
    stream,     \* SSE streams: "closed", or "open"
    inbox,      \* the queue of each stream
    subs,       \* push_subscriptions: the endpoints that have a row
    gone,       \* the endpoints that the push service has given up (404, 410)
    watchFaults,
    watched,    \* history: who had an accepted link since the event was published
    fanned      \* history: the events put into a stream's queue since it opened

linkVars  == <<link, watched>>
eventVars == <<published, channel, sub>>
sseVars   == <<stream, inbox, fanned>>
pushVars  == <<subs, gone>>
watchVars == <<linkVars, eventVars, sseVars, pushVars, watchFaults>>

\* st: "ready" awaits the next message; "links" has one and asks for the guardians
\* next; "fanout" asks for the ward's address and fills the queues next; "push"
\* serves the users in "rest" one by one; "hung" waits for a push service that does
\* not answer; "down" waits to connect again.
SubRecord ==
    [st      : {"down", "ready", "links", "fanout", "push", "hung"},
     event   : 0..MaxEvents,
     targets : SUBSET User,
     rest    : SUBSET User]

Down  == [st |-> "down", event |-> 0, targets |-> {}, rest |-> {}]
Ready == [Down EXCEPT !.st = "ready"]

WatchTypeOK ==
    /\ link \in [Guardian -> {"none", "pending", "accepted", "rejected"}]
    /\ published \in 0..MaxEvents
    /\ channel \in Seq(Event)
    /\ sub \in SubRecord
    /\ sub.st \notin {"down", "ready"} => sub.event \in Event
    /\ stream \in [User -> {"closed", "open"}]
    /\ inbox \in [User -> Seq(Event)]
    /\ subs \in SUBSET Endpoint
    /\ gone \in SUBSET Endpoint
    /\ watchFaults \in 0..MaxWatchFaults
    /\ watched \in [Event -> SUBSET Guardian]
    /\ fanned \in [User -> Seq(Event)]

WatchInit ==
    /\ link = [g \in Guardian |-> "none"]
    /\ published = 0
    /\ channel = <<>>
    /\ sub = Down
    /\ stream = [u \in User |-> "closed"]
    /\ inbox = [u \in User |-> <<>>]
    /\ subs = {}
    /\ gone = {}
    /\ watchFaults = 0
    /\ watched = [e \in Event |-> {}]
    /\ fanned = [u \in User |-> <<>>]

-----------------------------------------------------------------------------
(* Guardian links.                                                         *)

Watchers == {g \in Guardian : link[g] = "accepted"}

\* invite_dependent: a new row, or the old one set back to pending, whatever it was.
Invite(g) ==
    /\ link' = [link EXCEPT ![g] = "pending"]
    /\ UNCHANGED <<watched, eventVars, sseVars, pushVars, watchFaults>>

\* accept_link
Accept(g) ==
    /\ link[g] = "pending"
    /\ link' = [link EXCEPT ![g] = "accepted"]
    /\ watched' = [e \in Event |-> watched[e] \cup {g}]
    /\ UNCHANGED <<eventVars, sseVars, pushVars, watchFaults>>

\* reject_link
Reject(g) ==
    /\ link[g] = "pending"
    /\ link' = [link EXCEPT ![g] = "rejected"]
    /\ UNCHANGED <<watched, eventVars, sseVars, pushVars, watchFaults>>

\* revoke_link, by either side, in any state.
Revoke(g) ==
    /\ link[g] # "none"
    /\ link' = [link EXCEPT ![g] = "none"]
    /\ UNCHANGED <<watched, eventVars, sseVars, pushVars, watchFaults>>

-----------------------------------------------------------------------------
(* From the DNS server to the subscriber.                                  *)

WatchFault == watchFaults < MaxWatchFaults /\ watchFaults' = watchFaults + 1

\* resolver.py _resolve_then_log: pubsub keeps nothing for a subscriber that is away.
Publish ==
    /\ published < MaxEvents
    /\ published' = published + 1
    /\ channel' = IF sub.st = "down" THEN channel ELSE Append(channel, published + 1)
    /\ watched' = [watched EXCEPT ![published + 1] = Watchers]
    /\ UNCHANGED <<link, sub, sseVars, pushVars, watchFaults>>

Connect ==
    /\ sub.st = "down"
    /\ sub' = Ready
    /\ UNCHANGED <<linkVars, published, channel, sseVars, pushVars, watchFaults>>

Receive ==
    /\ sub.st = "ready" /\ channel # <<>>
    /\ sub' = [Ready EXCEPT !.st = "links", !.event = Head(channel)]
    /\ channel' = Tail(channel)
    /\ UNCHANGED <<linkVars, published, sseVars, pushVars, watchFaults>>

\* MUTANT of Targets: every link counts, whatever its status.
TargetsAnyStatus == {Ward} \cup {g \in Guardian : link[g] # "none"}

\* MUTANT of Targets: the stream is for the ward alone.
TargetsWardOnly == {Ward}

Targets == {Ward} \cup Watchers

\* _handle_event: SELECT guardian_id ... WHERE status='accepted'
ReadLinks ==
    /\ sub.st = "links"
    /\ sub' = [sub EXCEPT !.st = "fanout", !.targets = Targets]
    /\ UNCHANGED <<linkVars, published, channel, sseVars, pushVars, watchFaults>>

\* MUTANT of Put: a full queue takes no new event.
PutDropsNewest(q, e) == IF Len(q) < QueueSize THEN Append(q, e) ELSE q

\* A full queue loses its oldest event.
Put(q, e) == Append(IF Len(q) < QueueSize THEN q ELSE Tail(q), e)

\* EventBus.fanout, which does not await.
FanOut ==
    /\ sub.st = "fanout"
    /\ LET open == {u \in sub.targets : stream[u] = "open"}
       IN  /\ inbox'  = [u \in User |-> IF u \in open THEN Put(inbox[u], sub.event) ELSE inbox[u]]
           /\ fanned' = [u \in User |-> IF u \in open THEN Append(fanned[u], sub.event) ELSE fanned[u]]
    /\ sub' = [sub EXCEPT !.st = "push", !.rest = sub.targets]
    /\ UNCHANGED <<linkVars, published, channel, stream, pushVars, watchFaults>>

\* requests: a Response is true in a condition only when its status is below 400.
IsTrue(status) == status < 400

\* _send_one: "if exc.response" asks for the truth of the response, where it means to
\* ask whether there is one.
StatusSeen(status) == IF IsTrue(status) THEN status ELSE 0

Dead(status) == StatusSeen(status) \in {404, 410}

\* What a push service answers: 410 stands for "the subscription is dead".
Answers(e) == IF e \in gone THEN {410} ELSE {201, 500}

\* PushSender.send_to_user. Each send has its own outcome; the rows of the dead ones
\* are deleted after the last.
PushTo(u) ==
    /\ sub.st = "push" /\ u \in sub.rest
    /\ \E status \in [{e \in subs : Owner[e] = u} -> {201, 410, 500}] :
         /\ \A e \in DOMAIN status : status[e] \in Answers(e)
         /\ subs' = subs \ {e \in DOMAIN status : Dead(status[e])}
    /\ sub' = [sub EXCEPT !.rest = @ \ {u}]
    /\ UNCHANGED <<linkVars, published, channel, sseVars, gone, watchFaults>>

Handled ==
    /\ sub.st = "push" /\ sub.rest = {}
    /\ sub' = Ready
    /\ UNCHANGED <<linkVars, published, channel, sseVars, pushVars, watchFaults>>

-----------------------------------------------------------------------------
(* Browsers.                                                               *)

\* sse_blocks. The model keeps one stream per user.
OpenStream(u) ==
    /\ stream[u] = "closed"
    /\ stream' = [stream EXCEPT ![u] = "open"]
    /\ UNCHANGED <<linkVars, eventVars, inbox, fanned, pushVars, watchFaults>>

SendNext(u) ==
    /\ inbox[u] # <<>>
    /\ inbox' = [inbox EXCEPT ![u] = Tail(@)]
    /\ UNCHANGED <<linkVars, eventVars, stream, fanned, pushVars, watchFaults>>

\* finally: unsubscribe. The queue goes with its stream.
CloseStream(u) ==
    /\ stream[u] = "open"
    /\ stream' = [stream EXCEPT ![u] = "closed"]
    /\ inbox' = [inbox EXCEPT ![u] = <<>>]
    /\ fanned' = [fanned EXCEPT ![u] = <<>>]
    /\ UNCHANGED <<linkVars, eventVars, pushVars, watchFaults>>

\* A browser subscribes with an endpoint of its push service that is alive.
Subscribe(e) ==
    /\ e \notin gone
    /\ subs' = subs \cup {e}
    /\ UNCHANGED <<linkVars, eventVars, sseVars, gone, watchFaults>>

Unsubscribe(e) ==
    /\ e \in subs
    /\ subs' = subs \ {e}
    /\ UNCHANGED <<linkVars, eventVars, sseVars, gone, watchFaults>>

\* The browser drops its permission, or its profile is deleted.
EndpointDies(e) ==
    /\ e \notin gone
    /\ gone' = gone \cup {e}
    /\ UNCHANGED <<linkVars, eventVars, sseVars, subs, watchFaults>>

-----------------------------------------------------------------------------
(* Failures.                                                               *)

\* Redis closes the connection, or a query of _handle_event fails: the exception
\* ends the loop over the messages, what the connection held is lost.
SubscriberFails ==
    /\ sub.st \in {"ready", "links", "fanout"}
    /\ WatchFault
    /\ sub' = Down
    /\ channel' = <<>>
    /\ UNCHANGED <<linkVars, published, sseVars, pushVars>>

\* Postgres fails in send_to_user: logged, the next user is served.
PushFails ==
    /\ sub.st = "push"
    /\ \E u \in sub.rest : sub' = [sub EXCEPT !.rest = @ \ {u}]
    /\ WatchFault
    /\ UNCHANGED <<linkVars, published, channel, sseVars, pushVars>>

\* The call of the push service has no timeout.
PushHangs ==
    /\ sub.st = "push" /\ sub.rest # {}
    /\ WatchFault
    /\ sub' = [sub EXCEPT !.st = "hung"]
    /\ UNCHANGED <<linkVars, published, channel, sseVars, pushVars>>

WatchApiDies ==
    /\ WatchFault
    /\ sub' = Down
    /\ channel' = <<>>
    /\ stream' = [u \in User |-> "closed"]
    /\ inbox' = [u \in User |-> <<>>]
    /\ fanned' = [u \in User |-> <<>>]
    /\ UNCHANGED <<linkVars, published, pushVars>>

SubscriberStep ==
    \/ Connect \/ Receive \/ ReadLinks \/ FanOut
    \/ \E u \in User : PushTo(u)
    \/ Handled

WatchNext ==
    \/ \E g \in Guardian : Invite(g) \/ Accept(g) \/ Reject(g) \/ Revoke(g)
    \/ Publish
    \/ SubscriberStep
    \/ \E u \in User : OpenStream(u) \/ SendNext(u) \/ CloseStream(u)
    \/ \E e \in Endpoint : Subscribe(e) \/ Unsubscribe(e) \/ EndpointDies(e)
    \/ SubscriberFails \/ PushFails \/ PushHangs \/ WatchApiDies

WatchSpec == WatchInit /\ [][WatchNext]_watchVars

-----------------------------------------------------------------------------
\* me.py revoke_link, events.py _handle_event: a guardian gets an event, in the
\* stream or by push, only if the link was accepted at some moment since the name
\* was blocked. After a revocation no later event arrives, however long the
\* subscriber is behind and whatever it was about to do.
OnlyWatchersLearn ==
    sub.st \in {"fanout", "push", "hung"} => sub.targets \subseteq {Ward} \cup watched[sub.event]

\* events.py EventBus.fanout: what a slow browser still has to come are the latest
\* events of its stream, in the order in which the names were blocked.
StreamKeepsLatest ==
    \A u \in User :
        /\ IsSuffix(inbox[u], fanned[u])
        /\ \A i, j \in DOMAIN fanned[u] : i < j => fanned[u][i] < fanned[u][j]

\* push.py send_to_user, "Dead endpoints are pruned": a row of push_subscriptions
\* whose endpoint is dead is deleted when it is its user's turn, as long as the
\* subscriber gets to it and no store fails.
DeadEndpointsArePruned ==
    \A e \in Endpoint :
        (sub.st = "push" /\ Owner[e] \in sub.rest /\ e \in gone /\ e \in subs)
            ~> (e \notin subs \/ watchFaults > 0)

InChannel(e) == \E i \in DOMAIN channel : channel[i] = e

\* events.py run_subscriber, routers/events.py: an event that the API has received
\* reaches the stream of a guardian, if link, stream and connection last so long and
\* no push service keeps the subscriber waiting for ever.
EventArrives ==
    \A g \in Guardian, e \in Event :
        (InChannel(e) /\ link[g] = "accepted" /\ stream[g] = "open")
            ~> \/ \E i \in DOMAIN fanned[g] : fanned[g][i] = e
               \/ link[g] # "accepted" \/ stream[g] = "closed" \/ sub.st \in {"down", "hung"}
=============================================================================
